--------------------------- MODULE XRechnungRules ---------------------------
(***************************************************************************)
(* The German CIUS of einvoice/rules_xrechnung.py: BR-DE, BR-TMP, the      *)
(* Clean Vehicles Directive rules (CVD) and the extension rules (DEX), in  *)
(* UBL (read from the document itself) and in CII (read from the model).   *)
(*                                                                         *)
(* The fields of a document that only this layer reads are in doc.xr; a    *)
(* payment means, a line and doc.has carry the rest.  Field by field:      *)
(*   contacts     seller contacts [name, dept: BOOLEAN, tel, mail]         *)
(*   shipto       delivery addresses [city, zone: BOOLEAN]                 *)
(*   terms        payment terms notes [lines, terminated]                  *)
(*   attachments  referenced documents [at, files], a missing file name is *)
(*                None                                                     *)
(*   external     external locations [type916, uri, absolute: BOOLEAN]     *)
(*   sublines     sub invoice lines [parent, amount, items]; a parent is   *)
(*                <<"line", i>> or <<"sub", j>>                            *)
(*   prepaid      third party payments [id, instruction: BOOLEAN, paid,    *)
(*                currency]                                                *)
(***************************************************************************)
EXTENDS CoreRules

XR_CIUS_ID == "cius"
XR_EXTENSION_ID == "extension"
XR_CVD_ID == "cvd"
XR_TYPE_CODES == {"326", "380", "384", "389", "381", "875", "876", "877"}
XR_SUPPORTED_VAT_CODES == {"S", "Z", "E", "AE", "K", "G", "L", "M"}

\* Members that stand for the long lists: an ICD code, the DiGA code, and
\* for the endpoints a code of KoSIT's list that EN 16931's lacks.
ISO_6523_ICD_EXT_CODES == {"0088", "0204", "XR01"}
CEF_EAS_EXT_CODES == {"EM", "9930", "XR01"}
XR_EXT_MIME_CODES == {"application/pdf", "application/xml"}
CVD_VEHICLE_CATEGORIES == {"M1", "N1"}
CVA_CODES == {"clean", "zero-emission", "other"}

\* The list string pads its codes with two spaces between CVD and the
\* others, so that an absent or empty listID is found in it.
Untdid7143CvdOk(list) == list.s \in {"", "CVD", "STI"}

(***************************************************************************)
(* The two customisation tests: the raw text, in both syntaxes.            *)
(***************************************************************************)
IsExtension(doc) == RawIs(doc.text["customization_id"], XR_EXTENSION_ID)
IsCvd(doc) == RawIs(doc.text["customization_id"], XR_CVD_ID)

\* The lines that begin with # must all follow the grammar, stand in the
\* only note, and the last one must be terminated.
SkontoTermsHold(terms) ==
  LET skonto == SelectSeq(Flatten(Each(terms, LAMBDA t : t.lines)),
                          LAMBDA ln : ln # "plain")
  IN  \/ skonto = <<>>
      \/ /\ ~InSeq("malformed", skonto)
         /\ Len(terms) = 1 /\ terms[1].terminated

\* The same name in two documents of one group; a name repeated within one
\* document is not seen.
FilenameRepeats(refs) ==
  \E i, j \in DOMAIN refs :
    /\ i < j /\ refs[i].at = refs[j].at
    /\ (Elems(refs[i].files) \cap Elems(refs[j].files)) \ {None} # {}

(***************************************************************************)
(* UBL, root level.                                                        *)
(***************************************************************************)
BrDE1(doc) == Fire(doc.pms = <<>>, <<"BR-DE", 1>>)
BrDE15(doc) == Fire(~Truthy(Stripped(doc.text["buyer_reference"])), <<"BR-DE", 15>>)

\* The raw codes of document allowances and charges and of the lines.
BrDE16(doc) ==
  LET acs == SelectSeq(doc.acs, LAMBDA a : a.indicator \in {"true", "false"})
      cats == Flatten(Each(acs, LAMBDA a : a.cats))
                \o Flatten(Each(doc.lines, LAMBDA l : l.cats))
      used == \E c \in Elems(cats) :
                \E code \in XR_SUPPORTED_VAT_CODES : RawIs(c.code, code)
  IN  Fire(/\ used /\ doc.taxreps = <<>>
           /\ doc.has \cap {"seller_vat_id", "seller_fc_id"} = {}, <<"BR-DE", 16>>)

TypeCodes(doc) ==
  {Stripped(doc.text["invoice_type_code"]), Stripped(doc.text["creditnote_type_code"])}
BrDE17(doc) == Fire(TypeCodes(doc) \cap XR_TYPE_CODES = {}, <<"BR-DE", 17>>)
BrDE18(doc) == Fire(~SkontoTermsHold(doc.xr.terms), <<"BR-DE", 18>>)
BrDE21(doc) ==
  Fire(\A id \in {XR_CIUS_ID, XR_EXTENSION_ID, XR_CVD_ID} :
         ~RawIs(doc.text["customization_id"], id), <<"BR-DE", 21>>)
BrDE22(doc) ==
  Fire(FilenameRepeats(SelectSeq(doc.xr.attachments, LAMBDA r : r.at = "header")),
       <<"BR-DE", 22>>)
BrDE26(doc) ==
  Fire("384" \in TypeCodes(doc) /\ doc.kinds["billing_references"] = <<>>,
       <<"BR-DE", 26>>)

\* A mandate wants the creditor's SEPA identifier (seller or payee), and
\* some mandate the debited account.
MandateRules(doc) ==
  LET mandates == {pm.mandate : pm \in Elems(doc.pms)} \ {"none"}
      sepa == \E x \in Elems(doc.ids) : x.where \in {"seller", "payee"}
                                        /\ RawIs(x.scheme, "SEPA")
  IN  Fire(mandates # {} /\ ~sepa, <<"BR-DE", 30>>) \cup
      Fire(mandates = {"no account"}, <<"BR-DE", 31>>)

BrDETmp32(doc) ==
  Fire(/\ "delivery_date" \notin doc.has /\ doc.periods = <<>>
       /\ \E l \in Elems(doc.lines) : l.periods = <<>>, <<"BR-DE-TMP", 32>>)

(***************************************************************************)
(* Parties and contacts.  CII accepts a department for the contact point.  *)
(***************************************************************************)
PartyAddressRules(doc) ==
  Fire("seller_party" \in doc.has /\ doc.xr.contacts = <<>>, <<"BR-DE", 2>>) \cup
  Fire("seller_address" \in doc.has /\ "seller_city" \notin doc.has, <<"BR-DE", 3>>) \cup
  Fire("seller_address" \in doc.has /\ "seller_zone" \notin doc.has, <<"BR-DE", 4>>)

BuyerAddressRules(doc) ==
  Fire("buyer_address" \in doc.has /\ "buyer_city" \notin doc.has, <<"BR-DE", 8>>) \cup
  Fire("buyer_address" \in doc.has /\ "buyer_zone" \notin doc.has, <<"BR-DE", 9>>)

SomeContact(doc, Fails(_)) == \E c \in Elems(doc.xr.contacts) : Fails(c)

ContactPresenceRules(doc) ==
  Fire(SomeContact(doc, LAMBDA c : ~c.name), <<"BR-DE", 5>>) \cup
  Fire(SomeContact(doc, LAMBDA c : c.tel = "absent"), <<"BR-DE", 6>>) \cup
  Fire(SomeContact(doc, LAMBDA c : c.mail = "absent"), <<"BR-DE", 7>>)

ContactFormatRules(doc) ==
  Fire(SomeContact(doc, LAMBDA c : c.tel # "ok"), <<"BR-DE", 27>>) \cup
  Fire(SomeContact(doc, LAMBDA c : c.mail # "ok"), <<"BR-DE", 28>>)

DeliveryAddressRules(doc) ==
  Fire(\E a \in Elems(doc.xr.shipto) : ~a.city, <<"BR-DE", 10>>) \cup
  Fire(\E a \in Elems(doc.xr.shipto) : ~a.zone, <<"BR-DE", 11>>)

BrDE14(doc) ==
  Fire(\E t \in Elems(doc.tts) : \E st \in Elems(t.subs) : st.cat.rate.k = "absent",
       <<"BR-DE", 14>>)

(***************************************************************************)
(* Payment means, by the group their code belongs to.                      *)
(***************************************************************************)
PmCode(pm) == IF pm.codes = <<>> THEN "" ELSE pm.codes[1].s
Cards == {"48", "54", "55"}
SomeMeans(doc, codes, Fails(_)) ==
  \E pm \in Elems(doc.pms) : PmCode(pm) \in codes /\ Fails(pm)

IbanRules(doc) ==
  Fire(SomeMeans(doc, {"58"}, LAMBDA pm : ~pm.iban), <<"BR-DE", 19>>) \cup
  Fire(SomeMeans(doc, {"59"}, LAMBDA pm : pm.mandate # "ok"), <<"BR-DE", 20>>)

\* What each code requires (a) and forbids (b).
MeansRules(doc) ==
  LET Account(pm) == pm.accounts # <<>>
      Mandate(pm) == pm.mandate # "none"
  IN  Fire(SomeMeans(doc, CreditTransfer, LAMBDA pm : ~Account(pm)), <<"BR-DE-a", 23>>) \cup
      Fire(SomeMeans(doc, CreditTransfer, LAMBDA pm : pm.card \/ Mandate(pm)),
           <<"BR-DE-b", 23>>) \cup
      Fire(SomeMeans(doc, Cards, LAMBDA pm : ~pm.card), <<"BR-DE-a", 24>>) \cup
      Fire(SomeMeans(doc, Cards, LAMBDA pm : Account(pm) \/ Mandate(pm)),
           <<"BR-DE-b", 24>>) \cup
      Fire(SomeMeans(doc, {"59"}, LAMBDA pm : ~Mandate(pm)), <<"BR-DE-a", 25>>) \cup
      Fire(SomeMeans(doc, {"59"}, LAMBDA pm : Account(pm) \/ pm.card), <<"BR-DE-b", 25>>)

BrTmp2(doc) ==
  Fire(\E e \in Elems(doc.xr.external) : ~(e.uri /\ e.absolute), <<"BR-TMP", 2>>)

(***************************************************************************)
(* Clean Vehicles Directive.  The rules on lines read the classes and the  *)
(* properties of an item alike in both syntaxes.                           *)
(***************************************************************************)
CvdClasses(l) == SelectSeq(l.classes, LAMBDA c : RawIs(c.list, "CVD"))
CvaProps(l) == SelectSeq(l.props, LAMBDA p : RawIs(p.name, "cva"))

CvdReferenceRules(doc) ==
  Fire(IsCvd(doc) /\ "contract_reference" \notin doc.has, <<"BR-DE-CVD", 1>>) \cup
  Fire(IsCvd(doc) /\ "tender_reference" \notin doc.has, <<"BR-DE-CVD", 2>>)

BrCvd03(doc) ==
  Fire(/\ IsCvd(doc)
       /\ \A l \in Elems(doc.lines) : CvdClasses(l) = <<>> \/ CvaProps(l) = <<>>,
       <<"BR-DE-CVD", 3>>)

CvdPairRules(doc) ==
  Fire(/\ IsCvd(doc)
       /\ \E l \in Elems(doc.lines) : CvdClasses(l) # <<>> /\ Len(CvaProps(l)) # 1,
       <<"BR-DE-CVD-a", 6>>) \cup
  Fire(/\ IsCvd(doc)
       /\ \E l \in Elems(doc.lines) : CvaProps(l) # <<>> /\ Len(CvdClasses(l)) # 1,
       <<"BR-DE-CVD-b", 6>>)

BrTmpCvd01(doc) ==
  Fire(/\ IsCvd(doc)
       /\ \E l \in Elems(doc.lines) : \E c \in Elems(l.classes) :
            ~Untdid7143CvdOk(c.list), <<"BR-TMP-CVD", 1>>)

\* BR-DE-CVD-04 normalises the list identifier, the others compare it raw.
CvdValueRules(doc) ==
  Fire(/\ IsCvd(doc)
       /\ \E l \in Elems(doc.lines) : \E c \in Elems(l.classes) :
            c.list.s = "CVD" /\ c.value \notin CVD_VEHICLE_CATEGORIES,
       <<"BR-DE-CVD", 4>>) \cup
  Fire(/\ IsCvd(doc)
       /\ \E l \in Elems(doc.lines) : \E p \in Elems(CvaProps(l)) :
            p.value \notin CVA_CODES, <<"BR-DE-CVD", 5>>)

(***************************************************************************)
(* The extension.                                                          *)
(***************************************************************************)
BrDex01(doc) ==
  Fire(/\ IsExtension(doc)
       /\ \E m \in Elems(doc.codes.mime_codes) :
            m.pad \/ ~m.is \/ m.s \notin XR_EXT_MIME_CODES, <<"BR-DEX", 1>>)

\* A line, or a sub line, that has sub lines is their sum.
SubSum(doc, node) ==
  SelectSeq(doc.xr.sublines, LAMBDA s : s.parent = node)

BrDex02(doc) ==
  LET Wrong(own, node) ==
        LET subs == SubSum(doc, node)
        IN  /\ subs # <<>>
            /\ ~ /\ IsNum(own) /\ \A s \in Elems(subs) : IsNum(s.amount)
                 /\ own.v = SumOver(subs, LAMBDA s : s.amount.v)
      line_wrong == /\ doc.root = "Invoice"
                    /\ \E i \in DOMAIN doc.lines :
                         Wrong(doc.lines[i].net, <<"line", i>>)
      sub_wrong == \E j \in DOMAIN doc.xr.sublines :
                     Wrong(doc.xr.sublines[j].amount, <<"sub", j>>)
  IN  Fire(IsExtension(doc) /\ (line_wrong \/ sub_wrong), <<"BR-DEX", 2>>)

\* The number of tax categories of each item of a sub line.
BrDex03(doc) ==
  Fire(/\ IsExtension(doc)
       /\ \E s \in Elems(doc.xr.sublines) : \E n \in Elems(s.items) : n # 1,
       <<"BR-DEX", 3>>)

\* BR-DEX-09 is skipped when an amount it needs does not parse; an empty
\* paid amount beside a filled one does not parse either.
BrDex09(doc) ==
  LET due == doc.totals["payable_amount"]
      incl == doc.totals["tax_inclusive_amount"]
      paids == SelectSeq(Each(doc.xr.prepaid, LAMBDA p : p.paid),
                         LAMBDA a : a.k # "absent")
      filled == \E a \in Elems(paids) : a.k # "empty"
      third_known == ~filled \/ \A a \in Elems(paids) : IsNum(a)
      third == IF filled THEN SumOver(paids, ValueOr0) ELSE 0
      rounding == ValueOr0(doc.totals["payable_rounding_amount"])
      paid == ValueOr0(doc.totals["prepaid_amount"])
  IN  Fire(/\ IsExtension(doc) /\ "lmt" \in doc.has
           /\ IsNum(due) /\ IsNum(incl) /\ third_known
           /\ FnRound(due.v - rounding, 10) # FnRound(incl.v - paid + third, 10),
           <<"BR-DEX", 9>>)

SchemeBad(doc, texts, allowed) ==
  IsExtension(doc) /\ \E t \in Elems(texts) : t.is /\ t.s \notin allowed

SchemesOf(doc, places) ==
  Each(SelectSeq(doc.ids, LAMBDA x : x.where \in places), LAMBDA x : x.scheme)

\* SEPA is a scheme of the seller and the payee only.
DexSchemeRules(doc) ==
  Fire(\/ SchemeBad(doc, SchemesOf(doc, {"seller", "payee"}),
                    ISO_6523_ICD_EXT_CODES \cup {"SEPA"})
       \/ SchemeBad(doc, SchemesOf(doc, {"party"}), ISO_6523_ICD_EXT_CODES),
       <<"BR-DEX", 4>>) \cup
  Fire(SchemeBad(doc, SchemesOf(doc, {"legal"}), ISO_6523_ICD_EXT_CODES),
       <<"BR-DEX", 5>>) \cup
  Fire(SchemeBad(doc, doc.codes.item_std_id_scheme_ids, ISO_6523_ICD_EXT_CODES),
       <<"BR-DEX", 6>>) \cup
  Fire(SchemeBad(doc, SchemesOf(doc, {"endpoint"}), CEF_EAS_EXT_CODES),
       <<"BR-DEX", 7>>) \cup
  Fire(SchemeBad(doc, SchemesOf(doc, {"delivery"}), ISO_6523_ICD_EXT_CODES),
       <<"BR-DEX", 8>>)

PrepaidRules(doc) ==
  LET Bad(Fails(_)) == IsExtension(doc) /\ \E p \in Elems(doc.xr.prepaid) : Fails(p)
  IN  Fire(Bad(LAMBDA p : ~p.id), <<"BR-DEX", 10>>) \cup
      Fire(Bad(LAMBDA p : p.paid.k \in {"absent", "empty"}), <<"BR-DEX", 11>>) \cup
      Fire(Bad(LAMBDA p : ~p.instruction), <<"BR-DEX", 12>>) \cup
      Fire(Bad(LAMBDA p : p.paid.dp > 2), <<"BR-DEX", 13>>) \cup
      Fire(Bad(LAMBDA p : ~(/\ p.paid.k # "absent" /\ p.currency # None
                            /\ RawIs(doc.text["document_currency_code"], p.currency))),
           <<"BR-DEX", 14>>)

\* evaluate: every UBL rule on the document.
EvaluateUbl(doc) ==
  UNION {BrDE1(doc), PartyAddressRules(doc), BuyerAddressRules(doc),
         ContactPresenceRules(doc), ContactFormatRules(doc),
         DeliveryAddressRules(doc), BrDE14(doc), BrDE15(doc), BrDE16(doc),
         BrDE17(doc), BrDE18(doc), BrDE21(doc), BrDE22(doc), BrDE26(doc),
         MandateRules(doc), BrDETmp32(doc), IbanRules(doc), MeansRules(doc),
         BrTmp2(doc), CvdReferenceRules(doc), BrCvd03(doc), CvdPairRules(doc),
         BrTmpCvd01(doc), CvdValueRules(doc), BrDex01(doc), BrDex02(doc),
         BrDex03(doc), BrDex09(doc), DexSchemeRules(doc), PrepaidRules(doc)}

(***************************************************************************)
(* CII.  The direct debit is one group of the settlement: any of mandate,  *)
(* creditor reference and payer account makes it present for every means.  *)
(***************************************************************************)
CiiContactRules(doc) ==
  Fire(SomeContact(doc, LAMBDA c : ~c.name /\ ~c.dept), <<"BR-DE", 5>>) \cup
  (ContactPresenceRules(doc) \ {<<"BR-DE", 5>>}) \cup ContactFormatRules(doc)

CiiPartyRules(doc) ==
  BrDE1(doc) \cup PartyAddressRules(doc)

CiiAddressRules(doc) == BuyerAddressRules(doc) \cup DeliveryAddressRules(doc)

HasPayerIban(pm) == pm.mandate \in {"bad iban", "ok"}
CiiBg19Present(doc, pm) ==
  doc.has \cap {"mandate_id", "creditor_reference"} # {} \/ HasPayerIban(pm)

CiiMeansRules(doc) ==
  LET Account(pm) == pm.accounts # <<>>
      Debit(pm) == CiiBg19Present(doc, pm)
  IN  Fire(SomeMeans(doc, CreditTransfer, LAMBDA pm : ~Account(pm)), <<"BR-DE-a", 23>>) \cup
      Fire(SomeMeans(doc, CreditTransfer, LAMBDA pm : pm.card \/ Debit(pm)),
           <<"BR-DE-b", 23>>) \cup
      Fire(SomeMeans(doc, Cards, LAMBDA pm : ~pm.card), <<"BR-DE-a", 24>>) \cup
      Fire(SomeMeans(doc, Cards, LAMBDA pm : Account(pm) \/ Debit(pm)),
           <<"BR-DE-b", 24>>)

CiiDebitMeansRules(doc) ==
  Fire(SomeMeans(doc, {"59"}, LAMBDA pm : ~CiiBg19Present(doc, pm)), <<"BR-DE-a", 25>>) \cup
  Fire(SomeMeans(doc, {"59"}, LAMBDA pm : pm.accounts # <<>> \/ pm.institution \/ pm.card),
       <<"BR-DE-b", 25>>)

CiiIbanRules(doc) == IbanRules(doc)

\* BR-DE-30 and -31: of mandate, creditor reference and payer account, the
\* one the rule is about must come with one of the other two.
CiiMandateRules(doc) ==
  LET bt89 == "mandate_id" \in doc.has
      bt90 == "creditor_reference" \in doc.has
      bt91 == \E pm \in Elems(doc.pms) : HasPayerIban(pm)
      none == ~(bt89 \/ bt90 \/ bt91)
  IN  Fire(~(((bt89 \/ bt91) /\ bt90) \/ none), <<"BR-DE", 30>>) \cup
      Fire(~(((bt89 \/ bt90) /\ bt91) \/ none), <<"BR-DE", 31>>)

\* Every group of documents, the lines' too.
CiiBrDE22(doc) == Fire(FilenameRepeats(doc.xr.attachments), <<"BR-DE", 22>>)

\* Some line has a VAT scheme and some line, perhaps another one, a code.
CiiBrDE16(doc) ==
  LET cats == Elems(Flatten(Each(doc.lines, LAMBDA l : l.cats)))
  IN  Fire(/\ \E c \in cats : SchemeId(c.scheme) = "VAT"
           /\ \E c \in cats : Stripped(c.code) \in XR_SUPPORTED_VAT_CODES
           /\ doc.has \cap {"seller_vat_id", "seller_fc_id"} = {}
           /\ doc.taxreps = <<>>, <<"BR-DE", 16>>)

CiiHeaderRules(doc) ==
  LET type == Stripped(doc.text["invoice_type_code"])
      id == Stripped(doc.text["customization_id"])
  IN  BrDE14(doc) \cup BrDE15(doc) \cup BrDE18(doc) \cup BrDETmp32(doc) \cup
      Fire(type \notin XR_TYPE_CODES, <<"BR-DE", 17>>) \cup
      Fire(id \notin {XR_CIUS_ID, XR_EXTENSION_ID, XR_CVD_ID}, <<"BR-DE", 21>>) \cup
      Fire(type = "384" /\ doc.kinds["billing_references"] = <<>>, <<"BR-DE", 26>>)

\* Only the documents of type 916 that have a location.
CiiBrTmp2(doc) ==
  Fire(\E e \in Elems(doc.xr.external) : e.type916 /\ e.uri /\ ~e.absolute,
       <<"BR-TMP", 2>>)

\* Gross and net price of a line share a base quantity, and a unit when
\* both give one.
CiiBrTmp3(doc) ==
  LET UnitsOf(qs) == {q.unit.s : q \in {x \in Elems(qs) : x.unit.is}}
      Bad(l) ==
        /\ l.gross_q # <<>> /\ l.net_q # <<>>
        /\ \/ \A g \in Elems(l.gross_q), n \in Elems(l.net_q) : g.qty # n.qty
           \/ /\ UnitsOf(l.gross_q) # {} /\ UnitsOf(l.net_q) # {}
              /\ UnitsOf(l.gross_q) \cap UnitsOf(l.net_q) = {}
  IN  Fire(\E l \in Elems(doc.lines) : Bad(l), <<"BR-TMP", 3>>)

CiiCvdRules(doc) ==
  (IF "agreement" \in doc.has THEN CvdReferenceRules(doc) ELSE {}) \cup
  (IF "transaction" \in doc.has THEN BrCvd03(doc) ELSE {})

CiiCvdItemRules(doc) == CvdPairRules(doc) \cup BrTmpCvd01(doc) \cup CvdValueRules(doc)

\* Sub lines are not supported in CII: their use is reported.
CiiBrDex15(doc) ==
  Fire(/\ IsExtension(doc) /\ "parent_line_id" \in doc.has
       /\ \E l \in Elems(doc.lines) : "id" \in l.has, <<"BR-DEX", 15>>)

\* No exception for SEPA; BR-DEX-05 reads every identifier but the tax
\* registrations.
CiiSchemeRules(doc) ==
  Fire(SchemeBad(doc, SchemesOf(doc, PartyPlaces), ISO_6523_ICD_EXT_CODES),
       <<"BR-DEX", 4>>) \cup
  (DexSchemeRules(doc) \ {<<"BR-DEX", 4>>})

CiiBrDex01(doc) == BrDex01(doc)

EvaluateCii(doc) ==
  UNION {CiiPartyRules(doc), CiiContactRules(doc), CiiAddressRules(doc),
         CiiIbanRules(doc),
         CiiMeansRules(doc), CiiDebitMeansRules(doc), CiiMandateRules(doc),
         CiiBrDE22(doc), CiiBrDE16(doc), CiiHeaderRules(doc), CiiBrTmp2(doc),
         CiiBrTmp3(doc), CiiCvdRules(doc), CiiCvdItemRules(doc),
         CiiBrDex15(doc), CiiSchemeRules(doc), CiiBrDex01(doc)}

\* The severities this layer attaches to its rules.
XrWarnings == {<<"BR-DE", n>> : n \in {17, 19, 20, 21, 26, 27, 28}}
                \cup {<<"BR-TMP", 2>>, <<"BR-DEX", 2>>, <<"BR-DEX", 15>>}
XrInformation == {<<"BR-DE-TMP", 32>>}
=============================================================================
