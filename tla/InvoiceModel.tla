---------------------------- MODULE InvoiceModel ----------------------------
(***************************************************************************)
(* The e-invoice document and the model the two parsers build from it      *)
(* (einvoice/parser.py for UBL, einvoice/parser_cii.py for CII).           *)
(*                                                                         *)
(* A document is a record with the same fields in both syntaxes; its root  *)
(* says which parser reads it.  Texts keep what the parsers tell apart:    *)
(* absence, the normalised value and whether the raw value is padded with  *)
(* white space.  Amounts are in mills (1/1000 of the currency unit) with   *)
(* the number of decimals of their raw text, percentages in tenths of a    *)
(* percent.                                                                *)
(***************************************************************************)
EXTENDS Integers, Sequences, SequencesExt, TLC

(***************************************************************************)
(* Texts and amounts.                                                      *)
(***************************************************************************)
None == "<none>"
Txt(s) == [is |-> TRUE, s |-> s, pad |-> FALSE]
Padded(s) == [is |-> TRUE, s |-> s, pad |-> TRUE]
NoText == [is |-> FALSE, s |-> "", pad |-> FALSE]

NoAmount == [k |-> "absent", v |-> 0, dp |-> 0]
BadAmount == [k |-> "bad", v |-> 0, dp |-> 0]
Amt(v) == [k |-> "num", v |-> v,
           dp |-> IF v % 1000 = 0 THEN 0 ELSE IF v % 10 = 0 THEN 2 ELSE 3]

\* _text: the stripped text of an element, None when it is absent.
Stripped(t) == IF t.is THEN t.s ELSE None

\* The raw text equals the code: padding makes it a different string.
RawIs(t, code) == t.is /\ ~t.pad /\ t.s = code

\* A Python text is falsy when the element is absent or empty.
Truthy(text) == text \notin {None, ""}

\* TaxScheme/ID (UBL) or TypeCode (CII), upper-cased; None when empty.
SchemeId(scheme) ==
  CASE scheme \in {"VAT", "vat"} -> "VAT"
    [] scheme = "" -> None
    [] OTHER -> scheme

SumOver(seq, Value(_)) == FoldSeq(LAMBDA x, acc : acc + Value(x), 0, seq)
Flatten(seqs) == FoldSeq(LAMBDA s, acc : s \o acc, <<>>, seqs)
InSeq(x, seq) == \E i \in DOMAIN seq : seq[i] = x
CountIn(seq, Test(_)) == Len(SelectSeq(seq, Test))
Each(seq, F(_)) == [i \in DOMAIN seq |-> F(seq[i])]

(***************************************************************************)
(* Elements both parsers build.                                            *)
(***************************************************************************)
\* ItemTaxCategory of a line's ClassifiedTaxCategory or an allowance's
\* TaxCategory: normalised code, upper-cased scheme, rate, raw code.
ItemTaxCategory(c) ==
  [id |-> Stripped(c.code), raw |-> c.code,
   scheme_id |-> SchemeId(c.scheme), percent |-> c.rate]

\* ChargeIndicator: only the four boolean literals decide; any other text
\* makes the group neither an allowance nor a charge.
IsCharge(indicator) ==
  CASE indicator \in {"true", "1"} -> "charge"
    [] indicator \in {"false", "0"} -> "allowance"
    [] OTHER -> "neither"

BuildAllowanceCharge(a) ==
  LET cats == Each(a.cats, ItemTaxCategory)
  IN  [is_charge |-> IsCharge(a.indicator), amount |-> a.amount,
       base |-> a.base, has_amount |-> a.amount.k # "absent",
       has_vat_category_id |-> \E i \in DOMAIN cats :
                                 cats[i].scheme_id = "VAT" /\ cats[i].id # None,
       has_reason |-> a.reason \/ a.codes # <<>>, tax_categories |-> cats]

\* One TaxSubtotal of the breakdown with its single TaxCategory.
ParseSubtotal(st) ==
  [tax |-> st.tax, taxable |-> st.taxable,
   category_id |-> Stripped(st.cat.code), raw |-> st.cat.code,
   category_scheme_id |-> SchemeId(st.cat.scheme), percent |-> st.cat.rate,
   exemption |-> st.exemption]

\* UBL keeps every Price base amount of a line.
BuildLine(ln) ==
  [has |-> ln.has, unit |-> ln.unit, net |-> ln.net, price |-> ln.price,
   gross |-> ln.gross,
   periods |-> ln.periods, cats |-> Each(ln.cats, ItemTaxCategory),
   acs |-> Each(ln.acs, BuildAllowanceCharge)]

(***************************************************************************)
(* The CII counterparts.                                                   *)
(***************************************************************************)
\* A period bound that is not a format 102 date is present but unparseable.
PeriodBound(bound, fmt102) ==
  IF bound.k = "absent" \/ fmt102 THEN bound ELSE BadAmount

PeriodCii(p) ==
  [p EXCEPT !.start = PeriodBound(p.start, p.fmt102),
            !.end = PeriodBound(p.end, p.fmt102)]

BuildTradeTaxCategory(c) == ItemTaxCategory(c)
BuildTradeTaxSubtotal(st) == ParseSubtotal(st)

\* Mutant: the CII indicator literals 1 and 0 are forgotten.
BuildAcTrueFalseOnly(a) ==
  [BuildAllowanceCharge(a) EXCEPT
     !.is_charge = IF a.indicator \in {"true", "false"} THEN @ ELSE "neither"]

BuildDocAllowanceCharge(a) ==
  [BuildAllowanceCharge(a) EXCEPT
     !.tax_categories = Each(a.cats, BuildTradeTaxCategory)]

\* CII has one gross price per line.
BuildLineCii(ln) ==
  [has |-> ln.has, unit |-> ln.unit, net |-> ln.net, price |-> ln.price,
   gross |-> IF ln.gross = <<>> THEN <<>> ELSE <<ln.gross[1]>>,
   periods |-> Each(ln.periods, PeriodCii),
   cats |-> Each(ln.cats, BuildTradeTaxCategory),
   acs |-> Each(ln.acs, BuildDocAllowanceCharge)]

(***************************************************************************)
(* Repeated elements a rule only asks one question of.  A document keeps,  *)
(* for each of them, the sequence of what was found: "absent", "empty" or  *)
(* "ok".  UBL mostly asks whether the element exists, CII whether its text *)
(* is non-empty, and of the first one only.                                *)
(***************************************************************************)
ExistsFields == {"seller_endpoints", "buyer_endpoints", "billing_references",
                 "delivery_addresses", "item_attributes",
                 "item_std_ids_scheme_ok", "item_class_ids_scheme_ok"}
FirstFields == {"seller_endpoints", "buyer_endpoints"}
KindFields == ExistsFields \cup {"supporting_doc_refs"}

FoundUbl(kinds) ==
  [f \in KindFields |->
     IF f \in ExistsFields
     THEN {kinds[f][i] # "absent" : i \in DOMAIN kinds[f]}
     ELSE {kinds[f][i] = "ok" : i \in DOMAIN kinds[f]}]

FoundCii(kinds) ==
  LET Present(f) == SelectSeq(kinds[f], LAMBDA k : k # "absent")
  IN  [f \in KindFields |->
         CASE kinds[f] = <<>> -> {}
           [] f \in FirstFields -> {kinds[f][1] = "ok"}
           [] f = "delivery_addresses" ->
                {Present(f) # <<>> /\ Present(f)[1] = "ok"}
           [] f = "item_attributes" ->
                {kinds[f][i] # "absent" : i \in DOMAIN kinds[f]}
           [] OTHER -> {kinds[f][i] = "ok" : i \in DOMAIN kinds[f]}]

(***************************************************************************)
(* Party flags.  UBL asks for any PartyTaxScheme/CompanyID (the seller) or *)
(* a VAT-scheme one, and looks at every tax representative; CII asks for   *)
(* a registration with scheme VA or FC and reads the first representative. *)
(***************************************************************************)
PartyFlagsUbl(doc) ==
  doc.has \cup
  {f \in {"seller_tax_id", "taxrep_vat_id", "seller_identified"} :
     \/ f = "seller_tax_id" /\ doc.has \cap {"seller_vat_id", "seller_fc_id"} # {}
     \/ f = "taxrep_vat_id" /\ \E i \in DOMAIN doc.taxreps :
                                 doc.taxreps[i].vat # "absent"
     \/ f = "seller_identified" /\
          doc.has \cap {"seller_vat_id", "seller_id", "seller_legal_id"} # {}}

PartyFlagsCii(doc) ==
  doc.has \cup
  {f \in {"seller_tax_id", "taxrep_vat_id", "seller_identified"} :
     \/ f = "seller_tax_id" /\ doc.has \cap {"seller_vat_id", "seller_fc_id"} # {}
     \/ f = "taxrep_vat_id" /\ doc.taxreps # <<>>
                            /\ doc.taxreps[1].vat # "absent"
     \/ f = "seller_identified" /\
          doc.has \cap {"seller_vat_id", "seller_id", "seller_legal_id"} # {}}

\* BR-56's list: UBL asks that the VAT CompanyID exists, CII that its text
\* is non-empty.
TaxRepIdsUbl(doc) ==
  {doc.taxreps[i].vat # "absent" : i \in DOMAIN doc.taxreps}
TaxRepIdsCii(doc) ==
  {doc.taxreps[i].vat = "ok" : i \in DOMAIN doc.taxreps}

(***************************************************************************)
(* Raw category codes of the whole document, in the lists BR-B and the CII *)
(* breakdown rules read.                                                   *)
(***************************************************************************)
Codes(cats) == SelectSeq(Each(cats, LAMBDA c : c.raw), LAMBDA t : t.is)
AcCodes(acs) == Flatten(Each(acs, LAMBDA a : Codes(a.tax_categories)))
AllAllowanceCharges(inv) == inv.acs \o Flatten(Each(inv.lines, LAMBDA l : l.acs))
SubCodes(subs) == SelectSeq(Each(subs, LAMBDA s : s.raw), LAMBDA t : t.is)
LineCodes(lines) == Flatten(Each(lines, LAMBDA l : Codes(l.cats)))

RawCodesUbl(lines, acs, allacs, subs) ==
  [tax_category_ids_raw |-> SubCodes(subs) \o AcCodes(allacs),
   classified_category_ids_raw |-> LineCodes(lines),
   doc_breakdown_category_ids_raw |-> SubCodes(subs),
   doc_ac_category_ids_raw |-> AcCodes(acs),
   header_rows |-> <<>>, line_rows |-> <<>>]

RawCodesCii(lines, acs, allacs, subs) ==
  [tax_category_ids_raw |-> AcCodes(allacs),
   classified_category_ids_raw |-> SubCodes(subs) \o LineCodes(lines),
   doc_breakdown_category_ids_raw |-> <<>>,
   doc_ac_category_ids_raw |-> <<>>,
   header_rows |-> Each(subs, LAMBDA s : s.raw),
   line_rows |-> LineCodes(lines)]

(***************************************************************************)
(* Code lists: the values each BR-CL rule tests.  A missing attribute is a *)
(* Text that is not there: it counts as an empty code (OrEmpty) or does    *)
(* not count (Given).                                                      *)
(***************************************************************************)
OrEmpty(texts) == Each(texts, LAMBDA t : t.s)
Given(texts) == OrEmpty(SelectSeq(texts, LAMBDA t : t.is))

\* upper-case(.) of the exemption reason codes.
Upper(code) == IF code = "vatex-eu-o" THEN "VATEX-EU-O" ELSE code

\* UBL tests the currency of every amount and the schemes of the document
\* references of type 130.
AmountAndPlaceCodesUbl(doc) ==
  [amount_currency_ids |-> OrEmpty(doc.codes.amount_currency_ids),
   item_class_list_ids |-> Given(doc.codes.item_class_list_ids),
   country_codes |-> OrEmpty(doc.codes.country_codes),
   origin_country_codes |-> OrEmpty(doc.codes.origin_country_codes),
   all_country_codes_raw |-> doc.codes.country_codes
                               \o doc.codes.origin_country_codes,
   vat_point_date_codes |-> OrEmpty(doc.codes.vat_point_date_codes),
   object_ref_scheme_codes |->
     Given(Each(SelectSeq(doc.objrefs, LAMBDA r : r.type130), LAMBDA r : r.scheme)),
   note_subject_texts |-> doc.notes, subject_codes |-> <<>>]

\* CII tests the currency of the VAT totals only, every ReferenceTypeCode,
\* and has a subject code element.
AmountAndPlaceCodesCii(doc) ==
  [amount_currency_ids |-> Given(Each(doc.tts, LAMBDA t :
                             IF t.amount.k = "absent" \/ t.currency = None
                             THEN NoText ELSE Txt(t.currency))),
   item_class_list_ids |-> Given(doc.codes.item_class_list_ids),
   country_codes |-> OrEmpty(doc.codes.country_codes),
   origin_country_codes |-> OrEmpty(doc.codes.origin_country_codes),
   all_country_codes_raw |-> doc.codes.country_codes,
   vat_point_date_codes |-> OrEmpty(doc.codes.vat_point_date_codes),
   object_ref_scheme_codes |-> OrEmpty(Each(doc.objrefs, LAMBDA r : r.scheme)),
   note_subject_texts |-> <<>>,
   subject_codes |-> Each(SelectSeq(doc.notes, LAMBDA n : n.subject.is),
                          LAMBDA n : n.subject.s)]

ReasonCodes(acs, kind) ==
  Flatten(Each(SelectSeq(acs, LAMBDA a : IsCharge(a.indicator) = kind),
               LAMBDA a : OrEmpty(a.codes)))
DocAndLineAcs(doc) == doc.acs \o Flatten(Each(doc.lines, LAMBDA l : l.acs))

\* The units of the quantities, and of the price base quantities: UBL has
\* one price per line, CII a gross and a net one.
Units(doc, BaseQuantities(_)) ==
  Given(Each(doc.lines, LAMBDA l : l.unit)) \o
  Flatten(Each(doc.lines, LAMBDA l : Given(Each(BaseQuantities(l), LAMBDA q : q.unit))))

\* Mime codes stay raw.
TradeCodes(doc) ==
  [tax_exemption_reason_codes |->
     Each(OrEmpty(doc.codes.tax_exemption_reason_codes), Upper),
   unit_codes |-> Units(doc, LAMBDA l : l.net_q),
   payment_means_codes |-> Flatten(Each(doc.pms, LAMBDA pm : OrEmpty(pm.codes))),
   charge_reason_codes |-> ReasonCodes(DocAndLineAcs(doc), "charge"),
   allowance_reason_codes |-> ReasonCodes(DocAndLineAcs(doc), "allowance"),
   item_std_id_scheme_ids |-> Given(doc.codes.item_std_id_scheme_ids),
   mime_codes |-> Each(SelectSeq(doc.codes.mime_codes, LAMBDA t : t.is),
                       LAMBDA t : IF t.pad THEN " " ELSE t.s)]
TradeCodesCii(doc) ==
  [TradeCodes(doc) EXCEPT !.unit_codes = Units(doc, LAMBDA l : l.gross_q \o l.net_q)]

\* schemeID attributes by the element that carries them.  UBL records
\* whether an identifier is the seller's or the payee's (SEPA); CII never.
SchemesAt(doc, places) ==
  Given(Each(SelectSeq(doc.ids, LAMBDA x : x.where \in places), LAMBDA x : x.scheme))
PartyPlaces == {"seller", "payee", "party"}

SchemeCodesUbl(doc) ==
  [endpoint_scheme_ids |-> SchemesAt(doc, {"endpoint"}),
   party_id_scheme_ids |->
     Each(SelectSeq(doc.ids, LAMBDA x : x.where \in PartyPlaces /\ x.scheme.is),
          LAMBDA x : [scheme |-> x.scheme.s,
                      sepa_ok |-> x.where \in {"seller", "payee"}]),
   delivery_location_scheme_ids |-> SchemesAt(doc, {"delivery"}),
   party_legal_scheme_ids |-> SchemesAt(doc, {"legal"})]

SchemeCodesCii(doc) ==
  [endpoint_scheme_ids |-> SchemesAt(doc, {"endpoint"}),
   party_id_scheme_ids |->
     Each(SchemesAt(doc, PartyPlaces),
          LAMBDA s : [scheme |-> s, sepa_ok |-> FALSE]),
   delivery_location_scheme_ids |-> SchemesAt(doc, {"delivery"}),
   party_legal_scheme_ids |-> SchemesAt(doc, {"legal"})]

\* The first two characters of every VAT identifier; UBL takes an absent
\* CompanyID for an empty one.
VatIdPrefixesUbl(doc) == OrEmpty(doc.codes.vat_id_prefixes)
VatIdPrefixesCii(doc) == Given(doc.codes.vat_id_prefixes)

(***************************************************************************)
(* build_model of each parser.                                             *)
(***************************************************************************)
Totals == {"line_extension_total", "allowance_total", "charge_total",
           "tax_exclusive_amount", "tax_inclusive_amount", "prepaid_amount",
           "payable_rounding_amount", "payable_amount"}

\* Without a LegalMonetaryTotal (CII: HeaderMonetarySummation) every total
\* stays None.
MonetaryTotals(doc) ==
  [t \in Totals |-> IF "lmt" \in doc.has THEN doc.totals[t] ELSE NoAmount]

\* InvoiceTypeCode wins over CreditNoteTypeCode; the flag records which
\* element the code came from.
TypeCodeUbl(doc) ==
  IF doc.text["invoice_type_code"].is
  THEN [code |-> doc.text["invoice_type_code"], from_creditnote |-> FALSE]
  ELSE [code |-> doc.text["creditnote_type_code"],
        from_creditnote |-> doc.text["creditnote_type_code"].is]

BuildModelUbl(doc) ==
  LET lines == Each(doc.lines, BuildLine)
      acs == Each(doc.acs, BuildAllowanceCharge)
      tts == Each(doc.tts, LAMBDA t :
               [amount |-> t.amount,
                currency |-> IF t.amount.k = "absent" THEN None ELSE t.currency,
                subtotals |-> Each(t.subs, ParseSubtotal)])
      subs == Flatten(Each(tts, LAMBDA t : t.subtotals))
      type == TypeCodeUbl(doc)
  IN  [syntax |-> "ubl",
       text |-> [f \in DOMAIN doc.text |->
                   IF f = "invoice_type_code" THEN Stripped(type.code)
                   ELSE Stripped(doc.text[f])],
       raw_text |-> doc.text, from_creditnote |-> type.from_creditnote,
       has |-> PartyFlagsUbl(doc), found |-> FoundUbl(doc.kinds),
       taxreps |-> doc.taxreps, taxrep_ids_ok |-> TaxRepIdsUbl(doc),
       payees |-> doc.payees, pms |-> doc.pms, pans |-> doc.pans,
       codes |-> AmountAndPlaceCodesUbl(doc) @@ TradeCodes(doc)
                   @@ SchemeCodesUbl(doc)
                   @@ [vat_id_prefixes |-> VatIdPrefixesUbl(doc)],
       periods |-> doc.periods, stated_tax_totals |-> doc.tts,
       totals |-> MonetaryTotals(doc), tax_totals |-> tts,
       all_tax_subtotals |-> subs, doc_currency_totals |-> <<>>,
       lines |-> lines, acs |-> acs,
       raw |-> RawCodesUbl(lines, acs,
                 acs \o Flatten(Each(lines, LAMBDA l : l.acs)), subs)]

\* CII has one header breakdown; the first TaxTotalAmount is BT-110, and
\* the ones whose currencyID is the document currency are kept apart.  A
\* document with neither breakdown nor total has no TaxTotal at all.
BuildModelCii(doc) ==
  LET lines == Each(doc.lines, BuildLineCii)
      acs == Each(doc.acs, BuildDocAllowanceCharge)
      subs == Flatten(Each(doc.tts, LAMBDA t : Each(t.subs, BuildTradeTaxSubtotal)))
      stated == IF "lmt" \in doc.has
                THEN SelectSeq(doc.tts, LAMBDA t : t.amount.k # "absent")
                ELSE <<>>
      bt5 == Stripped(doc.text["document_currency_code"])
      first == IF stated = <<>> THEN [amount |-> NoAmount, currency |-> None]
               ELSE stated[1]
  IN  [syntax |-> "cii",
       text |-> [f \in DOMAIN doc.text |-> Stripped(doc.text[f])],
       raw_text |-> doc.text, from_creditnote |-> FALSE,
       has |-> PartyFlagsCii(doc), found |-> FoundCii(doc.kinds),
       taxreps |-> doc.taxreps, taxrep_ids_ok |-> TaxRepIdsCii(doc),
       payees |-> doc.payees, pms |-> doc.pms, pans |-> doc.pans,
       codes |-> AmountAndPlaceCodesCii(doc) @@ TradeCodesCii(doc)
                   @@ SchemeCodesCii(doc)
                   @@ [vat_id_prefixes |-> VatIdPrefixesCii(doc)],
       periods |-> Each(doc.periods, PeriodCii), stated_tax_totals |-> stated,
       totals |-> MonetaryTotals(doc),
       tax_totals |-> IF subs = <<>> /\ stated = <<>> THEN <<>>
                      ELSE <<[amount |-> first.amount, currency |-> first.currency,
                              subtotals |-> subs]>>,
       all_tax_subtotals |-> subs,
       doc_currency_totals |->
         Each(SelectSeq(stated, LAMBDA t : bt5 # None /\ t.currency = bt5),
              LAMBDA t : t.amount),
       lines |-> lines, acs |-> acs,
       raw |-> RawCodesCii(lines, acs,
                 acs \o Flatten(Each(lines, LAMBDA l : l.acs)), subs)]

(***************************************************************************)
(* Accessors of the model the rules share.                                 *)
(***************************************************************************)
Elems(seq) == {seq[i] : i \in DOMAIN seq}
CatIds(cats) == {c.id : c \in Elems(cats)} \ {None}

\* Codes of lines and document-level allowances/charges, whatever their
\* scheme; of an allowance/charge only the first code counts.
AllCategoryIds(inv) ==
  (UNION {CatIds(l.cats) : l \in Elems(inv.lines)} \cup
   {LET ids == SelectSeq(a.tax_categories, LAMBDA c : c.id # None)
    IN  IF ids = <<>> THEN None ELSE ids[1].id : a \in Elems(inv.acs)}) \ {None}

Breakdown(inv) == Flatten(Each(inv.tax_totals, LAMBDA t : t.subtotals))
VatBreakdown(inv) ==
  SelectSeq(Breakdown(inv), LAMBDA st :
    st.category_scheme_id = "VAT" /\ Truthy(st.category_id))

\* breakdown_category_ids, as a count per code.
BreakdownCount(inv, code) ==
  CountIn(Breakdown(inv), LAMBDA st : st.category_id = code)

\* breakdown_vat_category_codes, as a count per code.
BreakdownVatCount(inv, code) ==
  CountIn(VatBreakdown(inv), LAMBDA st : st.category_id = code)

VatCats(cats) == {c \in Elems(cats) : c.scheme_id = "VAT"}

HasClassifiedCategory(inv, code) ==
  \E l \in Elems(inv.lines) : \E c \in VatCats(l.cats) : c.id = code

\* The seller disjunct of the BR-S/Z/E/AE/AF/AG families.
SellerHasVatIdentifier(inv) ==
  inv.has \cap {"seller_tax_id", "taxrep_vat_id"} # {}

\* vat_category_codes: VAT-scheme codes of lines, allowances/charges and
\* breakdown together.
VatCategoryCodes(inv) ==
  ({c.id : c \in UNION {VatCats(l.cats) : l \in Elems(inv.lines)} \cup
                 UNION {VatCats(a.tax_categories) :
                          a \in Elems(AllAllowanceCharges(inv))}} \ {None, ""})
  \cup {st.category_id : st \in Elems(VatBreakdown(inv))}

=============================================================================
