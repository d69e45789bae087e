------------------------------ MODULE CoreRules -----------------------------
(***************************************************************************)
(* The EN 16931 rules of einvoice/rules.py outside the VAT categories:     *)
(* presence and cardinality, code lists (einvoice/codelists.py), the       *)
(* BR-CO totals, decimals; and ALL_RULES.                                  *)
(***************************************************************************)
EXTENDS VatRules

\* The rules of a table whose field fails the test.
FireAll(table, Fails(_)) == {row[1] : row \in {r \in table : Fails(r[2])}}

(***************************************************************************)
(* Header, parties, totals, lines.                                         *)
(***************************************************************************)
HeaderTexts ==
  {<< <<"BR", 1>>, "customization_id">>, << <<"BR", 2>>, "id">>,
   << <<"BR", 3>>, "issue_date">>, << <<"BR", 4>>, "invoice_type_code">>,
   << <<"BR", 5>>, "document_currency_code">>, << <<"BR", 6>>, "seller_name">>,
   << <<"BR", 7>>, "buyer_name">>}

HeaderRules(inv) == FireAll(HeaderTexts, LAMBDA f : ~Truthy(inv.text[f]))

\* The country code is asked of a present address in UBL, of the document
\* in CII: a missing address fires both rules there.
AddressRules(inv) ==
  LET Country(address, country) ==
        /\ inv.syntax = "cii" \/ address \in inv.has
        /\ ~Truthy(inv.text[country])
  IN  FireAll({<< <<"BR", 8>>, "seller_address">>,
               << <<"BR", 10>>, "buyer_address">>}, LAMBDA f : f \notin inv.has) \cup
      Fire(Country("seller_address", "seller_country"), <<"BR", 9>>) \cup
      Fire(Country("buyer_address", "buyer_country"), <<"BR", 11>>)

TotalsPresenceRules(inv) ==
  FireAll({<< <<"BR", 12>>, "line_extension_total">>,
           << <<"BR", 13>>, "tax_exclusive_amount">>,
           << <<"BR", 14>>, "tax_inclusive_amount">>,
           << <<"BR", 15>>, "payable_amount">>},
          LAMBDA t : "lmt" \in inv.has /\ inv.totals[t].k = "absent")

LineRules(inv) ==
  Fire(inv.lines = <<>>, <<"BR", 16>>) \cup
  FireAll({<< <<"BR", 21>>, "id">>, << <<"BR", 22>>, "quantity">>,
           << <<"BR", 25>>, "item_name">>},
          LAMBDA f : \E l \in Elems(inv.lines) : f \notin l.has) \cup
  Fire(\E l \in Elems(inv.lines) : l.net.k = "absent", <<"BR", 24>>) \cup
  Fire(\E l \in Elems(inv.lines) : l.price.k = "absent", <<"BR", 26>>)

\* BR-27 also fires on a missing price; BR-28 holds when any gross price of
\* the line is not negative.
PriceRules(inv) ==
  Fire(\E l \in Elems(inv.lines) : ~IsNum(l.price) \/ l.price.v < 0,
       <<"BR", 27>>) \cup
  Fire(\E l \in Elems(inv.lines) :
         l.gross # <<>> /\ \A g \in Elems(l.gross) : ~IsNum(g) \/ g.v < 0,
       <<"BR", 28>>)

PeriodEndBeforeStart(p) ==
  /\ p.start.k # "absent" /\ p.end.k # "absent"
  /\ ~IsNum(p.start) \/ ~IsNum(p.end) \/ p.end.v < p.start.v

PeriodRules(inv) ==
  Fire(\E p \in Elems(inv.periods) : PeriodEndBeforeStart(p), <<"BR", 29>>) \cup
  Fire(\E l \in Elems(inv.lines) : \E p \in Elems(l.periods) :
         PeriodEndBeforeStart(p), <<"BR", 30>>)

(***************************************************************************)
(* Code lists, each by representative members: listed in both syntaxes, in *)
(* one of them, or in none.                                                *)
(***************************************************************************)
CURRENCY_CODES == {"EUR", "USD"}
UBL_COUNTRY_CODES == {"DE", "IT", "SS"}
CII_COUNTRY_CODES == {"DE", "IT", "AN"}
UBL_VAT_POINT_CODES == {"3", "35", "432"}
CII_VAT_POINT_CODES == {"5", "29", "72"}
UNTDID_1153_CODES == {"AAA"}
CII_NOTE_SUBJECT_CODES == {"ADU", "BAT"}
VAT_CATEGORY_CODES == {"AE", "L", "M", "E", "S", "Z", "G", "O", "K", "B"}
VATEX_CODES == {"VATEX-EU-O"}
UNIT_CODES == {"C62", "HUR"}
PAYMENT_MEANS_CODES == {"30", "48", "49", "58", "59"}
ALLOWANCE_REASON_CODES == {"95"}
CHARGE_REASON_CODES == {"ABL"}
ITEM_SCHEME_ID_CODES == {"0088", "0204"}
ENDPOINT_EAS_CODES == {"EM", "9930"}
ITEM_CLASS_LIST_CODES == {"STI"}
MIME_CODES == {"application/pdf"}

\* BR-CL-01: the accepted type codes depend on the element the code came
\* from in UBL; CII has one merged list.
UNTDID_1001(inv) ==
  CASE inv.syntax = "cii" -> {"380", "381", "81", "384", "471"}
    [] inv.from_creditnote -> {"381", "81"}
    [] OTHER -> {"380", "81", "384"}

BrCL01(inv) ==
  Fire(/\ Truthy(inv.text["invoice_type_code"])
       /\ inv.text["invoice_type_code"] \notin UNTDID_1001(inv), <<"BR-CL", 1>>)

\* An absent currency is not this rule's business; an empty one is not
\* listed.
CurrencyCodeRules(inv) ==
  LET Bad(f) == inv.text[f] # None /\ inv.text[f] \notin CURRENCY_CODES
  IN  Fire(\E c \in Elems(inv.codes["amount_currency_ids"]) :
             c \notin CURRENCY_CODES, <<"BR-CL", 3>>) \cup
      Fire(Bad("document_currency_code"), <<"BR-CL", 4>>) \cup
      Fire(Bad("tax_currency_code"), <<"BR-CL", 5>>)

\* The rules that test every code of one list against one set.
CodesOutside(inv, n, list, allowed) ==
  Fire(\E c \in Elems(inv.codes[list]) : c \notin allowed, <<"BR-CL", n>>)

Pick(inv, ubl, cii) == IF inv.syntax = "cii" THEN cii ELSE ubl

PlaceCodeRules(inv) ==
  CodesOutside(inv, 6, "vat_point_date_codes",
               Pick(inv, UBL_VAT_POINT_CODES, CII_VAT_POINT_CODES)) \cup
  CodesOutside(inv, 13, "item_class_list_ids", ITEM_CLASS_LIST_CODES) \cup
  CodesOutside(inv, 14, "country_codes",
               Pick(inv, UBL_COUNTRY_CODES, CII_COUNTRY_CODES)) \cup
  CodesOutside(inv, 15, "origin_country_codes",
               Pick(inv, UBL_COUNTRY_CODES, CII_COUNTRY_CODES)) \cup
  CodesOutside(inv, 7, "object_ref_scheme_codes", UNTDID_1153_CODES)

\* BR-CL-08: UBL only looks at a three-character token between the first
\* two hash signs of a note, and searches it in the list as a string, so
\* that the window "DU " of "ADU" passes; CII tests the subject code.
NoteTokens == {"none", "other length", "ADU", "DU ", "???"}
UnlistedTokens == {"???"}

NoteSubjectRule(inv) ==
  IF inv.syntax = "cii"
  THEN CodesOutside(inv, 8, "subject_codes", CII_NOTE_SUBJECT_CODES)
  ELSE Fire(\E note \in Elems(inv.codes.note_subject_texts) :
              note.token \in UnlistedTokens, <<"BR-CL", 8>>)

\* BR-CL-17 and -18 split the category codes differently: a CII breakdown
\* row counts as classified.
CategoryCodeRules(inv) ==
  LET Bad(texts) == \E t \in Elems(texts) : t.s \notin VAT_CATEGORY_CODES
  IN  Fire(Bad(inv.raw.tax_category_ids_raw), <<"BR-CL", 17>>) \cup
      Fire(Bad(inv.raw.classified_category_ids_raw), <<"BR-CL", 18>>) \cup
      CodesOutside(inv, 22, "tax_exemption_reason_codes", VATEX_CODES)

TradeCodeRules(inv) ==
  CodesOutside(inv, 23, "unit_codes", UNIT_CODES) \cup
  CodesOutside(inv, 16, "payment_means_codes", PAYMENT_MEANS_CODES) \cup
  CodesOutside(inv, 19, "allowance_reason_codes", ALLOWANCE_REASON_CODES) \cup
  CodesOutside(inv, 20, "charge_reason_codes", CHARGE_REASON_CODES)

\* SEPA is accepted on the seller's and payee's identifiers, in UBL only.
SchemeCodeRules(inv) ==
  Fire(\E p \in Elems(inv.codes["party_id_scheme_ids"]) :
         /\ p.scheme \notin ITEM_SCHEME_ID_CODES
         /\ ~(inv.syntax = "ubl" /\ p.sepa_ok /\ p.scheme = "SEPA"),
       <<"BR-CL", 10>>) \cup
  CodesOutside(inv, 11, "party_legal_scheme_ids", ITEM_SCHEME_ID_CODES) \cup
  CodesOutside(inv, 25, "endpoint_scheme_ids", ENDPOINT_EAS_CODES) \cup
  CodesOutside(inv, 26, "delivery_location_scheme_ids", ITEM_SCHEME_ID_CODES) \cup
  CodesOutside(inv, 21, "item_std_id_scheme_ids", ITEM_SCHEME_ID_CODES) \cup
  CodesOutside(inv, 24, "mime_codes", MIME_CODES)

(***************************************************************************)
(* Totals.                                                                 *)
(***************************************************************************)
BrCO04(inv) ==
  Fire(\E l \in Elems(inv.lines) : \A c \in VatCats(l.cats) : c.id = None,
       <<"BR-CO", 4>>)

LineSum(inv) == SumOver(inv.lines, LAMBDA l : ValueOr0(l.net))

\* Mutant: the tolerance of the VAT rules.
BrCO10WithinOne(inv) ==
  LET stated == inv.totals["line_extension_total"]
  IN  Fire("lmt" \in inv.has /\ ~WithinOne(stated.v, LineSum(inv)), <<"BR-CO", 10>>)

BrCO10(inv) ==
  LET stated == inv.totals["line_extension_total"]
  IN  Fire(/\ "lmt" \in inv.has
           /\ ~IsNum(stated) \/ Q(stated.v) # Q(LineSum(inv)), <<"BR-CO", 10>>)

DocAcAmountSum(inv, kind) ==
  SumOver(SelectSeq(inv.acs, LAMBDA a : a.is_charge = kind),
          LAMBDA a : ValueOr0(a.amount))

\* BR-CO-11 and -12: neither a stated sum nor anything to sum, or the
\* stated sum is exactly the rounded one.
AcTotalWrong(inv, kind, stated) ==
  /\ "lmt" \in inv.has
  /\ ~(~IsNum(stated) /\ \A a \in Elems(inv.acs) : a.is_charge # kind)
  /\ ~(IsNum(stated) /\ stated.v = Xr2(DocAcAmountSum(inv, kind)))

BrCO11(inv) ==
  Fire(AcTotalWrong(inv, "allowance", inv.totals["allowance_total"]), <<"BR-CO", 11>>)
BrCO12(inv) ==
  Fire(AcTotalWrong(inv, "charge", inv.totals["charge_total"]), <<"BR-CO", 12>>)

BrCO13(inv) ==
  LET excl == inv.totals["tax_exclusive_amount"]
      lines == inv.totals["line_extension_total"]
      expected == lines.v - ValueOr0(inv.totals["allowance_total"])
                          + ValueOr0(inv.totals["charge_total"])
  IN  Fire(/\ "lmt" \in inv.has
           /\ ~IsNum(excl) \/ ~IsNum(lines) \/ Q(excl.v) # Q(expected),
           <<"BR-CO", 13>>)

TaxSum(subs) == SumOver(subs, LAMBDA st : ValueOr0(st.tax))

\* BR-CO-14: per TaxTotal in UBL; in CII every document-currency total
\* against the one header breakdown, and nothing without such a total.
BrCO14(inv) ==
  LET cii_bad == \E t \in Elems(inv.doc_currency_totals) :
                   ~IsNum(t) \/ t.v # Xr2(TaxSum(inv.all_tax_subtotals))
      ubl_bad == \E t \in Elems(inv.tax_totals) :
                   /\ t.subtotals # <<>>
                   /\ ~IsNum(t.amount) \/ Q(t.amount.v) # Q(TaxSum(t.subtotals))
  IN  Fire(IF inv.syntax = "cii" THEN cii_bad ELSE ubl_bad, <<"BR-CO", 14>>)

\* BR-CO-15: exactly one VAT total in the document currency, and the sum;
\* CII also accepts a grand total equal to the basis.
BrCO15(inv) ==
  LET incl == inv.totals["tax_inclusive_amount"]
      excl == inv.totals["tax_exclusive_amount"]
      cur == inv.text["document_currency_code"]
      totals == IF inv.syntax = "cii" THEN inv.doc_currency_totals
                ELSE Each(SelectSeq(inv.tax_totals, LAMBDA t : t.currency = cur),
                          LAMBDA t : t.amount)
      known == IsNum(incl) /\ IsNum(excl)
      sums == /\ Len(totals) = 1 /\ known /\ IsNum(totals[1])
              /\ IF inv.syntax = "cii" THEN incl.v = Xr2(excl.v + totals[1].v)
                 ELSE Q(incl.v) = Q(excl.v + totals[1].v)
      no_vat == inv.syntax = "cii" /\ known /\ incl.v = excl.v
  IN  Fire(Truthy(cur) /\ ~sums /\ ~no_vat, <<"BR-CO", 15>>)

\* Mutant: what was prepaid is not deducted.
BrCO16PrepaidForgotten(inv) ==
  LET due == inv.totals["payable_amount"]
      incl == inv.totals["tax_inclusive_amount"]
      rounding == inv.totals["payable_rounding_amount"]
  IN  Fire("lmt" \in inv.has /\ due.v # incl.v + ValueOr0(rounding), <<"BR-CO", 16>>)

\* BR-CO-16: four cases by which of prepaid and rounding amounts exist.
BrCO16(inv) ==
  LET due == inv.totals["payable_amount"]
      incl == inv.totals["tax_inclusive_amount"]
      paid == inv.totals["prepaid_amount"]
      rounding == inv.totals["payable_rounding_amount"]
      Absent(a) == a.k = "absent"
      holds == /\ IsNum(due) /\ IsNum(incl)
               /\ CASE Absent(paid) /\ Absent(rounding) -> due.v = incl.v
                    [] ~Absent(paid) /\ Absent(rounding) ->
                         IsNum(paid) /\ due.v = Xr2(incl.v - paid.v)
                    [] Absent(paid) /\ ~Absent(rounding) ->
                         IsNum(rounding) /\ Xr2(due.v - rounding.v) = incl.v
                    [] OTHER -> /\ IsNum(paid) /\ IsNum(rounding)
                                /\ Xr2(due.v - rounding.v) = Xr2(incl.v - paid.v)
  IN  Fire("lmt" \in inv.has /\ ~holds, <<"BR-CO", 16>>)

\* BR-CO-17: a rate that rounds to zero wants a tax that rounds to zero,
\* any other rate the tax within one unit; only a VAT row's rate counts.
BrCO17(inv) ==
  LET Holds(st) ==
        LET rate == IF st.category_scheme_id = "VAT" THEN st.percent ELSE NoAmount
            zero_tax == IsNum(st.tax) /\ FnRound(st.tax.v, 1000) = 0
        IN  \/ IsNum(rate) /\ FnRound(rate.v, 10) = 0 /\ zero_tax
            \/ /\ IsNum(rate) /\ FnRound(rate.v, 10) # 0
               /\ IsNum(st.tax) /\ IsNum(st.taxable)
               /\ WithinOne(Abs(st.tax.v), TaxOf(st.taxable.v, rate.v))
            \/ ~IsNum(rate) /\ zero_tax
  IN  Fire(\E st \in Elems(inv.all_tax_subtotals) : ~Holds(st), <<"BR-CO", 17>>)

\* At least one breakdown row, each with amounts, a VAT category and a rate
\* (the O category has none).
BreakdownPresenceRules(inv) ==
  LET Row(Fails(_)) == \E st \in Elems(inv.all_tax_subtotals) : Fails(st)
  IN  Fire(Breakdown(inv) = <<>>, <<"BR-CO", 18>>) \cup
      Fire(Row(LAMBDA st : st.taxable.k = "absent"), <<"BR", 45>>) \cup
      Fire(Row(LAMBDA st : st.tax.k = "absent"), <<"BR", 46>>) \cup
      Fire(Row(LAMBDA st : st.category_scheme_id # "VAT" \/ st.category_id = None),
           <<"BR", 47>>) \cup
      Fire(Row(LAMBDA st : \/ st.category_scheme_id # "VAT"
                           \/ st.percent.k = "absent" /\ st.category_id # "O"),
           <<"BR", 48>>)

(***************************************************************************)
(* Decimals: at most two in every amount.                                  *)
(***************************************************************************)
AcAmounts(acs, kind, Field(_)) == {Field(a) : a \in {x \in Elems(acs) : x.is_charge = kind}}
TooFine(amounts) == \E a \in amounts : a.dp > 2

AcDecimals(acs, allowance, charge, base_allowance, base_charge) ==
  Fire(TooFine(AcAmounts(acs, "allowance", LAMBDA a : a.amount)), <<"BR-DEC", allowance>>) \cup
  Fire(TooFine(AcAmounts(acs, "allowance", LAMBDA a : a.base)), <<"BR-DEC", base_allowance>>) \cup
  Fire(TooFine(AcAmounts(acs, "charge", LAMBDA a : a.amount)), <<"BR-DEC", charge>>) \cup
  Fire(TooFine(AcAmounts(acs, "charge", LAMBDA a : a.base)), <<"BR-DEC", base_charge>>)

DocAcDecimalRules(inv) == AcDecimals(inv.acs, 1, 5, 2, 6)
LineAcDecimalRules(inv) ==
  AcDecimals(Flatten(Each(inv.lines, LAMBDA l : l.acs)), 24, 27, 25, 28)

TotalsDecimalRules(inv) ==
  FireAll({<< <<"BR-DEC", 9>>, "line_extension_total">>,
           << <<"BR-DEC", 10>>, "allowance_total">>,
           << <<"BR-DEC", 11>>, "charge_total">>,
           << <<"BR-DEC", 12>>, "tax_exclusive_amount">>,
           << <<"BR-DEC", 14>>, "tax_inclusive_amount">>,
           << <<"BR-DEC", 16>>, "prepaid_amount">>,
           << <<"BR-DEC", 17>>, "payable_rounding_amount">>,
           << <<"BR-DEC", 18>>, "payable_amount">>},
          LAMBDA t : inv.totals[t].dp > 2)

\* BR-DEC-13 and -15, the VAT totals in the document and in the accounting
\* currency: UBL counts decimals of each matching total; CII holds as soon
\* as one total of the summation is rounded (or, for -13, is of another
\* currency), and -15 wants a matching one to exist.
VatTotalDecimalRules(inv) ==
  LET Cur(f) == IF inv.raw_text[f].is /\ ~inv.raw_text[f].pad
                THEN inv.raw_text[f].s ELSE None
      doc == Cur("document_currency_code")
      tax == Cur("tax_currency_code")
      stated == SelectSeq(inv.stated_tax_totals, LAMBDA t : t.amount.k # "absent")
      Round2(t) == IsNum(t.amount) /\ t.amount.v % 10 = 0
      Matches(t, cur) == cur # None /\ t.currency = cur
      Ubl(cur) == \E t \in Elems(stated) : Matches(t, cur) /\ t.amount.dp > 2
      cii13 == stated # <<>> /\ \A t \in Elems(stated) : Matches(t, doc) /\ ~Round2(t)
      cii15 == /\ inv.raw_text["tax_currency_code"].is /\ stated # <<>>
               /\ \A t \in Elems(stated) : ~(Matches(t, tax) /\ Round2(t))
      cii == inv.syntax = "cii"
  IN  Fire(IF cii THEN cii13 ELSE Ubl(doc), <<"BR-DEC", 13>>) \cup
      Fire(IF cii THEN cii15 ELSE Ubl(tax), <<"BR-DEC", 15>>)

RowDecimalRules(inv) ==
  Fire(TooFine({st.taxable : st \in Elems(inv.all_tax_subtotals)}), <<"BR-DEC", 19>>) \cup
  Fire(TooFine({st.tax : st \in Elems(inv.all_tax_subtotals)}), <<"BR-DEC", 20>>) \cup
  Fire(TooFine({l.net : l \in Elems(inv.lines)}), <<"BR-DEC", 23>>)

(***************************************************************************)
(* Allowances and charges; each reason rule exists twice (BR-33/BR-CO-21,  *)
(* BR-38/22, BR-42/23, BR-44/24).                                          *)
(***************************************************************************)
SomeAc(acs, kind, Fails(_)) == \E a \in Elems(acs) : a.is_charge = kind /\ Fails(a)
NoAmountGiven(a) == ~a.has_amount
NoReason(a) == ~a.has_reason

DocAcRules(inv) ==
  Fire(SomeAc(inv.acs, "allowance", NoAmountGiven), <<"BR", 31>>) \cup
  Fire(SomeAc(inv.acs, "allowance", LAMBDA a : ~a.has_vat_category_id), <<"BR", 32>>) \cup
  Fire(SomeAc(inv.acs, "allowance", NoReason), <<"BR", 33>>) \cup
  Fire(SomeAc(inv.acs, "charge", NoAmountGiven), <<"BR", 36>>) \cup
  Fire(SomeAc(inv.acs, "charge", LAMBDA a : ~a.has_vat_category_id), <<"BR", 37>>) \cup
  Fire(SomeAc(inv.acs, "charge", NoReason), <<"BR", 38>>)

LineAcRules(inv) ==
  LET acs == Flatten(Each(inv.lines, LAMBDA l : l.acs))
  IN  Fire(SomeAc(acs, "allowance", NoAmountGiven), <<"BR", 41>>) \cup
      Fire(SomeAc(acs, "allowance", NoReason), <<"BR", 42>>) \cup
      Fire(SomeAc(acs, "charge", NoAmountGiven), <<"BR", 43>>) \cup
      Fire(SomeAc(acs, "charge", NoReason), <<"BR", 44>>)

ReasonRules(inv) ==
  LET acs == Flatten(Each(inv.lines, LAMBDA l : l.acs))
  IN  Fire(SomeAc(inv.acs, "allowance", NoReason), <<"BR-CO", 21>>) \cup
      Fire(SomeAc(inv.acs, "charge", NoReason), <<"BR-CO", 22>>) \cup
      Fire(SomeAc(acs, "allowance", NoReason), <<"BR-CO", 23>>) \cup
      Fire(SomeAc(acs, "charge", NoReason), <<"BR-CO", 24>>)

(***************************************************************************)
(* Parties, payment, references.                                           *)
(***************************************************************************)
\* BR-17: a payee needs a name and must differ from the seller in name, in
\* identifier and, in CII, in legal registration.
PayeeRule(inv) ==
  Fire(\E p \in Elems(inv.payees) :
         \/ ~p.named \/ p.same_name \/ p.same_id
         \/ inv.syntax = "cii" /\ p.same_legal_id, <<"BR", 17>>)

\* BR-20 looks at each address in UBL, at each representative in CII: one
\* without an address fires there too.
TaxRepRules(inv) ==
  Fire(\E t \in Elems(inv.taxreps) : ~t.named, <<"BR", 18>>) \cup
  Fire(\E t \in Elems(inv.taxreps) : t.address = "absent", <<"BR", 19>>) \cup
  Fire(\E t \in Elems(inv.taxreps) :
         \/ t.address = "no country"
         \/ inv.syntax = "cii" /\ t.address = "absent", <<"BR", 20>>)

CreditTransfer == {"30", "58"}
Transfer(pm) == \E c \in Elems(pm.codes) : ~c.pad /\ c.s \in CreditTransfer

\* BR-50 fires on a credit transfer account without an identifier.
PaymentRules(inv) ==
  LET NoId(pm) == \E a \in Elems(pm.accounts) : a # "ok"
  IN  Fire(\E pm \in Elems(inv.pms) : pm.codes = <<>>, <<"BR", 49>>) \cup
      Fire(\E pm \in Elems(inv.pms) : Transfer(pm) /\ NoId(pm), <<"BR", 50>>) \cup
      Fire(\E n \in Elems(inv.pans) : n > 10, <<"BR", 51>>)

\* BR-61: a credit transfer without any account identifier in UBL, with an
\* account that has none in CII.
BrBR61(inv) ==
  LET First(pm) == IF pm.codes = <<>> THEN "" ELSE pm.codes[1].s
  IN  Fire(\E pm \in Elems(inv.pms) :
             IF inv.syntax = "cii"
             THEN Transfer(pm) /\ InSeq("absent", pm.accounts)
             ELSE /\ First(pm) \in CreditTransfer
                  /\ \A a \in Elems(pm.accounts) : a = "absent", <<"BR", 61>>)

ReferenceRules(inv) ==
  FireAll({<< <<"BR", 55>>, "billing_references">>,
           << <<"BR", 57>>, "delivery_addresses">>},
          LAMBDA f : FALSE \in inv.found[f])

EndpointSchemeRules(inv) ==
  FireAll({<< <<"BR", 62>>, "seller_endpoints">>,
           << <<"BR", 63>>, "buyer_endpoints">>},
          LAMBDA f : FALSE \in inv.found[f])

UnitAndSupportRules(inv) ==
  Fire(\E l \in Elems(inv.lines) : ~l.unit.is, <<"BR", 23>>) \cup
  Fire(FALSE \in inv.found["supporting_doc_refs"], <<"BR", 52>>)

ItemReferenceRules(inv) ==
  FireAll({<< <<"BR", 54>>, "item_attributes">>,
           << <<"BR", 64>>, "item_std_ids_scheme_ok">>,
           << <<"BR", 65>>, "item_class_ids_scheme_ok">>},
          LAMBDA f : FALSE \in inv.found[f]) \cup
  Fire(FALSE \in inv.taxrep_ids_ok, <<"BR", 56>>)

\* BR-53: an accounting currency wants a VAT total in it; CII also wants it
\* to differ from the invoice currency.
BrBR53(inv) ==
  LET tax == inv.raw_text["tax_currency_code"]
      match == \E t \in Elems(inv.stated_tax_totals) :
                 t.amount.k # "absent" /\ RawIs(tax, t.currency)
      same == inv.syntax = "cii" /\ "lmt" \in inv.has
              /\ tax = inv.raw_text["document_currency_code"]
      context == inv.syntax = "ubl" \/ "lmt" \in inv.has
  IN  Fire(tax.is /\ context /\ (~match \/ same), <<"BR", 53>>)

\* BR-CO-03, -09, -19, -20, -26.
BrCO03(inv) ==
  Fire(/\ {"tax_point_date", "tax_point_code"} \subseteq inv.has
       /\ inv.syntax = "ubl" \/ inv.all_tax_subtotals # <<>>, <<"BR-CO", 3>>)

\* UBL searches the prefix as a string, so that an empty one and a window
\* across two codes ("E ") pass; CII wants a whole code.  SS is listed in
\* UBL only, AN in CII only.
UBL_VAT_PREFIXES == {"", "E ", "DE", "EL", "SS"}
CII_VAT_PREFIXES == {"DE", "EL", "AN"}

BrCO09(inv) ==
  Fire(\E p \in Elems(inv.codes.vat_id_prefixes) :
         p \notin Pick(inv, UBL_VAT_PREFIXES, CII_VAT_PREFIXES), <<"BR-CO", 9>>)

PeriodFilledRules(inv) ==
  LET Unfilled(p, code) == /\ p.start.k = "absent" /\ p.end.k = "absent"
                           /\ ~(code /\ p.code)
  IN  Fire(\E p \in Elems(inv.periods) : Unfilled(p, inv.syntax = "ubl"),
           <<"BR-CO", 19>>) \cup
      Fire(\E l \in Elems(inv.lines) : \E p \in Elems(l.periods) :
             Unfilled(p, FALSE), <<"BR-CO", 20>>)

BrCO26(inv) ==
  Fire("seller_party" \in inv.has /\ "seller_identified" \notin inv.has,
       <<"BR-CO", 26>>)

(***************************************************************************)
(* ALL_RULES.                                                              *)
(***************************************************************************)
AllRules(inv) ==
  UNION {HeaderRules(inv), AddressRules(inv), TotalsPresenceRules(inv),
         LineRules(inv), PriceRules(inv), PeriodRules(inv), BrCL01(inv),
         CurrencyCodeRules(inv), PlaceCodeRules(inv), NoteSubjectRule(inv),
         CategoryCodeRules(inv), TradeCodeRules(inv), SchemeCodeRules(inv),
         BrCO04(inv), BrCO10(inv), BrCO11(inv), BrCO12(inv), BrCO13(inv),
         BrCO14(inv), BrCO15(inv), BrCO16(inv), BrCO17(inv),
         BreakdownPresenceRules(inv), DocAcDecimalRules(inv),
         LineAcDecimalRules(inv), TotalsDecimalRules(inv),
         VatTotalDecimalRules(inv), RowDecimalRules(inv), DocAcRules(inv),
         LineAcRules(inv), ReasonRules(inv), PayeeRule(inv), TaxRepRules(inv),
         PaymentRules(inv), BrBR61(inv), ReferenceRules(inv),
         EndpointSchemeRules(inv), UnitAndSupportRules(inv),
         ItemReferenceRules(inv),
         BrBR53(inv), BrCO03(inv), BrCO09(inv), PeriodFilledRules(inv),
         BrCO26(inv), VatRules(inv)}

=============================================================================
