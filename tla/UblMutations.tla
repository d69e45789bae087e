---------------------------- MODULE UblMutations ----------------------------
(***************************************************************************)
(* The UBL half of differential.py's mutation catalog: for each rule an    *)
(* edit of a clean invoice that is meant to break the field the rule       *)
(* guards, so that the differential also compares the firing direction.    *)
(* A mutation is the pair of its rule and the edited invoice.  The base    *)
(* invoice's amounts are scaled down; an edit keeps its relation to them.  *)
(***************************************************************************)
EXTENDS Documents

Mut(fam, n, d) == [rule |-> <<fam, n>>, doc |-> d, bites |-> TRUE]

\* The counterpart of a mutation that must not fire the rule.
Clear(fam, n, d) == [rule |-> <<fam, n>>, doc |-> d, bites |-> FALSE]

\* cen-bis3-positive_ubl.xml: one S line at 25 %, a period on the document
\* and on the line, a delivery location, a credit transfer.
UblBase ==
  LET cat == VatCat("S", Amt(250))
      period == PeriodOf(Amt(2), Amt(3), FALSE)
      d == Invoice("Invoice", <<Line(100000, <<cat>>)>>, <<>>,
                   <<Subtotal(100000, 25000, cat, FALSE)>>, 0, 0)
  IN  [d EXCEPT !.has = @ \cup {"seller_id", "seller_legal_id", "delivery_country",
                                "period_start", "period_end"},
                !.periods = <<period>>, !.lines[1].periods = <<period>>,
                !.kinds["delivery_addresses"] = <<"ok">>,
                !.codes.origin_country_codes = <<Txt("DE")>>,
                !.notes = <<[token |-> "none", subject |-> NoText]>>,
                !.pms = <<Means("58", <<"ok">>)>>]

(***************************************************************************)
(* Edits the mutations share.                                              *)
(***************************************************************************)
DropText(d, f) == [d EXCEPT !.text[f] = NoText]
DropHas(d, flags) == [d EXCEPT !.has = @ \ flags]
DropTotal(d, t) == [d EXCEPT !.totals[t] = NoAmount]
SetTotal(d, t, mills) == [d EXCEPT !.totals[t] = Amt(mills)]
Finer(a) == Amt(a.v + 9)
Wrong == 11110

SetLineCategory(d, code) == [d EXCEPT !.lines[1].cats[1].code = Txt(code)]
SetLinePercent(d, rate) == [d EXCEPT !.lines[1].cats[1].rate = Amt(rate)]
EditRow(d, f, value) == [d EXCEPT !.tts[1].subs[1][f] = value]

AddDocAc(d, ac) == [d EXCEPT !.acs = Append(@, ac)]
AddDocAllowanceCharge(d, charge, amount, base, percent, category) ==
  AddDocAc(d, [AllowanceOrCharge(charge, amount, <<VatCat(category, Amt(percent))>>)
                 EXCEPT !.base = base])

\* A document allowance or charge with a reason code, or with no reason.
AddReasonAllowanceCharge(d, charge, code) ==
  AddDocAc(d, [AllowanceOrCharge(charge, 0, <<VatCat("S", Amt(250))>>)
                 EXCEPT !.reason = FALSE, !.codes = <<Txt(code)>>])
AddBareDocAllowanceCharge(d, charge) ==
  AddDocAc(d, [AllowanceOrCharge(charge, 0, <<VatCat("S", Amt(250))>>)
                 EXCEPT !.reason = FALSE])

\* Mutant: the helper always writes a reason.
AddReasonedLineAllowanceCharge(d, charge, amount, base, reason) ==
  [d EXCEPT !.lines[1].acs =
     Append(@, [AllowanceOrCharge(charge, amount, <<>>) EXCEPT !.base = base])]

AddLineAllowanceCharge(d, charge, amount, base, reason) ==
  [d EXCEPT !.lines[1].acs =
     Append(@, [AllowanceOrCharge(charge, amount, <<>>)
                  EXCEPT !.base = base, !.reason = reason])]

SupplierRemovePartyTaxScheme(d) == DropHas(d, {"seller_vat_id", "seller_fc_id"})

AddTaxRepresentative(d, named, address) ==
  [d EXCEPT !.taxreps = <<[named |-> named, address |-> address, vat |-> "ok"]>>]

(***************************************************************************)
(* Header, parties, totals, lines.                                         *)
(***************************************************************************)
HeaderMutations(b) ==
  {Mut("BR", 1, DropText(b, "customization_id")), Mut("BR", 2, DropText(b, "id")),
   Mut("BR", 3, DropText(b, "issue_date")), Mut("BR", 4, DropText(b, "invoice_type_code")),
   Mut("BR", 5, DropText(b, "document_currency_code")),
   Mut("BR", 6, DropText(b, "seller_name")), Mut("BR", 7, DropText(b, "buyer_name")),
   Mut("BR", 8, DropText(DropHas(b, {"seller_address"}), "seller_country")),
   Mut("BR", 9, DropText(b, "seller_country")),
   Mut("BR", 10, DropText(DropHas(b, {"buyer_address"}), "buyer_country")),
   Mut("BR", 11, DropText(b, "buyer_country"))}

TotalMutations(b) ==
  {Mut("BR", 12, DropTotal(b, "line_extension_total")),
   Mut("BR", 13, DropTotal(b, "tax_exclusive_amount")),
   Mut("BR", 14, DropTotal(b, "tax_inclusive_amount")),
   Mut("BR", 15, DropTotal(b, "payable_amount"))}

LineMutations(b) ==
  {Mut("BR", 16, [b EXCEPT !.lines = <<>>]),
   Mut("BR", 21, [b EXCEPT !.lines[1].has = @ \ {"id"}]),
   Mut("BR", 22, [b EXCEPT !.lines[1].has = @ \ {"quantity"},
                           !.lines[1].qty = NoAmount, !.lines[1].unit = NoText]),
   Mut("BR", 24, [b EXCEPT !.lines[1].net = NoAmount]),
   Mut("BR", 25, [b EXCEPT !.lines[1].has = @ \ {"item_name"}]),
   Mut("BR", 26, [b EXCEPT !.lines[1].price = NoAmount]),
   Mut("BR", 27, [b EXCEPT !.lines[1].price = Amt(-1000)]),
   Mut("BR", 28, [b EXCEPT !.lines[1].gross = <<Amt(-1000)>>])}

PeriodMutations(b) ==
  {Mut("BR", 29, [b EXCEPT !.periods[1].end = Amt(1)]),
   Mut("BR", 30, [b EXCEPT !.lines[1].periods[1].end = Amt(1)]),
   Mut("BR-CO", 4, [b EXCEPT !.lines[1].cats = <<>>]),
   Mut("BR-CL", 1, [b EXCEPT !.text["invoice_type_code"] = Txt("999")])}

SumMutations(b) ==
  {Mut("BR-CO", 10, SetTotal(b, "line_extension_total", Wrong)),
   Mut("BR-CO", 11, SetTotal(b, "allowance_total", 12340)),
   Mut("BR-CO", 12, SetTotal(b, "charge_total", 12340)),
   Mut("BR-CO", 13, SetTotal(b, "tax_exclusive_amount", Wrong)),
   Mut("BR-CO", 14, [b EXCEPT !.tts[1].amount = Amt(999990)]),
   Mut("BR-CO", 15, SetTotal(b, "tax_inclusive_amount", Wrong))}

\* The line says one category, the breakdown another.
CategoryMutations(b) ==
  {Mut("BR-S", 1, [b EXCEPT !.tts[1].subs[1].cat.code = Txt("E")]),
   Mut("BR-Z", 1, SetLineCategory(b, "Z")), Mut("BR-AE", 1, SetLineCategory(b, "AE")),
   Mut("BR-E", 1, SetLineCategory(b, "E")), Mut("BR-G", 1, SetLineCategory(b, "G")),
   Mut("BR-IC", 1, SetLineCategory(b, "K")), Mut("BR-O", 1, SetLineCategory(b, "O"))}

RowMutations(b) ==
  {Mut("BR-CO", 16, SetTotal(b, "payable_amount", Wrong)),
   Mut("BR-CO", 17, EditRow(b, "tax", Amt(99990))),
   Mut("BR-CO", 18, [b EXCEPT !.tts[1].subs = <<>>])}

DocAcDecimalMutations(b) ==
  {Mut("BR-DEC", 1, AddDocAllowanceCharge(b, "false", 10009, NoAmount, 250, "S")),
   Mut("BR-DEC", 2, AddDocAllowanceCharge(b, "false", 10000, Amt(100009), 250, "S")),
   Mut("BR-DEC", 5, AddDocAllowanceCharge(b, "true", 10009, NoAmount, 250, "S")),
   Mut("BR-DEC", 6, AddDocAllowanceCharge(b, "true", 10000, Amt(100009), 250, "S"))}

TotalDecimalMutations(b) ==
  {Mut("BR-DEC", n_t[1], [b EXCEPT !.totals[n_t[2]] = Finer(@)]) :
     n_t \in {<<9, "line_extension_total">>, <<10, "allowance_total">>,
              <<11, "charge_total">>, <<12, "tax_exclusive_amount">>,
              <<14, "tax_inclusive_amount">>, <<16, "prepaid_amount">>,
              <<17, "payable_rounding_amount">>, <<18, "payable_amount">>}}

RowDecimalMutations(b) ==
  {Mut("BR-DEC", 19, EditRow(b, "taxable", Amt(100009))),
   Mut("BR-DEC", 20, EditRow(b, "tax", Amt(25009))),
   Mut("BR-DEC", 23, [b EXCEPT !.lines[1].net = Finer(@)])}

RowPresenceMutations(b) ==
  {Mut("BR", 45, EditRow(b, "taxable", NoAmount)),
   Mut("BR", 46, EditRow(b, "tax", NoAmount)),
   Mut("BR", 47, [b EXCEPT !.tts[1].subs[1].cat.code = NoText]),
   Mut("BR", 48, [b EXCEPT !.tts[1].subs[1].cat.rate = NoAmount])}

(***************************************************************************)
(* The VAT families: the base is rewritten into a clean invoice of the     *)
(* category, then broken.                                                  *)
(***************************************************************************)
\* Line and row become code at 0 %, the totals lose their VAT.
ConvertCategory(b, code, exemption) ==
  LET cat == VatCat(code, Amt(0))
      excl == b.totals["tax_exclusive_amount"]
  IN  [b EXCEPT !.lines[1].cats = <<cat>>, !.tts[1].amount = Amt(0),
                !.tts[1].subs[1] = [@ EXCEPT !.tax = Amt(0), !.cat = cat,
                                             !.exemption = exemption],
                !.totals["tax_inclusive_amount"] = excl,
                !.totals["payable_amount"] = excl]

\* Rules -02 to -04: the category on a line, an allowance, a charge, and no
\* seller VAT identifier.
NoSellerIdMutations(c, fam, code, amount, percent) ==
  {Mut(fam, 2, SupplierRemovePartyTaxScheme(c)),
   Mut(fam, 3, SupplierRemovePartyTaxScheme(
                 AddDocAllowanceCharge(c, "false", amount, NoAmount, percent, code))),
   Mut(fam, 4, SupplierRemovePartyTaxScheme(
                 AddDocAllowanceCharge(c, "true", amount, NoAmount, percent, code)))}

\* Rules -05 to -07: a rate the category does not allow.
RateMutations(c, fam, code, amount, percent) ==
  {Mut(fam, 5, SetLinePercent(c, percent)),
   Mut(fam, 6, AddDocAllowanceCharge(c, "false", amount, NoAmount, percent, code)),
   Mut(fam, 7, AddDocAllowanceCharge(c, "true", amount, NoAmount, percent, code))}

SMutations(b) ==
  NoSellerIdMutations(b, "BR-S", "S", 10000, 250) \cup
  RateMutations(b, "BR-S", "S", 10000, 0) \cup
  {Mut("BR-S", 9, EditRow(b, "tax", Amt(99990))),
   Mut("BR-S", 10, EditRow(b, "exemption", TRUE))}

ZMutations(b) ==
  LET z == ConvertCategory(b, "Z", FALSE)
  IN  NoSellerIdMutations(z, "BR-Z", "Z", 10000, 0) \cup
      RateMutations(z, "BR-Z", "Z", 10000, 50) \cup
      {Mut("BR-Z", 8, EditRow(z, "taxable", Amt(Wrong))),
       Mut("BR-Z", 9, EditRow(z, "tax", Amt(10000))),
       Mut("BR-Z", 10, EditRow(z, "exemption", TRUE))}

EMutations(b) ==
  LET e == ConvertCategory(b, "E", TRUE)
  IN  NoSellerIdMutations(e, "BR-E", "E", 10000, 0) \cup
      RateMutations(e, "BR-E", "E", 10000, 50) \cup
      {Mut("BR-E", 8, EditRow(e, "taxable", Amt(Wrong))),
       Mut("BR-E", 9, EditRow(e, "tax", Amt(10000))),
       Mut("BR-E", 10, ConvertCategory(b, "E", FALSE))}

\* IGIC and IPSI keep the rate of the base; only the codes change.
Recoded(b, code) ==
  [b EXCEPT !.lines[1].cats[1].code = Txt(code),
            !.tts[1].subs[1].cat.code = Txt(code)]

RatedFamilyMutations(b, fam, code) ==
  LET c == Recoded(b, code)
  IN  {Mut(fam, 1, SetLineCategory(b, code))} \cup
      NoSellerIdMutations(c, fam, code, 0, 250) \cup
      RateMutations(c, fam, code, 0, -50) \cup
      {Mut(fam, 8, EditRow(c, "taxable", Amt(102000))),
       Mut(fam, 9, EditRow(c, "tax", Amt(99990))),
       Mut(fam, 10, EditRow(c, "exemption", TRUE))}

IgicMutations(b) == RatedFamilyMutations(b, "BR-AF", "L")
IpsiMutations(b) == RatedFamilyMutations(b, "BR-AG", "M")

BMutations(b) ==
  {Mut("BR-B", 1, Recoded(b, "B")), Mut("BR-B", 2, SetLineCategory(b, "B"))}

(***************************************************************************)
(* Parties, payment, references.                                           *)
(***************************************************************************)
Payee(named) ==
  [named |-> named, same_name |-> FALSE, same_id |-> FALSE, same_legal_id |-> FALSE]

PartyMutations(b) ==
  {Mut("BR", 17, [b EXCEPT !.payees = <<Payee(FALSE)>>]),
   Mut("BR", 18, AddTaxRepresentative(b, FALSE, "ok")),
   Mut("BR", 19, AddTaxRepresentative(b, TRUE, "absent")),
   Mut("BR", 20, AddTaxRepresentative(b, TRUE, "no country"))}

PaymentMutations(b) ==
  {Mut("BR", 49, [b EXCEPT !.pms[1].codes = <<>>]),
   Mut("BR", 50, [b EXCEPT !.pms[1].accounts = <<"absent">>]),
   Mut("BR", 51, [b EXCEPT !.pans = <<16>>, !.pms[1].card = TRUE]),
   Mut("BR", 55, [b EXCEPT !.kinds["billing_references"] = <<"absent">>]),
   Mut("BR", 57, [DropHas(b, {"delivery_country"}) EXCEPT
                    !.kinds["delivery_addresses"] = <<"absent">>]),
   Mut("BR", 61, [b EXCEPT !.pms[1].accounts = <<>>]),
   Mut("BR", 62, [b EXCEPT !.kinds["seller_endpoints"] = <<"absent">>]),
   Mut("BR", 63, [b EXCEPT !.kinds["buyer_endpoints"] = <<"absent">>])}

\* Code lists: one code nobody lists, where each rule looks for it.
SetCodes(d, list, code) == [d EXCEPT !.codes[list] = <<Txt(code)>>]
AddScheme(d, where, scheme) ==
  [d EXCEPT !.ids = Append(@, [where |-> where, scheme |-> Txt(scheme)])]

CurrencyAndPlaceMutations(b) ==
  {Mut("BR-CL", 3, [b EXCEPT !.codes.amount_currency_ids = Append(@, Txt("XXY"))]),
   Mut("BR-CL", 4, [b EXCEPT !.text["document_currency_code"] = Txt("XXY")]),
   Mut("BR-CL", 5, [b EXCEPT !.text["tax_currency_code"] = Txt("XXY")]),
   Mut("BR-CL", 13, SetCodes(b, "item_class_list_ids", "QQ")),
   Mut("BR-CL", 14, [SetCodes(b, "country_codes", "XX") EXCEPT
                       !.text["seller_country"] = Txt("XX")]),
   Mut("BR-CL", 15, SetCodes(b, "origin_country_codes", "XX")),
   Mut("BR-CL", 6, SetCodes(b, "vat_point_date_codes", "5")),
   Mut("BR-CL", 7, [b EXCEPT !.objrefs = <<[type130 |-> TRUE, scheme |-> Txt("ZZ9")]>>]),
   Mut("BR-CL", 8, [b EXCEPT !.notes[1].token = "???"])}

TradeCodeMutations(b) ==
  {Mut("BR-CL", 17, [b EXCEPT !.tts[1].subs[1].cat.code = Txt("XX")]),
   Mut("BR-CL", 18, SetLineCategory(b, "XX")),
   Mut("BR-CL", 22, SetCodes(b, "tax_exemption_reason_codes", "??")),
   Mut("BR-CL", 23, [b EXCEPT !.lines[1].unit = Txt("XXY")]),
   Mut("BR-CL", 16, [b EXCEPT !.pms[1].codes = <<Txt("XXY")>>]),
   Mut("BR-CL", 19, AddReasonAllowanceCharge(b, "false", "XXX")),
   Mut("BR-CL", 20, AddReasonAllowanceCharge(b, "true", "XXX")),
   Mut("BR-CL", 21, SetCodes(b, "item_std_id_scheme_ids", "XXX"))}

SchemeMutations(b) ==
  {Mut("BR-CL", 10, AddScheme(b, "party", "XXX")),
   Mut("BR-CL", 11, AddScheme(b, "legal", "XXX")),
   Mut("BR-CL", 25, AddScheme(b, "endpoint", "XXX")),
   Mut("BR-CL", 26, AddScheme(b, "delivery", "XXX")),
   Mut("BR-CL", 24, SetCodes(b, "mime_codes", "application/octet-stream"))}

SupportElementMutations(b) ==
  {Mut("BR", 23, [b EXCEPT !.lines[1].unit = NoText]),
   Mut("BR", 52, [b EXCEPT !.kinds["supporting_doc_refs"] = <<"absent">>]),
   Mut("BR", 53, [b EXCEPT !.text["tax_currency_code"] = Txt("USD")]),
   Mut("BR", 54, [b EXCEPT !.kinds["item_attributes"] = <<"absent">>]),
   Mut("BR", 56, [b EXCEPT !.taxreps = <<[named |-> TRUE, address |-> "ok",
                                          vat |-> "absent"]>>]),
   Mut("BR", 64, [b EXCEPT !.kinds["item_std_ids_scheme_ok"] = <<"absent">>]),
   Mut("BR", 65, [b EXCEPT !.kinds["item_class_ids_scheme_ok"] = <<"absent">>]),
   Mut("BR-CO", 9, SetCodes(b, "vat_id_prefixes", "??"))}

SupportMutations(b) ==
  SupportElementMutations(b) \cup
  {Mut("BR-CO", 3, [b EXCEPT !.has = @ \cup {"tax_point_date", "tax_point_code"},
                             !.periods[1].code = TRUE]),
   Mut("BR-CO", 19, [b EXCEPT !.periods = <<PeriodOf(NoAmount, NoAmount, FALSE)>>])}

ReasonMutations(b) ==
  {Mut("BR-CO", 20, [b EXCEPT !.lines[1].periods = <<PeriodOf(NoAmount, NoAmount, FALSE)>>]),
   Mut("BR-CO", 21, AddBareDocAllowanceCharge(b, "false")),
   Mut("BR-CO", 22, AddBareDocAllowanceCharge(b, "true")),
   Mut("BR-CO", 23, AddLineAllowanceCharge(b, "false", 0, NoAmount, FALSE)),
   Mut("BR-CO", 24, AddLineAllowanceCharge(b, "true", 0, NoAmount, FALSE)),
   Mut("BR-DEC", 24, AddLineAllowanceCharge(b, "false", 1123, NoAmount, TRUE)),
   Mut("BR-DEC", 25, AddLineAllowanceCharge(b, "false", 1120, Amt(10123), TRUE)),
   Mut("BR-DEC", 27, AddLineAllowanceCharge(b, "true", 1123, NoAmount, TRUE)),
   Mut("BR-DEC", 28, AddLineAllowanceCharge(b, "true", 1120, Amt(10123), TRUE))}

SellerAndSumMutations(b) ==
  {Mut("BR-CO", 26, DropHas(b, {"seller_id", "seller_vat_id", "seller_legal_id"})),
   Mut("BR-IC", 10, [b EXCEPT !.tts[1].subs =
                       Append(@, Subtotal(0, 0, VatCat("K", Amt(0)), FALSE))]),
   Mut("BR-S", 8, EditRow(b, "taxable", Amt(102000)))}

\* _MUTATIONS, applied to the one base.
EnMutations(b) ==
  UNION {HeaderMutations(b), TotalMutations(b), LineMutations(b), PeriodMutations(b),
         SumMutations(b), CategoryMutations(b), RowMutations(b),
         DocAcDecimalMutations(b), TotalDecimalMutations(b), RowDecimalMutations(b),
         RowPresenceMutations(b), SMutations(b), ZMutations(b), EMutations(b),
         IgicMutations(b), IpsiMutations(b), BMutations(b), PartyMutations(b),
         PaymentMutations(b), CurrencyAndPlaceMutations(b), TradeCodeMutations(b),
         SchemeMutations(b), SupportMutations(b), ReasonMutations(b),
         SellerAndSumMutations(b)}

(***************************************************************************)
(* The German layer, off an XRechnung (a credit transfer, S at 19 %).      *)
(***************************************************************************)
XrUblBase ==
  [XrBase("Invoice", XR_CIUS_ID) EXCEPT
     !.has = @ \ {"delivery_date"}, !.pms = <<Means("58", <<"ok">>)>>,
     !.xr.terms = <<[lines |-> <<"plain">>, terminated |-> FALSE]>>,
     !.lines = <<[@[1] EXCEPT !.periods = <<PeriodOf(Amt(2), Amt(5), FALSE)>>],
                 Line(0, <<Standard>>)>>]

SetPmCode(d, code) == [d EXCEPT !.pms[1].codes = <<Txt(code)>>]
DropAccount(d) == [d EXCEPT !.pms[1].accounts = <<>>, !.pms[1].iban = FALSE]
XrAddMandate(d, mandate) ==
  [d EXCEPT !.pms[1].mandate = mandate, !.pms[1].mandate_id = TRUE]
XrAddDeliveryAddress(d, city, zone) ==
  [d EXCEPT !.xr.shipto = <<[city |-> city, zone |-> zone]>>]
EditContact(d, f, value) == [d EXCEPT !.xr.contacts[1][f] = value]

XrPartyMutations(b) ==
  {Mut("BR-DE", 1, [b EXCEPT !.pms = <<>>]),
   Mut("BR-DE", 2, [b EXCEPT !.xr.contacts = <<>>]),
   Mut("BR-DE", 3, DropHas(b, {"seller_city"})), Mut("BR-DE", 4, DropHas(b, {"seller_zone"})),
   Mut("BR-DE", 5, EditContact(b, "name", FALSE)),
   Mut("BR-DE", 6, EditContact(b, "tel", "absent")),
   Mut("BR-DE", 7, EditContact(b, "mail", "absent")),
   Mut("BR-DE", 8, DropHas(b, {"buyer_city"})), Mut("BR-DE", 9, DropHas(b, {"buyer_zone"})),
   Mut("BR-DE", 10, XrAddDeliveryAddress(b, FALSE, TRUE)),
   Mut("BR-DE", 11, XrAddDeliveryAddress(b, TRUE, FALSE))}

XrHeaderMutations(b) ==
  {Mut("BR-DE", 14, [b EXCEPT !.tts[1].subs[1].cat.rate = NoAmount]),
   Mut("BR-DE", 15, DropText(b, "buyer_reference")),
   Mut("BR-DE", 16, SupplierRemovePartyTaxScheme(b)),
   Mut("BR-DE", 17, [b EXCEPT !.text["invoice_type_code"] = Txt("71")]),
   Mut("BR-DE", 18, [b EXCEPT !.xr.terms = <<[lines |-> <<"malformed">>,
                                              terminated |-> FALSE]>>]),
   Clear("BR-DE", 18, [b EXCEPT !.xr.terms = <<[lines |-> <<"skonto">>,
                                                terminated |-> TRUE]>>])}

XrPaymentMutations(b) ==
  {Mut("BR-DE", 19, [b EXCEPT !.pms[1].iban = FALSE]),
   Mut("BR-DE", 20, XrAddMandate(SetPmCode(b, "59"), "bad iban")),
   Mut("BR-DE", 21, [b EXCEPT !.text["customization_id"] = Txt("en16931")]),
   Mut("BR-DE", 22, [b EXCEPT !.xr.attachments = <<[at |-> "header", files |-> <<"a">>],
                                                   [at |-> "header", files |-> <<"a">>]>>]),
   Mut("BR-DE-a", 23, DropAccount(b)),
   Mut("BR-DE-b", 23, [b EXCEPT !.pms[1].card = TRUE, !.pans = <<4>>]),
   Mut("BR-DE-a", 24, SetPmCode(b, "48")), Mut("BR-DE-b", 24, SetPmCode(b, "48")),
   Mut("BR-DE-a", 25, SetPmCode(b, "59")), Mut("BR-DE-b", 25, SetPmCode(b, "59"))}

XrReferenceMutations(b) ==
  {Mut("BR-DE", 26, [b EXCEPT !.text["invoice_type_code"] = Txt("384")]),
   Mut("BR-DE", 27, EditContact(b, "tel", "bad")),
   Mut("BR-DE", 28, EditContact(b, "mail", "bad")),
   Mut("BR-DE", 30, XrAddMandate(DropAccount(SetPmCode(b, "59")), "ok")),
   Mut("BR-DE", 31, AddScheme(XrAddMandate(DropAccount(SetPmCode(b, "59")), "no account"),
                              "seller", "SEPA")),
   Clear("BR-DE-TMP", 32, [b EXCEPT !.has = @ \cup {"delivery_date"}])}

XrMutations(b) ==
  XrPartyMutations(b) \cup XrHeaderMutations(b) \cup XrPaymentMutations(b)
    \cup XrReferenceMutations(b)

\* The extension: a line with a sub line.
XrExtBase ==
  [XrBase("Invoice", XR_EXTENSION_ID) EXCEPT
     !.xr.sublines = <<[parent |-> <<"line", 1>>, amount |-> Amt(100000),
                        items |-> <<1>>]>>]

ExtAddPrepaid(d, id, amount, currency, instruction) ==
  [d EXCEPT !.xr.prepaid =
     Append(@, [id |-> id, instruction |-> instruction, paid |-> amount,
                currency |-> currency])]

XrExtMutations(b) ==
  {Mut("BR-DEX", 1, SetCodes(b, "mime_codes", "application/zip")),
   Mut("BR-DEX", 2, [b EXCEPT !.xr.sublines[1].amount = Amt(99990)]),
   Mut("BR-DEX", 3, [b EXCEPT !.xr.sublines[1].items = <<0>>]),
   Mut("BR-DEX", 4, AddScheme(b, "seller", "ZZZ")),
   Mut("BR-DEX", 5, AddScheme(b, "legal", "ZZZ")),
   Mut("BR-DEX", 6, SetCodes(b, "item_std_id_scheme_ids", "ZZZ")),
   Mut("BR-DEX", 7, AddScheme(b, "endpoint", "ZZ")),
   Mut("BR-DEX", 8, AddScheme(b, "delivery", "ZZZ")),
   Mut("BR-DEX", 9, SetTotal(b, "payable_amount", 99990)),
   Mut("BR-DEX", 10, ExtAddPrepaid(b, FALSE, Amt(0), "EUR", TRUE)),
   Mut("BR-DEX", 11, ExtAddPrepaid(b, TRUE, NoAmount, None, TRUE)),
   Mut("BR-DEX", 12, ExtAddPrepaid(b, TRUE, Amt(0), "EUR", FALSE)),
   Mut("BR-DEX", 13, ExtAddPrepaid(b, TRUE, Amt(1), "EUR", TRUE)),
   Mut("BR-DEX", 14, ExtAddPrepaid(b, TRUE, Amt(0), "USD", TRUE))}

\* Clean vehicles: one vehicle line, one other.
XrCvdBase ==
  LET d == XrBase("Invoice", XR_CVD_ID)
  IN  [d EXCEPT !.lines = <<[@[1] EXCEPT !.classes =
                               Append(@, [list |-> Txt("STI"), value |-> "1"])],
                            Line(0, <<Standard>>)>>]

CvdAddItemProperty(d, i, name, value) ==
  [d EXCEPT !.lines[i].props = Append(@, [name |-> Txt(name), value |-> value])]

XrCvdMutations(b) ==
  {Mut("BR-DE-CVD", 1, DropHas(b, {"contract_reference"})),
   Mut("BR-DE-CVD", 2, DropHas(b, {"tender_reference"})),
   Mut("BR-DE-CVD", 3, [b EXCEPT !.lines[1].classes = <<@[2]>>, !.lines[1].props = <<>>]),
   Mut("BR-DE-CVD", 4, [b EXCEPT !.lines[1].classes[1].value = "L5"]),
   Mut("BR-DE-CVD", 5, [b EXCEPT !.lines[1].props[1].value = "hybrid"]),
   Mut("BR-DE-CVD-a", 6, CvdAddItemProperty(b, 1, "cva", "clean")),
   Mut("BR-DE-CVD-b", 6, CvdAddItemProperty(b, 2, "cva", "clean")),
   Mut("BR-TMP-CVD", 1, [b EXCEPT !.lines[1].classes[2].list = Txt("QQQQ")])}

ExternalReference(d, absolute) ==
  [d EXCEPT !.xr.external = <<[type916 |-> TRUE, uri |-> TRUE, absolute |-> absolute]>>]

XrTmpMutations(b) ==
  {Mut("BR-TMP", 2, ExternalReference(b, FALSE)),
   Clear("BR-TMP", 2, ExternalReference(b, TRUE))}

(***************************************************************************)
(* Peppol, off the same XRechnung.                                         *)
(***************************************************************************)
PepAddDocAllowance(d, indicator, base, percent) ==
  AddDocAc(d, [AllowanceOrCharge(indicator, 10000, <<Standard>>)
                 EXCEPT !.base = base, !.multiplier = percent])

\* A price allowance of one unit; the base is the price plus delta.
PepAddPriceAllowance(d, indicator, delta) ==
  LET base == Amt(d.lines[1].price.v + delta)
  IN  [d EXCEPT !.lines[1].gross = <<base>>,
                !.lines[1].price_acs =
                  <<[AllowanceOrCharge(indicator, 1000, <<>>) EXCEPT !.base = base]>>]

PepDocMutations(b) ==
  {Mut("PEPPOL", 1, DropHas(b, {"profile_id"})),
   Mut("PEPPOL", 5, [b EXCEPT !.text["tax_currency_code"] =
                                b.text["document_currency_code"]]),
   Mut("PEPPOL", 8, [b EXCEPT !.has = @ \cup {"empty_element"}]),
   Mut("PEPPOL", 10, [b EXCEPT !.kinds["buyer_endpoints"] = <<>>]),
   Mut("PEPPOL", 20, [b EXCEPT !.kinds["seller_endpoints"] = <<>>])}

PepAllowanceMutations(b) ==
  {Mut("PEPPOL", 40, PepAddDocAllowance(b, "false", Amt(100000), Amt(250))),
   Mut("PEPPOL", 41, PepAddDocAllowance(b, "false", NoAmount, Amt(250))),
   Mut("PEPPOL", 42, PepAddDocAllowance(b, "false", Amt(100000), NoAmount)),
   Mut("PEPPOL", 43, PepAddDocAllowance(b, "TRUE", NoAmount, NoAmount)),
   Mut("PEPPOL", 44, PepAddPriceAllowance(b, "true", 1000)),
   Mut("PEPPOL", 46, PepAddPriceAllowance(b, "false", 5000))}

PepAddTaxCurrency(d, code) == [d EXCEPT !.text["tax_currency_code"] = Txt(code)]
PepAddPlainTaxTotal(d, amount, currency) ==
  [d EXCEPT !.tts = Append(@, TaxTotal(amount, currency, <<>>))]
PepAddDocPeriod(d, start, end) == [d EXCEPT !.periods = <<PeriodOf(start, end, FALSE)>>]
PepAddLineDocReference(d, code) == [d EXCEPT !.lines[1].docrefs = <<Txt(code)>>]
PepAddBaseQuantity(d, n, unit) == [d EXCEPT !.lines[1].net_q = <<[qty |-> Amt(n), unit |-> unit]>>]

PepTaxTotalMutations(b) ==
  {Mut("PEPPOL", 53, [b EXCEPT !.tts = <<@[1], @[1]>>]),
   Mut("PEPPOL", 54, PepAddTaxCurrency(b, "USD")),
   Clear("PEPPOL", 54, PepAddPlainTaxTotal(PepAddTaxCurrency(b, "USD"), 21000, "USD")),
   Mut("PEPPOL", 55, PepAddPlainTaxTotal(PepAddTaxCurrency(b, "USD"), -21000, "USD")),
   Mut("PEPPOL", 61, SetPmCode(b, "59")),
   Clear("PEPPOL", 61, [SetPmCode(b, "59") EXCEPT !.pms[1].mandate = "no account",
                                                  !.pms[1].mandate_id = TRUE])}

PepLineMutations(b) ==
  {Mut("PEPPOL", 101, PepAddLineDocReference(b, "916")),
   Clear("PEPPOL", 101, PepAddLineDocReference(b, "130")),
   Mut("PEPPOL", 110, PepAddDocPeriod(b, Amt(3), NoAmount)),
   Mut("PEPPOL", 111, PepAddDocPeriod(b, NoAmount, Amt(4))),
   Clear("PEPPOL", 110, PepAddDocPeriod(b, Amt(2), Amt(5))),
   Clear("PEPPOL", 111, PepAddDocPeriod(b, Amt(2), Amt(5))),
   Mut("PEPPOL", 120, [b EXCEPT !.lines[1].net.v = @ - 1000]),
   Mut("PEPPOL", 121, PepAddBaseQuantity(b, 0, NoText)),
   Clear("PEPPOL", 121, PepAddBaseQuantity(b, 1, NoText)),
   Mut("PEPPOL", 130, PepAddBaseQuantity(b, 1, Txt("KGM"))),
   Clear("PEPPOL", 130, PepAddBaseQuantity(b, 1, Txt("C62")))}

PeppolMutations(b) ==
  PepDocMutations(b) \cup PepAllowanceMutations(b) \cup PepTaxTotalMutations(b)
    \cup PepLineMutations(b)
=============================================================================
