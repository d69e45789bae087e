---------------------------- MODULE CiiMutations ----------------------------
(***************************************************************************)
(* The CII half of differential.py's mutation catalog.  The document       *)
(* record is the same in both syntaxes, so an edit that removes or         *)
(* rewrites the same business term is shared with the UBL half; the CII    *)
(* families flip the first line and append rows instead of converting the  *)
(* whole invoice.                                                          *)
(***************************************************************************)
EXTENDS UblMutations

(***************************************************************************)
(* CII_example1: two S lines of two rates, one payment means with an IBAN, *)
(* an empty delivery; CII_business_example_01 adds an S allowance and an S *)
(* charge, prepaid and both totals, a tax representative.                  *)
(***************************************************************************)
Low == VatCat("S", Amt(60))
High == VatCat("S", Amt(210))

CiiBase ==
  LET d == Invoice("CrossIndustryInvoice", <<Line(19900, <<Low>>), Line(10000, <<High>>)>>,
                   <<>>, <<Subtotal(19900, 1190, Low, FALSE),
                           Subtotal(10000, 2100, High, FALSE)>>, 0, 0)
  IN  [d EXCEPT !.has = (@ \ {"delivery_date"}) \cup {"seller_legal_id"},
                !.kinds["seller_endpoints"] = <<>>, !.kinds["buyer_endpoints"] = <<>>,
                !.ids = <<>>, !.notes = <<[token |-> "none", subject |-> Txt("ADU")]>>]

CiiAllowanceBase ==
  LET d == Invoice("CrossIndustryInvoice", <<Line(100000, <<Low>>)>>,
                   <<AllowanceOrCharge("false", 10000, <<Low>>),
                     AllowanceOrCharge("true", 10000, <<Low>>)>>,
                   <<Subtotal(100000, 6000, Low, FALSE)>>, 1000, 0)
  IN  AddTaxRepresentative(d, TRUE, "ok")

(***************************************************************************)
(* Header, totals, lines, sums, rows.                                      *)
(***************************************************************************)
CiiHeaderMutations(b) == HeaderMutations(b)
CiiTotalMutations(b) == TotalMutations(b)

CiiLineMutations(b) ==
  {m \in LineMutations(b) : m.rule # <<"BR", 28>>}

CiiSumMutations(b) ==
  {m \in SumMutations(b) : m.rule[2] \notin {11, 12}} \cup RowMutations(b) \cup
  {Mut("BR-CL", 1, [b EXCEPT !.text["invoice_type_code"] = Txt("999")]),
   Mut("BR-CO", 4, [b EXCEPT !.lines[1].cats = <<>>])}

CiiRowPresenceMutations(b) == RowPresenceMutations(b)

CiiSMutations(b) ==
  {Mut("BR-S", 2, SupplierRemovePartyTaxScheme(b)), Mut("BR-S", 5, SetLinePercent(b, 0)),
   Mut("BR-S", 9, EditRow(b, "tax", Amt(99990))),
   Mut("BR-S", 10, EditRow(b, "exemption", TRUE))}

CiiDecimalMutations(b) ==
  {Mut("BR-DEC", n_t[1], [b EXCEPT !.totals[n_t[2]] = Finer(@)]) :
     n_t \in {<<9, "line_extension_total">>, <<12, "tax_exclusive_amount">>,
              <<14, "tax_inclusive_amount">>, <<18, "payable_amount">>}} \cup
  RowDecimalMutations(b) \cup
  {Mut("BR-DEC", 13, [b EXCEPT !.tts[1].amount = Finer(@)]),
   Mut("BR-DEC", 15, [b EXCEPT !.text["tax_currency_code"] = Txt("SEK"),
                               !.tts = Append(@, TaxTotal(20305, "SEK", <<>>))])}

(***************************************************************************)
(* Code lists and supporting elements.                                     *)
(***************************************************************************)
\* A document allowance or charge with an amount and neither category nor,
\* unless given, reason.
CiiBareAc(indicator) ==
  [AllowanceOrCharge(indicator, 0, <<>>) EXCEPT !.reason = FALSE]
CiiAddReasonAllowanceCharge(d, charge, code) ==
  AddDocAc(d, [CiiBareAc(charge) EXCEPT !.codes = <<Txt(code)>>])

CiiCurrencyAndPlaceMutations(b) ==
  {Mut("BR-CL", 3, [b EXCEPT !.tts[1].currency = "XXY"]),
   Mut("BR-CL", 6, SetCodes(b, "vat_point_date_codes", "35")),
   Mut("BR-CL", 8, [b EXCEPT !.notes[1].subject = Txt("ZZ9")])} \cup
  {m \in CurrencyAndPlaceMutations(b) : m.rule[2] \in {4, 5, 7, 13, 14, 15}}

CiiTradeCodeMutations(b) ==
  {Mut("BR-CL", 19, CiiAddReasonAllowanceCharge(b, "false", "XXX")),
   Mut("BR-CL", 20, CiiAddReasonAllowanceCharge(b, "true", "XXX"))} \cup
  {m \in TradeCodeMutations(b) : m.rule[2] \in {16, 18, 21, 22, 23}}

CiiSchemeMutations(b) == SchemeMutations(b)

CiiSupportMutations(b) ==
  SupportElementMutations(b) \cup
  {Mut("BR-CO", 3, [b EXCEPT !.has = @ \cup {"tax_point_date", "tax_point_code"}]),
   Mut("BR-CO", 19, [b EXCEPT !.periods = <<PeriodOf(NoAmount, NoAmount, FALSE)>>])}

CiiAddBareAllowanceCharge(d, charge) == AddDocAc(d, CiiBareAc(charge))

CiiReasonMutations(b) ==
  {Mut("BR-CO", 20, [b EXCEPT !.lines[1].periods = <<PeriodOf(NoAmount, NoAmount, FALSE)>>]),
   Mut("BR-CO", 21, CiiAddBareAllowanceCharge(b, "false")),
   Mut("BR-CO", 22, CiiAddBareAllowanceCharge(b, "true"))} \cup
  {m \in ReasonMutations(b) : m.rule[1] = "BR-DEC" \/ m.rule[2] \in {23, 24}}

\* The first row is re-based by a euro.
CiiSellerAndSumMutations(b) ==
  {Mut("BR-CO", 26, DropHas(b, {"seller_vat_id", "seller_fc_id", "seller_legal_id"})),
   Mut("BR-IC", 10, [b EXCEPT !.tts[1].subs =
                       <<Subtotal(0, 0, VatCat("K", Amt(0)), FALSE)>> \o @]),
   Mut("BR-S", 8, EditRow(b, "taxable", Amt(b.tts[1].subs[1].taxable.v + 2000)))}

(***************************************************************************)
(* The VAT families off a standard rated invoice.                          *)
(***************************************************************************)
\* Every S code of lines and rows becomes code.
CiiRecoded(d, code) ==
  [d EXCEPT !.lines = Each(@, LAMBDA l : [l EXCEPT !.cats[1].code = Txt(code)]),
            !.tts[1].subs = Each(@, LAMBDA s : [s EXCEPT !.cat.code = Txt(code)])]

CiiAddVatAc(d, code, charge, rate) ==
  AddDocAllowanceCharge(d, charge, 0, NoAmount, rate, code)

CiiRatedFamilyMutations(b, fam, code, bad_rate) ==
  LET c == CiiRecoded(b, code)
  IN  {Mut(fam, 1, SetLineCategory(b, code)),
       Mut(fam, 2, SupplierRemovePartyTaxScheme(c)),
       Mut(fam, 3, SupplierRemovePartyTaxScheme(CiiAddVatAc(b, code, "false", 210))),
       Mut(fam, 4, SupplierRemovePartyTaxScheme(CiiAddVatAc(b, code, "true", 210))),
       Mut(fam, 5, SetLinePercent(c, bad_rate)),
       Mut(fam, 6, CiiAddVatAc(b, code, "false", bad_rate)),
       Mut(fam, 7, CiiAddVatAc(b, code, "true", bad_rate)),
       Mut(fam, 10, EditRow(c, "exemption", TRUE))}

CiiIgicMutations(b) == CiiRatedFamilyMutations(b, "BR-AF", "L", 0)
CiiIpsiMutations(b) == CiiRatedFamilyMutations(b, "BR-AG", "M", -50)

CiiBMutations(b) ==
  {Mut("BR-B", 1, CiiRecoded(b, "B")), Mut("BR-B", 2, SetLineCategory(b, "B"))}

\* The first line's category becomes code; its rate 0, or kept.
CiiFlipLine(d, code) == [d EXCEPT !.lines[1].cats = <<VatCat(code, Amt(0))>>]
CiiAddHeaderRow(d, code, basis, calculated, reason) ==
  [d EXCEPT !.tts[1].subs =
     Append(@, Subtotal(basis, calculated, VatCat(code, Amt(0)), reason))]

\* Rules -01, -03 to -07 of a family: the line or an allowance or charge in
\* the category; party changes what the parties' rules look at.
CiiCategoryAcMutations(b, fam, code, Party(_)) ==
  {Mut(fam, 3, Party(CiiAddVatAc(b, code, "false", 0))),
   Mut(fam, 4, Party(CiiAddVatAc(b, code, "true", 0))),
   Mut(fam, 5, SetLineCategory(b, code)),
   Mut(fam, 6, CiiAddVatAc(b, code, "false", 210)),
   Mut(fam, 7, CiiAddVatAc(b, code, "true", 210))}

\* Rules -08 to -10: the flipped line has a row that is wrong.
CiiCategoryRowMutations(b, fam, code, reason) ==
  LET f == CiiFlipLine(b, code)
  IN  {Mut(fam, 8, CiiAddHeaderRow(f, code, 30000, 0, reason)),
       Mut(fam, 9, CiiAddHeaderRow(f, code, 19900, 10, reason)),
       Mut(fam, 10, CiiAddHeaderRow(f, code, 19900, 0, ~reason))}

CiiExemptMutations(b, fam, code, reason) ==
  {Mut(fam, 1, CiiAddVatAc(b, code, "false", 0)),
   Mut(fam, 2, SupplierRemovePartyTaxScheme(CiiFlipLine(b, code)))} \cup
  CiiCategoryAcMutations(b, fam, code, SupplierRemovePartyTaxScheme) \cup
  CiiCategoryRowMutations(b, fam, code, reason)

CiiEMutations(b) == CiiExemptMutations(b, "BR-E", "E", TRUE)
CiiGMutations(b) == CiiExemptMutations(b, "BR-G", "G", TRUE)
CiiZMutations(b) == CiiExemptMutations(b, "BR-Z", "Z", FALSE)

\* Reverse charge and intra-community supply: the buyer has no identifier
\* unless the rule is not about it.
CiiAddBuyerVatReg(d) == [d EXCEPT !.has = @ \cup {"buyer_vat_id"}]
CiiAddDeliveryDate(d) == [d EXCEPT !.has = @ \cup {"delivery_date"}]
CiiAddShipToCountry(d) ==
  [d EXCEPT !.has = @ \cup {"delivery_country"}, !.kinds["delivery_addresses"] = <<"ok">>]
Unchanged(d) == d

CiiAeMutations(b) ==
  {Mut("BR-AE", 1, [CiiAddVatAc(b, "AE", "false", 0) EXCEPT
                      !.has = @ \cup {"buyer_legal_id"}]),
   Mut("BR-AE", 2, CiiFlipLine(b, "AE"))} \cup
  CiiCategoryAcMutations(b, "BR-AE", "AE", Unchanged) \cup
  CiiCategoryRowMutations(b, "BR-AE", "AE", TRUE)

CiiIcMutations(b) ==
  LET row == CiiAddBuyerVatReg(CiiAddHeaderRow(CiiFlipLine(b, "K"), "K", 19900, 0, TRUE))
      Identified(m) == [m EXCEPT !.doc = CiiAddBuyerVatReg(@)]
      Delivered(m) == [m EXCEPT !.doc = CiiAddShipToCountry(CiiAddDeliveryDate(@))]
      acs == CiiCategoryAcMutations(b, "BR-IC", "K", Unchanged)
      rows == {m \in CiiCategoryRowMutations(b, "BR-IC", "K", TRUE) : m.rule[2] # 10}
  IN  {Mut("BR-IC", 1, CiiAddBuyerVatReg(CiiAddVatAc(b, "K", "false", 0))),
       Mut("BR-IC", 2, CiiFlipLine(b, "K")),
       Mut("BR-IC", 11, CiiAddShipToCountry(row)),
       Mut("BR-IC", 12, CiiAddDeliveryDate(row))} \cup
      {m \in acs : m.rule[2] \in {3, 4}} \cup
      {Identified(m) : m \in {x \in acs : x.rule[2] > 4}} \cup
      {Delivered(Identified(m)) : m \in rows}

\* Out of scope: no rate at all, and a VAT number in the way.
CiiAddOAc(d, charge, rate) ==
  AddDocAc(d, AllowanceOrCharge(charge, 0, <<VatCat("O", rate)>>))
CiiFlipLineToO(d) == [d EXCEPT !.lines[1].cats = <<VatCat("O", NoAmount)>>]

CiiOMutations(b) ==
  LET o == CiiFlipLineToO(b)
      row == CiiAddHeaderRow(o, "O", 19900, 0, TRUE)
  IN  {Mut("BR-O", 1, CiiAddHeaderRow(b, "O", 0, 0, TRUE)),
       Mut("BR-O", 2, o), Mut("BR-O", 3, CiiAddOAc(b, "false", NoAmount)),
       Mut("BR-O", 4, CiiAddOAc(b, "true", NoAmount)),
       Mut("BR-O", 5, CiiFlipLine(b, "O")),
       Mut("BR-O", 6, CiiAddOAc(b, "false", Amt(0))),
       Mut("BR-O", 7, CiiAddOAc(b, "true", Amt(0))),
       Mut("BR-O", 8, CiiAddHeaderRow(o, "O", 20500, 0, TRUE)),
       Mut("BR-O", 9, CiiAddHeaderRow(o, "O", 19900, 10, TRUE)),
       Mut("BR-O", 10, CiiAddHeaderRow(o, "O", 19900, 0, FALSE)),
       Mut("BR-O", 11, row),
       Mut("BR-O", 12, CiiAddHeaderRow([o EXCEPT !.tts[1].subs = <<>>],
                                       "O", 19900, 0, TRUE)),
       Mut("BR-O", 13, CiiAddVatAc(row, "S", "false", 60)),
       Mut("BR-O", 14, CiiAddVatAc(row, "S", "true", 60))}

CiiFlipHeaderRows(d, code) ==
  [d EXCEPT !.tts[1].subs = Each(@, LAMBDA s : [s EXCEPT !.cat.code = Txt(code)])]

CiiS01Mutations(b) ==
  {Mut("BR-S", 1, CiiAddVatAc(CiiFlipHeaderRows(b, "Z"), "S", "false", 60))}

(***************************************************************************)
(* Parties, periods, allowances, payment.                                  *)
(***************************************************************************)
CiiPartyMutations(b) == PartyMutations(b)

CiiPeriodMutations(b) ==
  LET reversed == <<PeriodOf(Amt(2), Amt(1), FALSE)>>
  IN  {Mut("BR", 28, [b EXCEPT !.lines[1].gross = <<Amt(-5000)>>]),
       Mut("BR", 29, [b EXCEPT !.periods = reversed]),
       Mut("BR", 30, [b EXCEPT !.lines[1].periods = reversed])}

CiiAddDocAllowanceCharge(d, charge, amount, reason) ==
  AddDocAc(d, [CiiBareAc(charge) EXCEPT !.amount = amount, !.reason = reason])

CiiDocAcMutations(b) ==
  {Mut("BR", 31, CiiAddDocAllowanceCharge(b, "false", NoAmount, TRUE)),
   Mut("BR", 32, CiiAddDocAllowanceCharge(b, "false", Amt(0), TRUE)),
   Mut("BR", 33, CiiAddDocAllowanceCharge(b, "false", Amt(0), FALSE)),
   Mut("BR", 36, CiiAddDocAllowanceCharge(b, "true", NoAmount, TRUE)),
   Mut("BR", 37, CiiAddDocAllowanceCharge(b, "true", Amt(0), TRUE)),
   Mut("BR", 38, CiiAddDocAllowanceCharge(b, "true", Amt(0), FALSE))}

CiiAddLineAc(d, charge, amount, reason) ==
  [d EXCEPT !.lines[1].acs =
     Append(@, [CiiBareAc(charge) EXCEPT !.amount = amount, !.reason = reason])]

CiiLineAcMutations(b) ==
  {Mut("BR", 41, CiiAddLineAc(b, "false", NoAmount, TRUE)),
   Mut("BR", 42, CiiAddLineAc(b, "false", Amt(0), FALSE)),
   Mut("BR", 43, CiiAddLineAc(b, "true", NoAmount, TRUE)),
   Mut("BR", 44, CiiAddLineAc(b, "true", Amt(0), FALSE))}

\* A blank IBAN for BR-50, none for BR-61.
CiiPaymentMutations(b) ==
  {m \in PaymentMutations(b) : m.rule[2] \in {49, 51, 55, 57, 62, 63}} \cup
  {Mut("BR", 50, [b EXCEPT !.pms[1].accounts = <<"empty">>]),
   Mut("BR", 61, [b EXCEPT !.pms[1].accounts = <<"absent">>])}

(***************************************************************************)
(* The rules that need the document allowance and charge of the second     *)
(* base.                                                                   *)
(***************************************************************************)
CiiAllowanceMutations(b) ==
  LET unidentified == [DropHas(b, {"seller_vat_id", "seller_fc_id"}) EXCEPT
                         !.taxreps[1].vat = "absent"]
  IN  {Mut("BR-CL", 17, [b EXCEPT !.acs[1].cats[1].code = Txt("XX")]),
       Mut("BR-CO", 11, SetTotal(b, "allowance_total", 50000)),
       Mut("BR-CO", 12, SetTotal(b, "charge_total", 50000)),
       Mut("BR-DEC", 1, [b EXCEPT !.acs[1].amount = Amt(100123)]),
       Mut("BR-DEC", 2, [b EXCEPT !.acs[1].base = Amt(10123)]),
       Mut("BR-DEC", 5, [b EXCEPT !.acs[2].amount = Amt(100123)]),
       Mut("BR-DEC", 6, [b EXCEPT !.acs[2].base = Amt(10123)]),
       Mut("BR-DEC", 10, SetTotal(b, "allowance_total", 100123)),
       Mut("BR-DEC", 11, SetTotal(b, "charge_total", 100123)),
       Mut("BR-DEC", 16, SetTotal(b, "prepaid_amount", 100123)),
       Mut("BR-DEC", 17, SetTotal(b, "payable_rounding_amount", 123)),
       Mut("BR-S", 3, unidentified), Mut("BR-S", 4, unidentified),
       Mut("BR-S", 6, [b EXCEPT !.acs[1].cats[1].rate = Amt(0)]),
       Mut("BR-S", 7, [b EXCEPT !.acs[2].cats[1].rate = Amt(0)])}

\* _CII_MUTATIONS with _CII_MUTATION_BASE.
CiiEnMutations(b, with_ac) ==
  UNION {CiiHeaderMutations(b), CiiTotalMutations(b), CiiLineMutations(b),
         CiiSumMutations(b), CiiRowPresenceMutations(b), CiiSMutations(b),
         CiiDecimalMutations(b), CiiCurrencyAndPlaceMutations(b),
         CiiTradeCodeMutations(b), CiiSchemeMutations(b), CiiSupportMutations(b),
         CiiReasonMutations(b), CiiSellerAndSumMutations(b), CiiIgicMutations(b),
         CiiIpsiMutations(b), CiiBMutations(b), CiiEMutations(b), CiiGMutations(b),
         CiiZMutations(b), CiiAeMutations(b), CiiIcMutations(b), CiiOMutations(b),
         CiiS01Mutations(b), CiiPartyMutations(b), CiiPeriodMutations(b),
         CiiDocAcMutations(b), CiiLineAcMutations(b), CiiPaymentMutations(b),
         CiiAllowanceMutations(with_ac)}

(***************************************************************************)
(* The German layer, off an XRechnung of one line.                         *)
(***************************************************************************)
XrCiiBase ==
  [XrBase("CrossIndustryInvoice", XR_CIUS_ID) EXCEPT
     !.pms = <<Means("58", <<"ok">>)>>,
     !.xr.terms = <<[lines |-> <<"plain">>, terminated |-> FALSE]>>]

CiiXrPartyMutations(b) == XrPartyMutations(b)

CiiAddCard(d) == [d EXCEPT !.pms[1].card = TRUE]
CiiAddPayerAccount(d, iban) == [d EXCEPT !.pms[1].mandate = iban]
CiiDirectDebit(d) == DropAccount(SetPmCode(d, "59"))

CiiXrPaymentMutations(b) ==
  {Mut("BR-DE", 19, [b EXCEPT !.pms[1].iban = FALSE]),
   Mut("BR-DE", 20, CiiAddPayerAccount(CiiDirectDebit(b), "bad iban")),
   Mut("BR-DE-a", 23, DropAccount(b)), Mut("BR-DE-b", 23, CiiAddCard(b)),
   Mut("BR-DE-a", 24, DropAccount(SetPmCode(b, "48"))),
   Mut("BR-DE-b", 24, CiiAddCard(SetPmCode(b, "48"))),
   Mut("BR-DE-a", 25, CiiDirectDebit(b)),
   Mut("BR-DE-b", 25, CiiAddPayerAccount(SetPmCode(b, "59"), "ok"))}

CiiXrHeaderMutations(b) ==
  XrHeaderMutations(b) \cup
  {Mut("BR-DE", 21, [b EXCEPT !.text["customization_id"] = Txt("en16931")]),
   Mut("BR-DE", 26, [b EXCEPT !.text["invoice_type_code"] = Txt("384")]),
   Mut("BR-DE", 27, EditContact(b, "tel", "bad")),
   Mut("BR-DE", 28, EditContact(b, "mail", "bad"))}

CiiAddMandateId(d) == [d EXCEPT !.has = @ \cup {"mandate_id"}]
CiiAddCreditorReference(d) == [d EXCEPT !.has = @ \cup {"creditor_reference"}]

CiiXrMandateMutations(b) ==
  {Mut("BR-DE", 30, CiiAddMandateId(CiiAddPayerAccount(CiiDirectDebit(b), "ok"))),
   Mut("BR-DE", 31, CiiAddCreditorReference(CiiAddMandateId(CiiDirectDebit(b)))),
   Mut("BR-DE", 22, [b EXCEPT !.xr.attachments = <<[at |-> "header", files |-> <<"a">>],
                                                   [at |-> "header", files |-> <<"a">>]>>]),
   Mut("BR-DE-TMP", 32, DropHas([b EXCEPT !.periods = <<>>,
                                   !.lines = Each(@, LAMBDA l : [l EXCEPT !.periods = <<>>])],
                                {"delivery_date"}))}

CiiMakeExtension(d) == [d EXCEPT !.text["customization_id"] = Txt(XR_EXTENSION_ID)]
CiiAddHeaderAttachment(d, mime) == SetCodes(d, "mime_codes", mime)

CiiXrExtMutations(b) ==
  LET x == CiiMakeExtension(b)
  IN  {Mut("BR-DEX", 15, [x EXCEPT !.has = @ \cup {"parent_line_id"}]),
       Mut("BR-DEX", 1, CiiAddHeaderAttachment(x, "application/zip")),
       Clear("BR-DEX", 1, CiiAddHeaderAttachment(x, "application/xml")),
       Mut("BR-DEX", 4, AddScheme(x, "seller", "ZZZ")),
       Mut("BR-DEX", 5, AddScheme(x, "legal", "ZZZ")),
       Mut("BR-DEX", 6, SetCodes(x, "item_std_id_scheme_ids", "ZZZ")),
       Mut("BR-DEX", 7, [x EXCEPT !.ids[1].scheme = Txt("ZZ")]),
       Mut("BR-DEX", 8, AddScheme(x, "delivery", "ZZZ"))}

\* Clean vehicles, and the rules under evaluation.
XrCiiCvdBase == [XrCvdBase EXCEPT !.root = "CrossIndustryInvoice"]
CiiCvdMutations(b) == XrCvdMutations(b)

CiiAddGrossBasis(d, gross, gross_unit, net_unit) ==
  [d EXCEPT !.lines[1].gross = <<d.lines[1].price>>,
            !.lines[1].gross_q = <<[qty |-> Amt(gross), unit |-> gross_unit]>>,
            !.lines[1].net_q = <<[qty |-> Amt(1), unit |-> net_unit]>>]

CiiTmpMutations(b) ==
  XrTmpMutations(b) \cup
  {Mut("BR-TMP", 3, CiiAddGrossBasis(b, 2, NoText, NoText)),
   Clear("BR-TMP", 3, CiiAddGrossBasis(b, 1, NoText, NoText)),
   Mut("BR-TMP", 3, CiiAddGrossBasis(b, 1, Txt("KGM"), Txt("XPP")))}

(***************************************************************************)
(* Peppol, off the same XRechnung.                                         *)
(***************************************************************************)
PepCiiAddHeaderAllowance(d, indicator, base, percent) ==
  PepAddDocAllowance(d, indicator, base, percent)

PepCiiAddGrossPrice(d, indicator, delta) ==
  [d EXCEPT !.lines[1].gross = <<Amt(d.lines[1].price.v + delta)>>,
            !.lines[1].price_acs = <<AllowanceOrCharge(indicator, 1000, <<>>)>>]

PepCiiDocMutations(b) == PepDocMutations(b)

PepCiiAllowanceMutations(b) ==
  {Mut("PEPPOL", 40, PepCiiAddHeaderAllowance(b, "false", Amt(100000), Amt(250))),
   Mut("PEPPOL", 41, PepCiiAddHeaderAllowance(b, "false", NoAmount, Amt(250))),
   Mut("PEPPOL", 42, PepCiiAddHeaderAllowance(b, "false", Amt(100000), NoAmount)),
   Mut("PEPPOL", 43, PepCiiAddHeaderAllowance(b, "TRUE", NoAmount, NoAmount)),
   Mut("PEPPOL", 43, PepCiiAddGrossPrice(b, "TRUE", 1000)),
   Mut("PEPPOL", 44, PepCiiAddGrossPrice(b, "true", 1000)),
   Mut("PEPPOL", 46, PepCiiAddGrossPrice(b, "false", 5000))}

PepCiiAddTaxTotal(d, amount, currency) == PepAddPlainTaxTotal(d, amount, currency)
PepCiiAddPeriods(d, header, line) ==
  [d EXCEPT !.periods = <<header>>, !.lines[1].periods = <<line>>]

PepCiiTaxTotalMutations(b) ==
  {Mut("PEPPOL", 53, PepCiiAddTaxTotal(b, 820, "EUR")),
   Mut("PEPPOL", 54, PepAddTaxCurrency(b, "USD")),
   Clear("PEPPOL", 54, PepCiiAddTaxTotal(PepAddTaxCurrency(b, "USD"), 900, "USD")),
   Mut("PEPPOL", 55, PepCiiAddTaxTotal(PepAddTaxCurrency(b, "USD"), -820, "USD")),
   Mut("PEPPOL", 61, SetPmCode(b, "59")),
   Clear("PEPPOL", 61, CiiAddMandateId(SetPmCode(b, "59")))}

PepCiiLineMutations(b) ==
  LET From(n) == PeriodOf(Amt(n), NoAmount, FALSE)
      Until(n) == PeriodOf(NoAmount, Amt(n), FALSE)
      within == PepCiiAddPeriods(b, PeriodOf(Amt(1), Amt(9), FALSE),
                                 PeriodOf(Amt(3), Amt(4), FALSE))
  IN  {Mut("PEPPOL", 101, PepAddLineDocReference(b, "916")),
       Clear("PEPPOL", 101, PepAddLineDocReference(b, "130")),
       Mut("PEPPOL", 110, PepCiiAddPeriods(b, From(2), From(1))),
       Mut("PEPPOL", 111, PepCiiAddPeriods(b, Until(2), Until(3))),
       Clear("PEPPOL", 110, within), Clear("PEPPOL", 111, within),
       Mut("PEPPOL", 120, [b EXCEPT !.lines[1].net.v = @ - 1000]),
       Mut("PEPPOL", 121, PepAddBaseQuantity(b, 0, NoText)),
       Clear("PEPPOL", 121, PepAddBaseQuantity(b, 1, NoText)),
       Mut("PEPPOL", 130, PepAddBaseQuantity(b, 1, Txt("KGM"))),
       Clear("PEPPOL", 130, PepAddBaseQuantity(b, 1, Txt("C62")))}

PeppolCiiMutations(b) ==
  PepCiiDocMutations(b) \cup PepCiiAllowanceMutations(b)
    \cup PepCiiTaxTotalMutations(b) \cup PepCiiLineMutations(b)

XrCiiMutations(b) ==
  CiiXrPartyMutations(b) \cup CiiXrPaymentMutations(b) \cup CiiXrHeaderMutations(b)
    \cup CiiXrMandateMutations(b) \cup CiiXrExtMutations(b)

-----------------------------------------------------------------------------
(***************************************************************************)
(* The catalogs of differential.py, put to the validator: an author starts *)
(* from a clean base invoice and applies one generated mutation.           *)
(***************************************************************************)
CatalogStarts ==
  {UblBase, XrUblBase, XrExtBase, XrCvdBase, CiiBase, CiiAllowanceBase, XrCiiBase, XrCiiCvdBase}

\* The mutations built on a base invoice.
MutationsOf(b) ==
  CASE b = UblBase -> EnMutations(b)
    [] b = XrUblBase -> XrMutations(b) \cup XrTmpMutations(b) \cup PeppolMutations(b)
    [] b = XrExtBase -> XrExtMutations(b)
    [] b = XrCvdBase -> XrCvdMutations(b)
    [] b = CiiBase -> CiiEnMutations(b, CiiAllowanceBase)
    [] b = CiiAllowanceBase -> CiiAllowanceMutations(b)
    [] b = XrCiiBase -> XrCiiMutations(b) \cup CiiTmpMutations(b) \cup PeppolCiiMutations(b)
    [] b = XrCiiCvdBase -> CiiCvdMutations(b)

Catalog == {[base |-> b, muts |-> MutationsOf(b)] : b \in CatalogStarts}
Leg(b) == CHOOSE l \in Catalog : l.base = b
CatalogEdits(d) == {m.doc : m \in Leg(d).muts}

\* "One generated invoice per rule, each breaking exactly that rule's field"
\* (differential.py:2605): the edited invoice fires the rule it was made for
\* and the counterpart invoice does not, so that a comparison on the catalog
\* exercises the firing direction of every rule in it.
MutationBites ==
  \A m \in Leg(doc).muts : m.doc = doc' =>
    (m.rule \in ValidateRoot(doc', profile).fired \cup Peppol(doc')) = m.bites

\* The invoice a mutation starts from does not fire the rule yet: it is the
\* edit that breaks it ("the only new violation is the target rule",
\* differential.py:5728).  A counterpart may clear a rule its base fires.
BaseWasClean ==
  \A m \in Leg(doc).muts : m.doc = doc' /\ m.bites =>
    m.rule \notin result.fired \cup Peppol(doc)
=============================================================================
