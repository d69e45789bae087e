----------------------------- MODULE Documents ------------------------------
(***************************************************************************)
(* Invoices to grade: a minimal one that both profiles accept, invoices    *)
(* whose totals are computed from their lines, and the edits an author     *)
(* makes, grouped by what they touch.                                      *)
(***************************************************************************)
EXTENDS Validate

VatCat(code, rate) == [code |-> Txt(code), scheme |-> "VAT", rate |-> rate]

Line(net, cats) ==
  [has |-> {"id", "quantity", "item_name"}, unit |-> Txt("C62"), qty |-> Amt(1),
   net |-> Amt(net), price |-> Amt(net), gross |-> <<>>, periods |-> <<>>,
   cats |-> cats, acs |-> <<>>, classes |-> <<>>, props |-> <<>>,
   gross_q |-> <<>>, net_q |-> <<>>, price_acs |-> <<>>, docrefs |-> <<>>]

AllowanceOrCharge(indicator, amount, cats) ==
  [indicator |-> indicator, amount |-> Amt(amount), base |-> NoAmount,
   multiplier |-> NoAmount, cats |-> cats, reason |-> TRUE, codes |-> <<>>]

Subtotal(taxable, tax, cat, exemption) ==
  [taxable |-> Amt(taxable), tax |-> Amt(tax), cat |-> cat, exemption |-> exemption]

TaxTotal(amount, currency, subs) ==
  [amount |-> Amt(amount), currency |-> currency, subs |-> subs]

Means(code, accounts) ==
  [codes |-> <<Txt(code)>>, accounts |-> accounts, iban |-> TRUE,
   mandate |-> "none", mandate_id |-> FALSE, card |-> FALSE, institution |-> FALSE]

NoCodes ==
  [amount_currency_ids |-> <<Txt("EUR")>>, item_class_list_ids |-> <<>>,
   country_codes |-> <<Txt("DE")>>, origin_country_codes |-> <<>>,
   vat_point_date_codes |-> <<>>, tax_exemption_reason_codes |-> <<>>,
   item_std_id_scheme_ids |-> <<>>, mime_codes |-> <<>>,
   vat_id_prefixes |-> <<Txt("DE")>>]

Texts ==
  [customization_id |-> Txt("cius"), id |-> Txt("1"), issue_date |-> Txt("d"),
   invoice_type_code |-> Txt("380"), creditnote_type_code |-> NoText,
   document_currency_code |-> Txt("EUR"), tax_currency_code |-> NoText,
   buyer_reference |-> Txt("r"), seller_name |-> Txt("s"), buyer_name |-> Txt("b"),
   seller_country |-> Txt("DE"), buyer_country |-> Txt("DE")]

Flags ==
  {"seller_address", "buyer_address", "seller_vat_id", "seller_party",
   "buyer_party", "lmt", "delivery_date", "seller_city", "seller_zone",
   "buyer_city", "buyer_zone", "profile_id", "agreement", "transaction"}

\* An invoice with these lines, allowances/charges and VAT rows; the totals
\* follow from them.
Invoice(root, lines, acs, rows, paid, rounding) ==
  LET line_sum == SumOver(lines, LAMBDA l : l.net.v)
      Sum(ind) == SumOver(SelectSeq(acs, LAMBDA a : a.indicator = ind),
                          LAMBDA a : a.amount.v)
      Opt(ind) == IF \E a \in Elems(acs) : a.indicator = ind THEN Amt(Sum(ind))
                  ELSE NoAmount
      OptAmt(n) == IF n = 0 THEN NoAmount ELSE Amt(n)
      excl == line_sum - Sum("false") + Sum("true")
      tax == SumOver(rows, LAMBDA r : r.tax.v)
  IN  [root |-> root, text |-> Texts, has |-> Flags,
       kinds |-> [f \in KindFields |->
                    IF f \in FirstFields THEN <<"ok">> ELSE <<>>],
       taxreps |-> <<>>, payees |-> <<>>, pms |-> <<Means("30", <<"ok">>)>>,
       pans |-> <<>>, codes |-> NoCodes, objrefs |-> <<>>, notes |-> <<>>,
       ids |-> <<[where |-> "endpoint", scheme |-> Txt("EM")]>>,
       periods |-> <<>>,
       totals |-> [line_extension_total |-> Amt(line_sum),
                   allowance_total |-> Opt("false"), charge_total |-> Opt("true"),
                   tax_exclusive_amount |-> Amt(excl),
                   tax_inclusive_amount |-> Amt(excl + tax),
                   prepaid_amount |-> OptAmt(paid),
                   payable_rounding_amount |-> OptAmt(rounding),
                   payable_amount |-> Amt(excl + tax - paid + rounding)],
       tts |-> <<TaxTotal(tax, "EUR", rows)>>, lines |-> lines, acs |-> acs,
       xr |-> [contacts |-> <<[name |-> TRUE, dept |-> FALSE, tel |-> "ok",
                               mail |-> "ok"]>>,
               shipto |-> <<>>, terms |-> <<>>, attachments |-> <<>>,
               external |-> <<>>, sublines |-> <<>>, prepaid |-> <<>>]]

Standard == VatCat("S", Amt(190))
BaseDoc(root) ==
  Invoice(root, <<Line(100000, <<Standard>>)>>, <<>>,
          <<Subtotal(100000, 19000, Standard, FALSE)>>, 0, 0)
Syntaxes == {"Invoice", "CrossIndustryInvoice"}

(***************************************************************************)
(* Totals: one or two lines of two rates, an allowance, a charge, prepaid  *)
(* and rounding amounts; an edit moves one stated amount by a cent.        *)
(***************************************************************************)
Reduced == VatCat("S", Amt(70))

TotalsStarts ==
  LET line_sets == {<<Line(100000, <<Standard>>)>>,
                    <<Line(100000, <<Standard>>), Line(50000, <<Reduced>>)>>,
                    <<Line(100000, <<Standard>>), Line(-20000, <<Standard>>)>>}
      ac_sets == {<<>>, <<AllowanceOrCharge("false", 10000, <<Standard>>)>>,
                  <<AllowanceOrCharge("true", 10000, <<Standard>>)>>,
                  <<AllowanceOrCharge("false", 10000, <<Standard>>),
                    AllowanceOrCharge("true", 20000, <<Standard>>)>>}
      Base(lines, acs, rate) ==
        SumOver(SelectSeq(lines, LAMBDA l : l.cats[1].rate = rate),
                LAMBDA l : l.net.v)
        + SumOver(SelectSeq(acs, LAMBDA a : a.cats[1].rate = rate),
                  LAMBDA a : IF a.indicator = "true" THEN a.amount.v ELSE -a.amount.v)
      Row(lines, acs, cat) ==
        LET base == Base(lines, acs, cat.rate)
        IN  Subtotal(base, (base * cat.rate.v) \div 1000, cat, FALSE)
      Rows(lines, acs) ==
        <<Row(lines, acs, Standard)>> \o
        (IF \E l \in Elems(lines) : l.cats[1] = Reduced
         THEN <<Row(lines, acs, Reduced)>> ELSE <<>>)
      docs == {Invoice(root, lines, acs, Rows(lines, acs), paid, rounding) :
                 root \in Syntaxes, lines \in line_sets, acs \in ac_sets,
                 paid \in {0, 30000}, rounding \in {0, 10}}
      NotDeducted(d) ==
        [d EXCEPT !.totals["payable_amount"].v = @ + ValueOr0(d.totals["prepaid_amount"])]
  IN  docs \cup {NotDeducted(d) : d \in docs}

Moved(a) == {[a EXCEPT !.v = @ + step] : step \in {-10, 10}}

TotalEdits(d) ==
  UNION {{[d EXCEPT !.totals[t] = a] : a \in Moved(d.totals[t])} :
           t \in {x \in Totals : d.totals[x].k = "num"}}

TaxAmountEdits(d) ==
  UNION {{[d EXCEPT !.tts[i].amount = a] : a \in Moved(d.tts[i].amount)} :
           i \in DOMAIN d.tts}

LineAmountEdits(d) ==
  UNION {{[d EXCEPT !.lines[i].net = a] : a \in Moved(d.lines[i].net)} :
           i \in DOMAIN d.lines}

\* A third decimal in the stated sum or in a line.
MillEdits(d) ==
  {[d EXCEPT !.totals["line_extension_total"] = Amt(@.v + 1)]}
    \cup {[d EXCEPT !.lines[i].net = Amt(@.v + 5)] : i \in DOMAIN d.lines}

TotalsEdits(d) == TotalEdits(d) \cup TaxAmountEdits(d) \cup LineAmountEdits(d)

(***************************************************************************)
(* VAT categories: an invoice of one line per category, with its row, and  *)
(* edits of the line, the row, the allowances and the parties.             *)
(***************************************************************************)
CategoryOf(code) ==
  CASE code \in {"S", "L", "M"} -> VatCat(code, Amt(100))
    [] code = "O" -> VatCat(code, NoAmount)
    [] OTHER -> VatCat(code, Amt(0))

Exempted == {"E", "AE", "K", "G", "O"}

CategoryDoc(root, code) ==
  LET cat == CategoryOf(code)
      tax == IF code \in {"S", "L", "M"} THEN 10000 ELSE 0
      d == Invoice(root, <<Line(100000, <<cat>>)>>, <<>>,
                   <<Subtotal(100000, tax, cat, code \in Exempted)>>, 0, 0)
      ids == IF code = "O" THEN d.has \ {"seller_vat_id"}
             ELSE d.has \cup {"buyer_vat_id", "delivery_country"}
  IN  [d EXCEPT !.has = ids \cup {"seller_legal_id"},
                !.codes.vat_id_prefixes = IF code = "O" THEN <<>> ELSE @]

CategoryStarts ==
  {CategoryDoc(root, code) : root \in Syntaxes,
     code \in {"S", "Z", "E", "AE", "K", "G", "O", "L", "M"}}

OtherCats == {CategoryOf("Z"), CategoryOf("O"), CategoryOf("S"),
              [CategoryOf("S") EXCEPT !.code = Padded("S")],
              [CategoryOf("Z") EXCEPT !.scheme = "GST"]}

LineCategoryEdits(d) ==
  {[d EXCEPT !.lines = Append(@, Line(0, <<c>>))] : c \in OtherCats} \cup
  {[d EXCEPT !.lines[1].cats = Append(@, c)] : c \in OtherCats} \cup
  {[d EXCEPT !.lines[1].cats[1].rate = r] : r \in {NoAmount, BadAmount, Amt(70)}}

RowEdits(d) ==
  {[d EXCEPT !.tts[1].subs = Append(@, Subtotal(0, 0, c, e))] :
     c \in OtherCats, e \in BOOLEAN} \cup
  {[d EXCEPT !.tts[1].subs = <<>>]} \cup
  {[d EXCEPT !.tts[1].subs[i].exemption = ~@] : i \in DOMAIN d.tts[1].subs} \cup
  {[d EXCEPT !.tts[1].subs[i].taxable = Amt(n)] :
     i \in DOMAIN d.tts[1].subs, n \in {0, 99500}} \cup
  {[d EXCEPT !.tts[1].subs[i].cat.scheme = "GST"] : i \in DOMAIN d.tts[1].subs}

AcCategoryEdits(d) ==
  {[d EXCEPT !.acs = Append(@, AllowanceOrCharge(ind, 0, <<c>>))] :
     ind \in {"true", "0"}, c \in OtherCats}

PartyEdits(d) ==
  {[d EXCEPT !.has = @ \ {f}] : f \in d.has \cap {"seller_vat_id", "buyer_vat_id"}} \cup
  {[d EXCEPT !.has = @ \cup {"seller_fc_id"}]} \cup
  {[d EXCEPT !.taxreps = <<[named |-> TRUE, address |-> "ok", vat |-> v]>>] :
     v \in {"absent", "ok"}}

CategoryEdits(d) ==
  LineCategoryEdits(d) \cup RowEdits(d) \cup AcCategoryEdits(d) \cup PartyEdits(d)

(***************************************************************************)
(* Presence, codes and parties: one element removed, emptied, padded,      *)
(* repeated or given a code that only one syntax, or none, lists.          *)
(***************************************************************************)
Odd(t) == {NoText, Txt(""), Padded(t.s)}

TextEdits(d) ==
  UNION {{[d EXCEPT !.text[f] = t] : t \in Odd(d.text[f])} : f \in DOMAIN d.text} \cup
  {[d EXCEPT !.text["invoice_type_code"] = Txt(c)] : c \in {"81", "384", "999"}} \cup
  {[d EXCEPT !.text["invoice_type_code"] = NoText,
             !.text["creditnote_type_code"] = Txt(c)] : c \in {"381", "384"}} \cup
  {[d EXCEPT !.text["tax_currency_code"] = t] :
     t \in {Txt("USD"), Txt("EUR"), Padded("USD"), Txt("XXX")}} \cup
  {[d EXCEPT !.text["document_currency_code"] = Txt("XXX")]}

FlagEdits(d) ==
  {[d EXCEPT !.has = @ \ {f}] : f \in d.has} \cup
  {[d EXCEPT !.has = @ \cup {f}] :
     f \in {"seller_fc_id", "seller_id", "tax_point_date", "tax_point_code",
            "empty_element", "empty_delivery"} \ d.has}

KindEdits(d) ==
  {[d EXCEPT !.kinds[f] = k] : f \in KindFields,
     k \in {<<>>, <<"absent">>, <<"empty">>, <<"ok">>, <<"absent", "ok">>}}

PeriodOf(start, end, code) ==
  [start |-> start, end |-> end, code |-> code, fmt102 |-> TRUE]
SomePeriods ==
  {PeriodOf(Amt(1), Amt(2), FALSE), PeriodOf(Amt(2), Amt(1), FALSE),
   PeriodOf(BadAmount, Amt(1), FALSE), PeriodOf(NoAmount, NoAmount, TRUE),
   [PeriodOf(Amt(1), Amt(2), FALSE) EXCEPT !.fmt102 = FALSE]}

PartyGroupEdits(d) ==
  {[d EXCEPT !.taxreps = <<[named |-> n, address |-> a, vat |-> v]>>] :
     n \in BOOLEAN, a \in {"absent", "no country", "ok"},
     v \in {"absent", "empty", "ok"}} \cup
  {[d EXCEPT !.payees = <<[named |-> n, same_name |-> sn, same_id |-> si,
                           same_legal_id |-> sl]>>] : n, sn, si, sl \in BOOLEAN} \cup
  {[d EXCEPT !.pms = <<[Means(c, a) EXCEPT !.codes[1].pad = pad]>>] :
     c \in {"30", "49", "zz"}, a \in {<<>>, <<"absent">>, <<"empty">>, <<"ok">>},
     pad \in BOOLEAN} \cup
  {[d EXCEPT !.pms = <<>>], [d EXCEPT !.pms[1].codes = <<>>], [d EXCEPT !.pans = <<12>>]} \cup
  {[d EXCEPT !.periods = <<p>>] : p \in SomePeriods}

CodeEdits(d) ==
  UNION {{[d EXCEPT !.codes[c] = <<t>>] :
            t \in {Txt("DE"), Txt("IT"), Txt("SS"), Txt("AN"), Txt("3"), Txt("5"),
                   Txt("0088"), Txt("STI"), Txt("application/pdf"), Txt("EUR"),
                   Txt("vatex-eu-o"), Txt("E "), Txt("??"), Txt(""), NoText,
                   Padded("application/pdf")}} : c \in DOMAIN d.codes} \cup
  {[d EXCEPT !.notes = <<[token |-> t, subject |-> s]>>] :
     t \in NoteTokens, s \in {NoText, Txt("ADU"), Txt("BAT"), Txt("??")}} \cup
  {[d EXCEPT !.objrefs = <<[type130 |-> k, scheme |-> s]>>] :
     k \in BOOLEAN, s \in {NoText, Txt("AAA"), Txt("??")}} \cup
  {[d EXCEPT !.ids = Append(@, [where |-> w, scheme |-> s])] :
     w \in {"seller", "party", "endpoint", "legal", "delivery"},
     s \in {NoText, Txt("SEPA"), Txt("0088"), Txt("XR01")}}

LineEdits(d) ==
  {[d EXCEPT !.lines = <<>>], [d EXCEPT !.lines[1].unit = NoText],
   [d EXCEPT !.lines[1].unit = Txt("??")], [d EXCEPT !.lines[1].cats = <<>>]} \cup
  {[d EXCEPT !.lines[1].has = @ \ {f}] : f \in d.lines[1].has} \cup
  {[d EXCEPT !.lines[1].price = a] : a \in {NoAmount, BadAmount, Amt(-10)}} \cup
  {[d EXCEPT !.lines[1].net = a] : a \in {NoAmount, BadAmount, Amt(100001)}} \cup
  {[d EXCEPT !.lines[1].gross = g] : g \in {<<Amt(-10)>>, <<Amt(-10), Amt(10)>>}} \cup
  {[d EXCEPT !.lines[1].periods = <<p>>] : p \in SomePeriods} \cup
  {[d EXCEPT !.lines[1].acs = <<[AllowanceOrCharge(i, 0, <<>>) EXCEPT
                                   !.amount = a, !.reason = r, !.base = b]>>] :
     i \in {"true", "false", "1", "maybe"}, a \in {NoAmount, Amt(0), Amt(1)},
     b \in {NoAmount, Amt(1)}, r \in BOOLEAN}

GroupEdits(d) ==
  {[d EXCEPT !.acs = <<[AllowanceOrCharge(i, 0, c) EXCEPT
                          !.amount = a, !.reason = r, !.codes = k]>>] :
     i \in {"true", "0", "maybe"}, a \in {NoAmount, BadAmount, Amt(0), Amt(1)},
     c \in {<<>>, <<Standard>>, <<[Standard EXCEPT !.scheme = "GST"]>>},
     r \in BOOLEAN, k \in {<<>>, <<Txt("95")>>, <<Txt("ABL")>>}} \cup
  {[d EXCEPT !.totals[t] = a] : t \in Totals, a \in {NoAmount, BadAmount, Amt(1)}} \cup
  {[d EXCEPT !.tts[1].amount = a] : a \in {NoAmount, BadAmount, Amt(19001)}} \cup
  {[d EXCEPT !.tts[1].currency = c] : c \in {None, "USD"}} \cup
  {[d EXCEPT !.tts = Append(@, TaxTotal(n, c, <<>>))] :
     n \in {0, 21000, 21001, -10}, c \in {"EUR", "USD"}} \cup
  {[d EXCEPT !.tts = <<>>]} \cup
  {[d EXCEPT !.tts[1].subs[1].taxable = a] : a \in {NoAmount, BadAmount, Amt(100001)}} \cup
  {[d EXCEPT !.tts[1].subs[1].tax = a] : a \in {NoAmount, BadAmount, Amt(19001)}}

ShapeEdits(d) ==
  TextEdits(d) \cup FlagEdits(d) \cup KindEdits(d) \cup PartyGroupEdits(d) \cup
  CodeEdits(d) \cup (IF d.lines = <<>> THEN {} ELSE LineEdits(d)) \cup
  (IF d.tts = <<>> \/ d.tts[1].subs = <<>> THEN {} ELSE GroupEdits(d))

ShapeStarts == {BaseDoc("Invoice"), BaseDoc("CreditNote"), BaseDoc("Order")}
(***************************************************************************)
(* The German layer: payment, third party payments, vehicles, references.  *)
(***************************************************************************)
XrBase(root, id) ==
  LET d == BaseDoc(root)
      vehicle == [list |-> Txt("CVD"), value |-> "M1"]
      attribute == [name |-> Txt("cva"), value |-> "clean"]
  IN  IF id = XR_CVD_ID
      THEN [d EXCEPT !.text["customization_id"] = Txt(id),
                     !.has = @ \cup {"contract_reference", "tender_reference"},
                     !.lines[1].classes = <<vehicle>>,
                     !.lines[1].props = <<attribute>>]
      ELSE [d EXCEPT !.text["customization_id"] = Txt(id)]

XrStarts ==
  {XrBase(root, id) : root \in Syntaxes,
                      id \in {XR_CIUS_ID, XR_EXTENSION_ID, XR_CVD_ID}}
    \cup {BaseDoc("Order")}

DebitMeans(mandate) == [Means("59", <<>>) EXCEPT !.mandate = mandate]

PaymentEdits(d) ==
  {[d EXCEPT !.pms = <<Means(c, a)>>] : c \in {"30", "58", "59", "48"},
     a \in {<<>>, <<"absent">>, <<"ok">>, <<"ok", "empty">>}} \cup
  {[d EXCEPT !.pms = <<[Means("58", <<"absent">>) EXCEPT !.codes[1].pad = TRUE]>>]} \cup
  {[d EXCEPT !.pms = Append(@, DebitMeans(m))] :
     m \in {"none", "no account", "bad iban", "ok"}} \cup
  {[d EXCEPT !.pms = <<DebitMeans(m)>>] :
     m \in {"none", "no account", "bad iban", "ok"}} \cup
  {[d EXCEPT !.pms[i].card = TRUE] : i \in DOMAIN d.pms} \cup
  {[d EXCEPT !.has = @ \cup {f}] : f \in {"mandate_id", "creditor_reference"} \ d.has} \cup
  {[d EXCEPT !.ids = Append(@, [where |-> w, scheme |-> Txt("SEPA")])] :
     w \in {"seller", "payee", "party"}}

Prepayment(amount) ==
  [id |-> TRUE, instruction |-> TRUE, paid |-> amount, currency |-> "EUR"]

ExtensionEdits(d) ==
  {[d EXCEPT !.xr.prepaid = Append(@, Prepayment(a))] :
     a \in {NoAmount, Amt(0), Amt(10), Amt(-10)}} \cup
  {[d EXCEPT !.xr.prepaid = <<[Prepayment(Amt(0)) EXCEPT !.currency = "USD"]>>],
   [d EXCEPT !.xr.prepaid = <<[Prepayment(Amt(0)) EXCEPT !.id = FALSE]>>]} \cup
  {[d EXCEPT !.totals["payable_amount"].v = @ + n] : n \in {-10, 10}} \cup
  {[d EXCEPT !.xr.sublines = <<[parent |-> <<"line", 1>>, amount |-> Amt(n),
                               items |-> <<1>>]>>] : n \in {100000, 10}} \cup
  {[d EXCEPT !.ids = Append(@, [where |-> w, scheme |-> Txt("XR01")])] :
     w \in {"endpoint", "legal"}} \cup
  {[d EXCEPT !.codes.mime_codes = <<Txt("application/xml")>>],
   [d EXCEPT !.has = @ \cup {"parent_line_id"}]}

VehicleEdits(d) ==
  {[d EXCEPT !.lines[1].classes = c] :
     c \in {<<>>, <<[list |-> Txt("CVD"), value |-> "X9"]>>,
            <<[list |-> Padded("CVD"), value |-> "M1"]>>,
            <<[list |-> Txt("STI"), value |-> "1"]>>,
            <<[list |-> Txt("CVD"), value |-> "M1"], [list |-> Txt("CVD"), value |-> "N1"]>>}} \cup
  {[d EXCEPT !.lines[1].props = c] :
     c \in {<<>>, <<[name |-> Txt("cva"), value |-> "??"]>>,
            <<[name |-> Txt("colour"), value |-> "red"]>>}} \cup
  {[d EXCEPT !.has = @ \ {f}] : f \in d.has \cap {"tender_reference", "transaction"}}

NationalEdits(d) ==
  {[d EXCEPT !.xr.contacts = c] :
     c \in {<<>>, <<[name |-> FALSE, dept |-> TRUE, tel |-> "ok", mail |-> "bad"]>>}} \cup
  {[d EXCEPT !.xr.terms = t] :
     t \in {<<[lines |-> <<"plain">>, terminated |-> FALSE]>>,
            <<[lines |-> <<"skonto">>, terminated |-> TRUE]>>,
            <<[lines |-> <<"malformed">>, terminated |-> TRUE]>>}} \cup
  {[d EXCEPT !.xr.attachments = <<[at |-> "header", files |-> <<"a">>],
                                  [at |-> at, files |-> <<"a">>]>>] :
     at \in {"header", "line"}} \cup
  {[d EXCEPT !.xr.external = <<[type916 |-> t, uri |-> TRUE, absolute |-> FALSE]>>] :
     t \in BOOLEAN} \cup
  {[d EXCEPT !.xr.shipto = <<[city |-> c, zone |-> TRUE]>>] : c \in BOOLEAN}

XrEdits(d) ==
  PaymentEdits(d) \cup ExtensionEdits(d) \cup VehicleEdits(d) \cup NationalEdits(d)

(***************************************************************************)
(* Peppol: line amounts, periods, VAT totals in two currencies.            *)
(***************************************************************************)
Quantity(n, unit) == [qty |-> Amt(n), unit |-> Txt(unit)]

LineAmountShapes(d) ==
  {[d EXCEPT !.lines[1].qty = Amt(n)] : n \in {2}} \cup
  {[d EXCEPT !.lines[1].price = Amt(n)] : n \in {50000, 100020, 100030, 200000}} \cup
  {[d EXCEPT !.lines[1].net_q = q] :
     q \in {<<Quantity(2, "C62")>>, <<Quantity(0, "C62")>>,
            <<Quantity(1, "C62"), Quantity(2, "C62")>>}} \cup
  {[d EXCEPT !.lines[1].gross_q = <<Quantity(2, u)>>] : u \in {"C62", "HUR"}} \cup
  {[d EXCEPT !.lines[1].acs = <<AllowanceOrCharge(i, 50000, <<>>)>>] :
     i \in {"true", "false"}} \cup
  {[d EXCEPT !.lines = Append(@, Line(0, <<Standard>>))]} \cup
  {[d EXCEPT !.text["document_currency_code"] = Txt("HUF")]}

CurrencyShapes(d) ==
  {[d EXCEPT !.text["tax_currency_code"] = t] :
     t \in {Txt("USD"), Txt("EUR"), Padded("USD")}} \cup
  {[d EXCEPT !.tts = Append(@, TaxTotal(n, c, <<>>))] :
     n \in {0, 21000, -21000}, c \in {"USD", "EUR"}} \cup
  {[d EXCEPT !.tts[1].subs = <<>>]}

PeriodShapes(d) ==
  {[d EXCEPT !.periods = Append(@, p)] :
     p \in {PeriodOf(Amt(2), Amt(4), FALSE), PeriodOf(Amt(1), Amt(9), FALSE),
            PeriodOf(BadAmount, Amt(4), FALSE)}} \cup
  {[d EXCEPT !.lines[i].periods = Append(@, p)] : i \in DOMAIN d.lines,
     p \in {PeriodOf(Amt(3), Amt(3), FALSE), PeriodOf(Amt(1), Amt(3), FALSE),
            PeriodOf(Amt(3), Amt(5), FALSE), PeriodOf(BadAmount, Amt(3), FALSE)}}

PeppolStarts == {BaseDoc(root) : root \in Syntaxes}
PeppolEdits(d) == LineAmountShapes(d) \cup CurrencyShapes(d) \cup PeriodShapes(d)
=============================================================================
