----------------------------- MODULE PeppolRules ----------------------------
(***************************************************************************)
(* The PEPPOL-EN16931-R rules that KoSIT ships inside the XRechnung        *)
(* Schematron (einvoice/rules_peppol.py), in both bindings.  They read the *)
(* document, never the normalised model.  The UBL rules know the Invoice   *)
(* branches only: a credit note has no InvoiceLine.                        *)
(*                                                                         *)
(* Beside the fields of the other layers a line carries its quantity, the  *)
(* allowances and charges of its price and the type codes of its document  *)
(* references; an allowance or charge carries its percentage (multiplier,  *)
(* in tenths).  A date or a paid amount may be present but "empty".        *)
(***************************************************************************)
EXTENDS XRechnungRules

(***************************************************************************)
(* Arithmetic: the slack of two cents (half a unit in forint).             *)
(***************************************************************************)
SlackValue(huf) == IF huf THEN 500 ELSE 20

\* exp + slack >= num / den and exp - slack <= num / den.
SlackHolds(exp, num, den, slack) ==
  LET sign == IF den < 0 THEN -1 ELSE 1
  IN  /\ (exp + slack) * den * sign >= num * sign
      /\ (exp - slack) * den * sign <= num * sign

IsHuf(doc) == RawIs(doc.text["document_currency_code"], "HUF")

\* xs:decimal or xs:double of a text: an empty one does not parse.
Given0(a) == IF a.k = "absent" THEN Amt(0) ELSE a

UblLines(doc) == IF doc.root = "Invoice" THEN doc.lines ELSE <<>>
UblDocAndLineAcs(doc) == doc.acs \o Flatten(Each(UblLines(doc), LAMBDA l : l.acs))

(***************************************************************************)
(* Header.                                                                 *)
(***************************************************************************)
R001(doc) == Fire("profile_id" \notin doc.has, <<"PEPPOL", 1>>)

\* An absent currency code compares as an empty one.
R005(doc) ==
  Fire(/\ doc.text["tax_currency_code"].is
       /\ doc.text["tax_currency_code"].s = doc.text["document_currency_code"].s,
       <<"PEPPOL", 5>>)

HasEmptyElement(doc) ==
  \/ "empty_element" \in doc.has
  \/ \E f \in DOMAIN doc.text : doc.text[f].is /\ doc.text[f].s = ""
  \/ \E p \in Elems(doc.periods \o Flatten(Each(doc.lines, LAMBDA l : l.periods))) :
       p.start.k = "empty" \/ p.end.k = "empty"
  \/ \E p \in Elems(doc.xr.prepaid) : p.paid.k = "empty"

\* CII forgives the empty ApplicableHeaderTradeDelivery.
R008Ubl(doc) == Fire(HasEmptyElement(doc) \/ "empty_delivery" \in doc.has, <<"PEPPOL", 8>>)
R008Cii(doc) == Fire(HasEmptyElement(doc), <<"PEPPOL", 8>>)

EndpointRules(doc) ==
  Fire("buyer_party" \in doc.has /\ doc.kinds["buyer_endpoints"] = <<>>,
       <<"PEPPOL", 10>>) \cup
  Fire("seller_party" \in doc.has /\ doc.kinds["seller_endpoints"] = <<>>,
       <<"PEPPOL", 20>>)

EndpointRulesCii(doc) == EndpointRules(doc)

(***************************************************************************)
(* Allowances and charges: of the document and its lines.                  *)
(***************************************************************************)
AcAmountWrong(doc, a) ==
  /\ a.multiplier.k # "absent" /\ a.base.k # "absent"
  /\ IsNum(Given0(a.amount)) /\ IsNum(a.base) /\ IsNum(a.multiplier)
  /\ ~SlackHolds(Given0(a.amount).v, a.base.v * a.multiplier.v, 1000,
                 SlackValue(IsHuf(doc)))

R040(doc, acs) == Fire(\E a \in Elems(acs) : AcAmountWrong(doc, a), <<"PEPPOL", 40>>)
R041(acs) ==
  Fire(\E a \in Elems(acs) : a.multiplier.k # "absent" /\ a.base.k = "absent",
       <<"PEPPOL", 41>>)
R042(acs) ==
  Fire(\E a \in Elems(acs) : a.multiplier.k = "absent" /\ a.base.k # "absent",
       <<"PEPPOL", 42>>)
R043(acs) ==
  Fire(\E a \in Elems(acs) : a.indicator \notin {"true", "false"}, <<"PEPPOL", 43>>)

AcRulesCii(doc) ==
  LET acs == DocAndLineAcs(doc)
  IN  R040(doc, acs) \cup R041(acs) \cup R042(acs) \cup R043(acs)

(***************************************************************************)
(* Allowances on the price.  UBL asks it of each, with its own base        *)
(* amount, whatever line the price is in: a credit note's are asked too,   *)
(* unlike the rules on an InvoiceLine.  CII asks it of the gross price,    *)
(* whose amount is the base.                                               *)
(***************************************************************************)
R044Ubl(doc) ==
  Fire(\E l \in Elems(doc.lines) : \E a \in Elems(l.price_acs) :
         a.indicator # "false", <<"PEPPOL", 44>>)

R046Ubl(doc) ==
  LET Wrong(l, a) ==
        /\ a.base.k # "absent"
        /\ IF l.price.k = "absent" \/ a.amount.k = "absent" THEN TRUE
           ELSE /\ IsNum(l.price) /\ IsNum(a.base) /\ IsNum(a.amount)
                /\ l.price.v # a.base.v - a.amount.v
  IN  Fire(\E l \in Elems(doc.lines) : \E a \in Elems(l.price_acs) : Wrong(l, a),
           <<"PEPPOL", 46>>)

R043_2(doc) == R043(Flatten(Each(doc.lines, LAMBDA l : l.price_acs)))

R044Cii(doc) ==
  Fire(\E l \in Elems(doc.lines) :
         /\ l.gross # <<>> /\ \E a \in Elems(l.price_acs) : a.amount.k # "absent"
         /\ \A a \in Elems(l.price_acs) : a.indicator # "false", <<"PEPPOL", 44>>)

\* Only the first amount of the applied allowances counts.
R046Cii(doc) ==
  LET Actual(l) ==
        LET given == SelectSeq(l.price_acs, LAMBDA a : a.amount.k # "absent")
        IN  IF given = <<>> THEN Amt(0) ELSE given[1].amount
      Wrong(l) ==
        /\ l.gross # <<>>
        /\ IF l.price.k = "absent" THEN TRUE
           ELSE /\ IsNum(l.price) /\ IsNum(l.gross[1]) /\ IsNum(Actual(l))
                /\ l.price.v # l.gross[1].v - Actual(l).v
  IN  Fire(\E l \in Elems(doc.lines) : Wrong(l), <<"PEPPOL", 46>>)

(***************************************************************************)
(* VAT totals.  UBL tells the accounting-currency total by its missing     *)
(* subtotals, CII by its currency.                                         *)
(***************************************************************************)
WantsTaxCurrency(doc) == IF doc.text["tax_currency_code"].is THEN 1 ELSE 0

R053Ubl(doc) ==
  Fire(CountIn(doc.tts, LAMBDA t : t.subs # <<>>) # 1, <<"PEPPOL", 53>>)
R054Ubl(doc) ==
  Fire(CountIn(doc.tts, LAMBDA t : t.subs = <<>>) # WantsTaxCurrency(doc),
       <<"PEPPOL", 54>>)

\* Both totals on the same side of zero; zero is on both sides in UBL, on
\* the positive side only in CII.
SameSign(taxes, docs, Neg(_)) ==
  \/ (\E a \in taxes : Neg(a.v)) /\ (\E b \in docs : Neg(b.v))
  \/ (\E a \in taxes : a.v >= 0) /\ (\E b \in docs : b.v >= 0)

R055Ubl(doc) ==
  LET In(f) == {t.amount : t \in {x \in Elems(doc.tts) :
                  x.amount.k # "absent" /\ x.currency = doc.text[f].s}}
      taxes == In("tax_currency_code")
      docs == In("document_currency_code")
  IN  Fire(/\ doc.text["tax_currency_code"].is
           /\ \A a \in taxes \cup docs : IsNum(a)
           /\ ~SameSign(taxes, docs, LAMBDA v : v <= 0), <<"PEPPOL", 55>>)

SummationTotals(doc) ==
  IF "lmt" \in doc.has
  THEN SelectSeq(doc.tts, LAMBDA t : t.amount.k # "absent" /\ t.currency # None)
  ELSE <<>>
TaxTotalsMatching(doc, f) ==
  SelectSeq(SummationTotals(doc), LAMBDA t : RawIs(doc.text[f], t.currency))

R053Cii(doc) ==
  Fire(Len(TaxTotalsMatching(doc, "document_currency_code")) > 1, <<"PEPPOL", 53>>)

R054Cii(doc) ==
  LET other == IF doc.text["document_currency_code"].is
               THEN SelectSeq(SummationTotals(doc), LAMBDA t :
                      ~RawIs(doc.text["document_currency_code"], t.currency))
               ELSE <<>>
  IN  Fire(Len(other) # WantsTaxCurrency(doc), <<"PEPPOL", 54>>)

R055Cii(doc) ==
  LET In(f) == {t.amount : t \in Elems(TaxTotalsMatching(doc, f))}
      taxes == In("tax_currency_code")
      docs == In("document_currency_code")
  IN  Fire(/\ doc.text["tax_currency_code"].is /\ docs # {}
           /\ \A a \in taxes \cup docs : IsNum(a)
           /\ ~SameSign(taxes, docs, LAMBDA v : v < 0), <<"PEPPOL", 55>>)

(***************************************************************************)
(* Direct debit and line references.                                       *)
(***************************************************************************)
DirectDebits(doc) ==
  {pm \in Elems(doc.pms) : Len(pm.codes) = 1 /\ pm.codes[1].s \in {"49", "59"}}

R061Ubl(doc) ==
  Fire(\E pm \in DirectDebits(doc) : ~pm.mandate_id, <<"PEPPOL", 61>>)
R061Cii(doc) ==
  Fire(DirectDebits(doc) # {} /\ "mandate_id" \notin doc.has, <<"PEPPOL", 61>>)

R101(lines) ==
  Fire(\E l \in Elems(lines) :
         l.docrefs # <<>> /\ \A t \in Elems(l.docrefs) : ~RawIs(t, "130"),
       <<"PEPPOL", 101>>)

R101Cii(doc) == R101(doc.lines)

(***************************************************************************)
(* Line periods within the document's.  UBL walks the line dates in order  *)
(* and stops at the first that is empty (fires), does not parse (holds) or *)
(* is out of range (fires); CII compares the strings.                      *)
(***************************************************************************)
BoundsOf(periods, Bound(_)) ==
  SelectSeq(Each(periods, Bound), LAMBDA b : b.k # "absent")

UblLinePeriodCheck(doc, Bound(_), Ok(_, _)) ==
  LET heads == BoundsOf(doc.periods, Bound)
      dates == BoundsOf(Flatten(Each(UblLines(doc), LAMBDA l : l.periods)), Bound)
      Stops(d) == ~IsNum(d) \/ ~Ok(d.v, heads[1].v)
      stop == {i \in DOMAIN dates : Stops(dates[i])}
  IN  /\ Len(heads) = 1 /\ IsNum(heads[1])
      /\ \E i \in stop : (\A j \in stop : i <= j) /\ dates[i].k # "bad"

CiiLinePeriodCheck(doc, Bound(_), Ok(_, _)) ==
  LET heads == BoundsOf(doc.periods, Bound)
      dates == BoundsOf(Flatten(Each(doc.lines, LAMBDA l : l.periods)), Bound)
  IN  /\ heads # <<>>
      /\ \E d \in Elems(dates) : \A h \in Elems(heads) : ~Ok(d.v, h.v)

NotBefore(line, head) == line >= head
NotAfter(line, head) == line <= head

PeriodBoundsUbl(doc) ==
  Fire(UblLinePeriodCheck(doc, LAMBDA p : p.start, NotBefore), <<"PEPPOL", 110>>) \cup
  Fire(UblLinePeriodCheck(doc, LAMBDA p : p.end, NotAfter), <<"PEPPOL", 111>>)
PeriodBoundsCii(doc) ==
  Fire(CiiLinePeriodCheck(doc, LAMBDA p : p.start, NotBefore), <<"PEPPOL", 110>>) \cup
  Fire(CiiLinePeriodCheck(doc, LAMBDA p : p.end, NotAfter), <<"PEPPOL", 111>>)

(***************************************************************************)
(* Line amounts.  Quantities are whole units.                              *)
(***************************************************************************)
\* The single element's number, the default when there is none.
SingleDec(values, default) ==
  CASE values = <<>> -> Amt(default)
    [] Len(values) = 1 -> values[1]
    [] OTHER -> BadAmount

\* The rounded sum of the line's allowances (or charges).
LineAcSum(l, indicator) ==
  Xr2(SumOver(SelectSeq(l.acs, LAMBDA a : a.indicator = indicator),
              LAMBDA a : ValueOr0(a.amount)))

AcsParse(l) ==
  \A a \in Elems(l.acs) : a.indicator \in {"true", "false"} => a.amount.k # "bad"

\* Mutant: the line's allowances and charges are left out.
LineAmountWrongNoAcs(doc, l, base) ==
  /\ IsNum(Given0(l.net)) /\ IsNum(l.qty) /\ IsNum(Given0(l.price)) /\ IsNum(base)
  /\ ~SlackHolds(Given0(l.net).v, l.qty.v * Given0(l.price).v, base.v,
                 SlackValue(IsHuf(doc)))

LineAmountWrong(doc, l, base) ==
  LET net == Given0(l.net)
      qty == IF l.qty.k = "absent" THEN Amt(1) ELSE l.qty
      price == Given0(l.price)
      extra == LineAcSum(l, "true") - LineAcSum(l, "false")
  IN  /\ IsNum(net) /\ IsNum(qty) /\ IsNum(price) /\ IsNum(base) /\ AcsParse(l)
      /\ ~SlackHolds(net.v - extra, qty.v * price.v, base.v, SlackValue(IsHuf(doc)))

\* A zero base quantity counts as one.
NonZero(a) == IF IsNum(a) /\ a.v = 0 THEN Amt(1) ELSE a
Qtys(qs) == Each(qs, LAMBDA q : q.qty)

R120Ubl(doc) ==
  Fire(\E l \in Elems(UblLines(doc)) :
         LineAmountWrong(doc, l, NonZero(SingleDec(Qtys(l.net_q), 1))),
       <<"PEPPOL", 120>>)

\* CII falls back to the gross price's base quantity when the net price has
\* none or a zero one.
R120Cii(doc) ==
  LET Base(l) ==
        LET net == SingleDec(Qtys(l.net_q), 0)
        IN  IF IsNum(net) /\ net.v = 0
            THEN NonZero(SingleDec(Qtys(l.gross_q), 1)) ELSE net
  IN  Fire(\E l \in Elems(doc.lines) : LineAmountWrong(doc, l, Base(l)),
           <<"PEPPOL", 120>>)

R121(lines, BaseQuantities(_)) ==
  Fire(\E l \in Elems(lines) : \E qs \in BaseQuantities(l) :
         Len(qs) = 1 /\ IsNum(qs[1].qty) /\ qs[1].qty.v <= 0, <<"PEPPOL", 121>>)

\* CII has two base quantities.
R121Cii(doc) == R121(doc.lines, LAMBDA l : {l.gross_q, l.net_q})

\* The unit of a base quantity is the unit of the quantity.
UnitDiffers(l, qs) ==
  \E q \in Elems(qs) : q.unit.is /\ ~(l.unit.is /\ l.unit = q.unit)

\* UBL compares with InvoicedQuantity alone, on every price: the CreditedQuantity of a
\* credit note is a quantity whose unit never matches.
R130Ubl(doc) ==
  LET Compared(l) == IF doc.root = "Invoice" THEN l ELSE [l EXCEPT !.unit = NoText]
  IN  Fire(\E l \in Elems(doc.lines) : l.qty.k # "absent" /\ UnitDiffers(Compared(l), l.net_q),
           <<"PEPPOL", 130>>)
R130Cii(doc) ==
  Fire(\E l \in Elems(doc.lines) : UnitDiffers(l, l.gross_q \o l.net_q),
       <<"PEPPOL", 130>>)

PeppolUbl(doc) ==
  LET acs == UblDocAndLineAcs(doc)
  IN  UNION {R001(doc), R005(doc), R008Ubl(doc), EndpointRules(doc),
             R040(doc, acs), R041(acs), R042(acs), R043(acs), R044Ubl(doc),
             R046Ubl(doc), R053Ubl(doc), R054Ubl(doc), R055Ubl(doc),
             R061Ubl(doc), R101(UblLines(doc)),
             PeriodBoundsUbl(doc), R120Ubl(doc),
             R121(UblLines(doc), LAMBDA l : {l.net_q}), R130Ubl(doc)}

PeppolCii(doc) ==
  UNION {R001(doc), R005(doc), R008Cii(doc), EndpointRulesCii(doc),
         AcRulesCii(doc), R043_2(doc), R044Cii(doc), R046Cii(doc),
         R053Cii(doc), R054Cii(doc), R055Cii(doc), R061Cii(doc),
         R101Cii(doc), PeriodBoundsCii(doc), R120Cii(doc), R121Cii(doc),
         R130Cii(doc)}

PeppolWarnings == {<<"PEPPOL", 120>>}
=============================================================================
