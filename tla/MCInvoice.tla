----------------------------- MODULE MCInvoice ------------------------------
(***************************************************************************)
(* Invoice grading for TLC, and what an accepted invoice guarantees.  An   *)
(* author works on one topic: the totals, the VAT categories, the shape of *)
(* the document in either syntax, the German layer, the Peppol layer, or   *)
(* the catalog of generated mutations.  The topic "mills" (amounts with a  *)
(* third decimal) shows LineSumAsOfficial violated; the configuration      *)
(* leaves it out.                                                          *)
(***************************************************************************)
EXTENDS CiiMutations

StartsOf(t) ==
  CASE t \in {"totals", "mills"} -> TotalsStarts
    [] t = "categories" -> CategoryStarts
    [] t = "shapes"     -> ShapeStarts
    [] t = "german"     -> XrStarts
    [] t = "peppol"     -> PeppolStarts
    [] t = "catalog"    -> CatalogStarts

EditsOf(t, d) ==
  CASE t = "totals"     -> TotalsEdits(d)
    [] t = "mills"      -> MillEdits(d)
    [] t = "categories" -> CategoryEdits(d)
    [] t = "shapes"     -> ShapeEdits(d)
    [] t = "german"     -> XrEdits(d)
    [] t = "peppol"     -> PeppolEdits(d)
    [] t = "catalog"    -> CatalogEdits(d)

ProfilesOf(t) ==
  CASE t = "german"  -> {"xrechnung", "peppol"}
    [] t = "catalog" -> {"xrechnung"}
    [] OTHER         -> {"en16931"}

MaxEditsOf(t) ==
  CASE t \in {"categories", "german"} -> 2
    [] t = "peppol"                   -> 3
    [] OTHER                          -> 1

Cii(d) == d.root = "CrossIndustryInvoice"
Verdict(d) == ValidateRoot(d, profile).fired

LineTotal(d) == SumOver(d.lines, LAMBDA l : ValueOr0(l.net))
AcTotal(d, kind) ==
  SumOver(SelectSeq(d.acs, LAMBDA a : IsCharge(a.indicator) = kind),
          LAMBDA a : ValueOr0(a.amount))
RowTaxTotal(d) ==
  SumOver(d.tts, LAMBDA t : SumOver(t.subs, LAMBDA s : ValueOr0(s.tax)))

\* The amount due of an accepted invoice is what its own lines, allowances,
\* charges and VAT add up to, to the cent, less what was paid: BR-CO-10 to
\* BR-CO-16 each check one link of that chain.  In CII the VAT may be left
\* out of the total (BR-CO-15 accepts a grand total equal to the basis).
AcceptedBalances ==
  Accepted /\ "lmt" \in doc.has =>
    LET net == LineTotal(doc) - AcTotal(doc, "allowance") + AcTotal(doc, "charge")
        due == doc.totals["payable_amount"].v
        settled == ValueOr0(doc.totals["prepaid_amount"])
                     - ValueOr0(doc.totals["payable_rounding_amount"])
    IN  \/ due = net + RowTaxTotal(doc) - settled
        \/ Cii(doc) /\ due = net - settled

\* BR-CO-10 as its docstring quotes it (rules.py:1221-1225): the stated sum
\* equals round(sum * 100) div 100, so that only the computed side is
\* rounded.  br_co_10 rounds both.
LineSumAsOfficial ==
  Graded /\ ~Cii(doc) /\ "lmt" \in doc.has =>
    LET stated == doc.totals["line_extension_total"]
    IN  (<<"BR-CO", 10>> \in result.fired) =
          ~(IsNum(stated) /\ stated.v = Xr2(LineTotal(doc)))

(***************************************************************************)
(* VAT categories.                                                         *)
(***************************************************************************)
VatRows(d, code) ==
  SelectSeq(Flatten(Each(d.tts, LAMBDA t : t.subs)), LAMBDA s :
    Stripped(s.cat.code) = code /\ SchemeId(s.cat.scheme) = "VAT")
Carries(cats, code) == \E c \in Elems(cats) : Stripped(c.code) = code
VatLines(d, code) ==
  SelectSeq(d.lines, LAMBDA l : \E c \in Elems(l.cats) :
    /\ IF Cii(d) THEN RawIs(c.code, code) ELSE Stripped(c.code) = code
    /\ SchemeId(c.scheme) = "VAT")

SCodes(d) ==
  SelectSeq(Flatten(Each(d.lines, LAMBDA l : l.cats)), LAMBDA c : RawIs(c.code, "S"))

\* What the lines, charges and allowances that carry a category amount to.
CategoryBase(d, code) ==
  SumOver(SelectSeq(d.lines, LAMBDA l : Carries(l.cats, code)),
          LAMBDA l : ValueOr0(l.net))
  + SumOver(SelectSeq(d.acs, LAMBDA a : Carries(a.cats, code)), LAMBDA a :
      CASE IsCharge(a.indicator) = "charge" -> ValueOr0(a.amount)
        [] IsCharge(a.indicator) = "allowance" -> -ValueOr0(a.amount)
        [] OTHER -> 0)

\* Every category an accepted invoice puts on a line has its row in the VAT
\* breakdown, and in the categories without a rate the rows carry the
\* amounts of the lines to within a unit (exactly in UBL): the -01 and -08
\* rules of every family together.  CII lets an O line do without a row
\* (BR-O-01 there only looks from the row to the line), counts two S lines
\* for the S line and its row (BR-S-01), and does not see a code that is
\* padded with white space.
CategoriesAccounted ==
  Accepted =>
    \A code \in {"S", "Z", "E", "AE", "K", "G", "O", "L", "M"} :
      VatLines(doc, code) # <<>> =>
        \/ code = "O" /\ Cii(doc)
        \/ code = "S" /\ Cii(doc) /\ Len(SCodes(doc)) >= 2
        \/ /\ VatRows(doc, code) # <<>>
           /\ code \notin {"S", "L", "M"} =>
                LET rows == SumOver(VatRows(doc, code), LAMBDA s : ValueOr0(s.taxable))
                IN  Abs(rows - CategoryBase(doc, code)) < (IF Cii(doc) THEN 1000 ELSE 1)

\* Nobody is accepted with VAT on a line and no one to owe it: an accepted
\* invoice with a category that is subject to VAT identifies the seller or
\* a tax representative for VAT.
VatIsOwed ==
  Accepted /\ (\E code \in {"S", "Z", "E", "AE", "K", "G", "L", "M"} :
                 VatLines(doc, code) # <<>>)
    => \/ doc.has \cap {"seller_vat_id", "seller_fc_id"} # {}
       \/ \E t \in Elems(doc.taxreps) : t.vat # "absent"

\* An accepted invoice outside the scope of VAT charges none.
OutOfScopeChargesNothing ==
  Accepted /\ VatRows(doc, "O") # <<>> => RowTaxTotal(doc) = 0

(***************************************************************************)
(* The two syntaxes.                                                       *)
(***************************************************************************)
\* The rules whose official bindings differ and are transcribed with the
\* difference: what only the UBL branch, or only the CII branch, reports.
UblOnly ==
  {<<"BR-S", 1>>, <<"BR", 57>>, <<"BR", 61>>, <<"BR-CL", 3>>, <<"BR-CL", 6>>,
   <<"BR-CL", 8>>, <<"BR-CL", 14>>, <<"BR-CL", 15>>, <<"BR-CO", 9>>,
   <<"BR-CO", 14>>, <<"BR-DEC", 13>>}
CiiOnly ==
  {<<"BR-S", 8>>, <<"BR-CO", 9>>, <<"BR-CO", 14>>, <<"BR-CO", 19>>}
  \cup {<<"BR", n>> : n \in {17, 20, 28, 29, 30, 53, 55, 56, 57, 62, 63, 64, 65}}
  \cup {<<"BR-CL", n>> : n \in {6, 7, 8, 10, 14, 15}}
  \cup {<<"BR-DEC", n>> : n \in {13, 15}}

As(d, root) == [d EXCEPT !.root = root]

\* Apart from the rules whose official bindings differ, an invoice gets the
\* same findings whether it is written as UBL or as CII: two parsers and two
\* branches of every rule agree.
SyntaxParity ==
  doc.root = "Invoice" /\ ~doc.text["creditnote_type_code"].is =>
    LET ubl == Verdict(doc)
        cii == Verdict(As(doc, "CrossIndustryInvoice"))
    IN  ubl \ cii \subseteq UblOnly /\ cii \ ubl \subseteq CiiOnly

Reordered(d) ==
  [d EXCEPT !.lines = Reverse(@), !.acs = Reverse(@), !.pms = Reverse(@),
            !.tts = Each(@, LAMBDA t : [t EXCEPT !.subs = Reverse(@)])]

\* The order of lines, allowances and charges, payment means and breakdown
\* rows does not matter to any rule.
OrderIndependent == Verdict(doc) = Verdict(Reordered(doc))

(***************************************************************************)
(* The German layer.                                                       *)
(***************************************************************************)
Xr == Accepted /\ profile = "xrechnung"

\* Money can be collected: an accepted XRechnung that is to be paid by SEPA
\* direct debit names the creditor and an account to debit.  UBL says so in
\* BR-DE-25-a, -30 and -31 over payment means, seller and payee; CII over
\* three elements of the settlement, each of which may be missing.
DirectDebitComplete ==
  Xr /\ (\E pm \in Elems(doc.pms) : PmCode(pm) = "59") =>
    /\ \E pm \in Elems(doc.pms) : pm.mandate \in {"bad iban", "ok"}
    /\ IF Cii(doc) THEN "creditor_reference" \in doc.has
       ELSE \E x \in Elems(doc.ids) :
              x.where \in {"seller", "payee"} /\ Stripped(x.scheme) = "SEPA"

\* Money can be transferred: every account of a credit transfer has an
\* identifier and there is at least one (BR-50, BR-61, BR-DE-23-a), and no
\* direct debit is asked for beside it.
TransferHasAccount ==
  Xr => \A pm \in Elems(doc.pms) :
          (\E c \in CreditTransfer : pm.codes # <<>> /\ RawIs(pm.codes[1], c)) =>
            /\ pm.accounts # <<>> /\ Elems(pm.accounts) = {"ok"}
            /\ pm.mandate \notin {"bad iban", "ok"}

\* BR-CO-16 keeps its amount due without third party payments and BR-DEX-09
\* wants it with them: a UBL extension invoice whose third party payments do
\* not cancel out is never accepted.
ThirdPartyPaymentRejected ==
  Xr /\ IsExtension(doc) /\ ~Cii(doc) /\ "lmt" \in doc.has =>
    SumOver(doc.xr.prepaid, LAMBDA p : ValueOr0(p.paid)) = 0

\* An accepted clean vehicle invoice has a line with one vehicle category
\* and one clean vehicle attribute, both from the lists.
CvdLineComplete ==
  Xr /\ IsCvd(doc) /\ (Cii(doc) => "transaction" \in doc.has) =>
    \E l \in Elems(doc.lines) :
      /\ Len(CvdClasses(l)) = 1 /\ CvdClasses(l)[1].value \in CVD_VEHICLE_CATEGORIES
      /\ Len(CvaProps(l)) = 1 /\ CvaProps(l)[1].value \in CVA_CODES

(***************************************************************************)
(* The Peppol layer.                                                       *)
(***************************************************************************)
Silent(rules) == rules \cap Peppol(doc) = {}

\* Twice what quantity, price and base quantity (one or two) say of a line.
TwiceLineValue(l) ==
  LET base == IF l.net_q # <<>> /\ l.net_q[1].qty.v # 0 THEN l.net_q[1].qty.v
              ELSE IF Cii(doc) /\ l.gross_q # <<>> THEN l.gross_q[1].qty.v ELSE 1
  IN  (2 * l.qty.v * l.price.v) \div base
      + 2 * (LineAcSum(l, "true") - LineAcSum(l, "false"))

\* Quantities and prices explain the invoice: when PEPPOL-R120 has nothing
\* to say the stated sum of line amounts is what quantities, prices, base
\* quantities and line allowances give, to within the slack of every line.
LinesExplainTotal ==
  Accepted /\ "lmt" \in doc.has /\ Silent({<<"PEPPOL", 120>>})
  /\ (\A l \in Elems(doc.lines) : Len(l.net_q) <= 1) =>
    Abs(2 * doc.totals["line_extension_total"].v - SumOver(doc.lines, TwiceLineValue))
      <= 2 * Len(doc.lines) * SlackValue(IsHuf(doc))

\* Two currencies: with Peppol's R005, R053, R054 and R055 silent, an
\* accepted invoice with an accounting currency has exactly one VAT total
\* in each of the two currencies, and one does not refund what the other
\* charges.
TwoCurrenciesAgree ==
  Accepted /\ doc.text["tax_currency_code"].is
  /\ Silent({<<"PEPPOL", n>> : n \in {5, 53, 54, 55}}) =>
    LET In(f) == SelectSeq(doc.tts, LAMBDA t : t.currency = doc.text[f].s)
        own == In("document_currency_code")
        other == In("tax_currency_code")
    IN  /\ Len(own) = 1 /\ Len(other) = 1 /\ Len(doc.tts) = 2
        /\ ~(own[1].amount.v > 0 /\ other[1].amount.v < 0)

\* Line periods lie within the invoicing period when Peppol's R110 and R111
\* are silent and the invoice has one such period; in UBL the check stops
\* at the first date that does not parse.
LinePeriodsContained ==
  Graded /\ Len(doc.periods) = 1 /\ Silent({<<"PEPPOL", 110>>, <<"PEPPOL", 111>>})
  /\ (\A p \in Elems(doc.periods \o Flatten(Each(doc.lines, LAMBDA l : l.periods))) :
        IsNum(p.start)) =>
    \A l \in Elems(doc.lines) : \A p \in Elems(l.periods) :
      doc.periods[1].start.v <= p.start.v /\ p.end.v <= doc.periods[1].end.v

(***************************************************************************)
(* The properties of the run.                                              *)
(***************************************************************************)
\* A cent more or less in a document total, a tax total or the net amount of a
\* line of an accepted invoice is noticed by one of BR-CO-10 to BR-CO-16
\* (rules.py).  The amounts of VAT rows and of allowances are not moved.
OneCentIsCaught ==
  [][topic = "totals" /\ Accepted /\ Edit
       => ~Ok(ValidateRoot(doc', profile).fired)]_vars

\* An accepted invoice adds up: its amount due follows from its lines,
\* charges and VAT, every VAT category on a line is accounted for in the
\* breakdown, someone owes the VAT, and none is charged outside its scope
\* (the BR-CO, BR-S/Z/E/AE/IC/G/O/IG/IP families of rules.py together).
AcceptedAddsUp ==
  /\ topic = "totals" => AcceptedBalances
  /\ topic = "categories" =>
       CategoriesAccounted /\ VatIsOwed /\ OutOfScopeChargesNothing

\* A verdict depends on what the invoice says: not on the order its elements
\* are written in, nor, but for the rules whose official bindings differ, on
\* whether it is UBL or CII (the two parsers and both branches of rules.py).
VerdictIsIndependent ==
  [][Graded' => /\ topic = "categories" => OrderIndependent
                /\ topic = "shapes" => SyntaxParity]_vars

\* What the national layer (rules_xrechnung.py) and the Peppol layer
\* (rules_peppol.py) let through is complete: money can be collected or
\* transferred, a clean vehicle is classified, lines explain the total,
\* VAT totals in two currencies agree, line periods lie in the invoice's.
LayersHold ==
  [][/\ topic = "german" =>
          DirectDebitComplete' /\ TransferHasAccount'
          /\ ThirdPartyPaymentRejected' /\ CvdLineComplete'
     /\ topic = "peppol" =>
          LinesExplainTotal' /\ TwoCurrenciesAgree' /\ LinePeriodsContained']_vars

\* The catalog of differential.py tests what it says it tests: a generated
\* invoice fires the rule it was made for, its counterpart and its base do
\* not, so that comparing verdicts on it exercises every rule's firing.
CatalogBites == [][topic = "catalog" /\ Edit => MutationBites /\ BaseWasClean]_vars
=============================================================================
