------------------------------ MODULE VatRules ------------------------------
(***************************************************************************)
(* The VAT category rules of einvoice/rules.py: one operator per block of  *)
(* a category's rules, returning the identifiers of the rules that fire.   *)
(* A rule identifier is the pair of its family and number.                 *)
(***************************************************************************)
EXTENDS InvoiceModel

Fire(fires, id) == IF fires THEN {id} ELSE {}

(***************************************************************************)
(* Decimal arithmetic, on mills.                                           *)
(***************************************************************************)
IsNum(a) == a.k = "num"
ValueOr0(a) == IF IsNum(a) THEN a.v ELSE 0
Abs(n) == IF n < 0 THEN -n ELSE n

\* _q: half-up (away from zero) to the cent.
Q(mills) == IF mills >= 0 THEN (mills + 5) \div 10 ELSE -((-mills + 5) \div 10)

\* _fn_round: to the nearest integer, halves toward plus infinity.
FnRound(n, unit) == (2 * n + unit) \div (2 * unit)

\* _xr2: to the cent with fn:round, returned in mills.
Xr2(mills) == 10 * FnRound(mills, 10)

\* The tax of a taxable amount: xr2(|taxable| * rate / 100).
TaxOf(taxable, rate) == 10 * FnRound(Abs(taxable) * rate, 10000)

\* The strict band of one currency unit the tolerant rules use.
WithinOne(x, expected) == x - 1000 < expected /\ expected < x + 1000

PercentGtZero(p) == IsNum(p) /\ p.v > 0
PercentEqZero(p) == IsNum(p) /\ p.v = 0
PercentGeZero(p) == IsNum(p) /\ p.v >= 0

(***************************************************************************)
(* Shapes shared by the categories.                                        *)
(***************************************************************************)
\* An allowance or charge, at document or line level, with a VAT-scheme
\* category of this code.
AcHasVatCategory(inv, kind, code) ==
  \E a \in Elems(AllAllowanceCharges(inv)) :
    a.is_charge = kind /\ \E c \in VatCats(a.tax_categories) : c.id = code

LineRateBad(inv, code, Holds(_)) ==
  \E l \in Elems(inv.lines) : \E c \in VatCats(l.cats) :
    c.id = code /\ ~Holds(c.percent)

AcRateBad(inv, code, kind, Holds(_)) ==
  \E a \in Elems(AllAllowanceCharges(inv)) :
    a.is_charge = kind /\ \E c \in VatCats(a.tax_categories) :
                            c.id = code /\ ~Holds(c.percent)

\* Rules -02, -03 and -04: a category on a line, an allowance or a charge
\* asks something of the parties.
PartyRules(inv, fam, code, bad) ==
  Fire(HasClassifiedCategory(inv, code) /\ bad, <<fam, 2>>) \cup
  Fire(AcHasVatCategory(inv, "allowance", code) /\ bad, <<fam, 3>>) \cup
  Fire(AcHasVatCategory(inv, "charge", code) /\ bad, <<fam, 4>>)

\* Rules -05, -06 and -07: the rate on a line, an allowance or a charge.
RateRules(inv, fam, code, Holds(_)) ==
  Fire(LineRateBad(inv, code, Holds), <<fam, 5>>) \cup
  Fire(AcRateBad(inv, code, "allowance", Holds), <<fam, 6>>) \cup
  Fire(AcRateBad(inv, code, "charge", Holds), <<fam, 7>>)

\* The sums of line amounts, charges and allowances whose categories match.
MatchingSums(inv, Match(_)) ==
  [line |-> SumOver(SelectSeq(inv.lines, LAMBDA l : Match(l.cats)),
                    LAMBDA l : ValueOr0(l.net)),
   charge |-> SumOver(SelectSeq(inv.acs, LAMBDA a :
                        a.is_charge = "charge" /\ Match(a.tax_categories)),
                      LAMBDA a : ValueOr0(a.amount)),
   allowance |-> SumOver(SelectSeq(inv.acs, LAMBDA a :
                           a.is_charge = "allowance" /\ Match(a.tax_categories)),
                         LAMBDA a : ValueOr0(a.amount))]

RawTotal(sums) == sums.line + sums.charge - sums.allowance
RoundedTotal(sums) == Xr2(sums.line) + Xr2(sums.charge) - Xr2(sums.allowance)

\* Rule -08 of the categories without a rate: UBL wants the exact sum and
\* at least one line, CII the rounded sum, within the band or exactly.
BreakdownTaxableSumMismatch(inv, code, band) ==
  LET sums == MatchingSums(inv, LAMBDA cats : code \in CatIds(cats))
  IN  \E st \in Elems(VatBreakdown(inv)) :
        /\ st.category_id = code
        /\ \/ ~IsNum(st.taxable)
           \/ /\ inv.syntax = "ubl"
              /\ inv.lines = <<>> \/ st.taxable.v # RawTotal(sums)
           \/ /\ inv.syntax = "cii"
              /\ IF band THEN ~WithinOne(st.taxable.v, RoundedTotal(sums))
                         ELSE st.taxable.v # RoundedTotal(sums)

\* Rule -09 of the categories without a rate.
BreakdownTaxNonzero(inv, code) ==
  \E st \in Elems(VatBreakdown(inv)) :
    st.category_id = code /\ (~IsNum(st.tax) \/ st.tax.v # 0)

\* Rule -10: an exemption reason that must, or must not, be there.
ExemptionReason(inv, code, present) ==
  \E st \in Elems(VatBreakdown(inv)) :
    st.category_id = code /\ st.exemption = present

ZeroBreakdownRules(inv, fam, code) ==
  Fire(BreakdownTaxableSumMismatch(inv, code, TRUE), <<fam, 8>>) \cup
  Fire(BreakdownTaxNonzero(inv, code), <<fam, 9>>)

\* Rule -08 of the categories with a rate.  Code and rate may come from
\* different categories of the same line.
RateMatch(cats, code, rate) ==
  code \in CatIds(cats) /\
  \E c \in Elems(cats) : IsNum(c.percent) /\ c.percent.v = rate

RatedSums(inv, code, rate) ==
  MatchingSums(inv, LAMBDA cats : RateMatch(cats, code, rate))

\* Rule -09 of the categories with a rate: within one unit of the tax.
RatedTaxWrong(inv, code) ==
  \E st \in Elems(VatBreakdown(inv)) :
    /\ st.category_id = code
    /\ ~ /\ IsNum(st.percent) /\ IsNum(st.tax) /\ IsNum(st.taxable)
         /\ WithinOne(Abs(st.tax.v), TaxOf(st.taxable.v, st.percent.v))

(***************************************************************************)
(* S, Standard rated.                                                      *)
(***************************************************************************)
\* BR-S-01: lines/allowances and breakdown agree.  UBL compares presence;
\* CII counts rows, so one breakdown row and one line are enough.
BrS01(inv) ==
  LET Rows(rows) == CountIn(rows, LAMBDA t : RawIs(t, "S"))
      hdr == Rows(inv.raw.header_rows)
      line == Rows(inv.raw.line_rows)
      cat == Rows(inv.raw.tax_category_ids_raw)
      bad == IF inv.syntax = "cii"
             THEN ~ /\ line + hdr >= 2 \/ line = 0
                    /\ cat + hdr >= 2 \/ cat = 0
             ELSE ("S" \in AllCategoryIds(inv)) # (BreakdownCount(inv, "S") > 0)
  IN  Fire(bad, <<"BR-S", 1>>)

\* BR-S-02 is gated on any S line but satisfied by a VAT-scheme one only;
\* -03 to -07 follow the shared shapes.
SItemRules(inv) ==
  Fire(/\ \E l \in Elems(inv.lines) : "S" \in CatIds(l.cats)
       /\ ~(HasClassifiedCategory(inv, "S") /\ SellerHasVatIdentifier(inv)),
       <<"BR-S", 2>>) \cup
  (PartyRules(inv, "BR-S", "S", ~SellerHasVatIdentifier(inv)) \ {<<"BR-S", 2>>}) \cup
  RateRules(inv, "BR-S", "S", PercentGtZero)

SBreakdownRules(inv) ==
  Fire(RatedTaxWrong(inv, "S"), <<"BR-S", 9>>) \cup
  Fire(ExemptionReason(inv, "S", TRUE), <<"BR-S", 10>>)

\* BR-S-08: CII wants the rounded sum exactly, whatever the scheme of the
\* row; UBL accepts the band around the full sum, or, when an
\* allowance/charge of that rate exists, around the allowances and charges
\* alone.
BrS08(inv) ==
  LET rows == {st \in Elems(Breakdown(inv)) :
                 /\ st.category_id = "S" /\ IsNum(st.percent)
                 /\ inv.syntax = "cii" \/ st.category_scheme_id = "VAT"}
      Holds(st) ==
        LET rate == st.percent.v
            sums == RatedSums(inv, "S", rate)
            line_exists == \E l \in Elems(inv.lines) : RateMatch(l.cats, "S", rate)
            ac_exists == \E a \in Elems(AllAllowanceCharges(inv)) :
                           RateMatch(a.tax_categories, "S", rate)
        IN  /\ IsNum(st.taxable)
            /\ IF inv.syntax = "cii" THEN st.taxable.v = RoundedTotal(sums)
               ELSE \/ /\ line_exists \/ ac_exists
                       /\ WithinOne(st.taxable.v, RawTotal(sums))
                    \/ /\ ac_exists
                       /\ WithinOne(st.taxable.v, sums.charge - sums.allowance)
  IN  Fire(\E st \in rows : ~Holds(st), <<"BR-S", 8>>)

(***************************************************************************)
(* Exactly one breakdown row for the other categories.                     *)
(***************************************************************************)
VatExactlyOneBreakdown(inv, code) ==
  code \notin VatCategoryCodes(inv) \/ BreakdownVatCount(inv, code) = 1

CiiVatExactlyOneBreakdown(inv, code) ==
  LET Has(rows) == \E i \in DOMAIN rows : RawIs(rows[i], code)
      hdr == CountIn(inv.raw.header_rows, LAMBDA t : RawIs(t, code))
      item == Has(inv.raw.line_rows) \/ Has(inv.raw.tax_category_ids_raw)
  IN  (hdr = 0 /\ ~item) \/ (hdr = 1 /\ item)

\* BR-O-01 in CII: no O row is fine even when a line carries O.
CiiOExactlyOneBreakdown(inv) ==
  LET hdr == CountIn(inv.raw.header_rows, LAMBDA t : RawIs(t, "O"))
      item == \E i \in DOMAIN (inv.raw.line_rows \o inv.raw.tax_category_ids_raw) :
                RawIs((inv.raw.line_rows \o inv.raw.tax_category_ids_raw)[i], "O")
  IN  hdr = 0 \/ (hdr = 1 /\ item)

ExactlyOne(inv, code) ==
  IF inv.syntax = "cii" THEN CiiVatExactlyOneBreakdown(inv, code)
                        ELSE VatExactlyOneBreakdown(inv, code)

\* BR-Z-01 in UBL counts rows and items whatever their scheme.
BrZ01(inv) ==
  Fire(IF inv.syntax = "cii" THEN ~CiiVatExactlyOneBreakdown(inv, "Z")
       ELSE "Z" \in AllCategoryIds(inv) /\ BreakdownCount(inv, "Z") # 1,
       <<"BR-Z", 1>>)

ExactlyOneRules(inv) ==
  Fire(~ExactlyOne(inv, "AE"), <<"BR-AE", 1>>) \cup
  Fire(~ExactlyOne(inv, "E"), <<"BR-E", 1>>) \cup
  Fire(~ExactlyOne(inv, "G"), <<"BR-G", 1>>) \cup
  Fire(~ExactlyOne(inv, "K"), <<"BR-IC", 1>>)

BrO01(inv) ==
  Fire(IF inv.syntax = "cii" THEN ~CiiOExactlyOneBreakdown(inv)
       ELSE ~VatExactlyOneBreakdown(inv, "O"), <<"BR-O", 1>>)

(***************************************************************************)
(* Z, E, AE, K (Intra-community) and G (Export).                           *)
(***************************************************************************)
ZRules(inv) ==
  PartyRules(inv, "BR-Z", "Z", ~SellerHasVatIdentifier(inv)) \cup
  RateRules(inv, "BR-Z", "Z", PercentEqZero) \cup
  ZeroBreakdownRules(inv, "BR-Z", "Z") \cup
  Fire(ExemptionReason(inv, "Z", TRUE), <<"BR-Z", 10>>)

ERules(inv) ==
  PartyRules(inv, "BR-E", "E", ~SellerHasVatIdentifier(inv)) \cup
  RateRules(inv, "BR-E", "E", PercentEqZero) \cup
  ZeroBreakdownRules(inv, "BR-E", "E") \cup
  Fire(ExemptionReason(inv, "E", FALSE), <<"BR-E", 10>>)

AERules(inv) ==
  LET ids == /\ SellerHasVatIdentifier(inv)
             /\ inv.has \cap {"buyer_vat_id", "buyer_legal_id"} # {}
  IN  PartyRules(inv, "BR-AE", "AE", ~ids) \cup
      RateRules(inv, "BR-AE", "AE", PercentEqZero) \cup
      ZeroBreakdownRules(inv, "BR-AE", "AE") \cup
      Fire(ExemptionReason(inv, "AE", FALSE), <<"BR-AE", 10>>)

\* A tax registration number is not enough across borders: the seller's or
\* the representative's VAT identifier is wanted.
IcSellerIdPresent(inv) == inv.has \cap {"seller_vat_id", "taxrep_vat_id"} # {}

ICRules(inv) ==
  PartyRules(inv, "BR-IC", "K",
             ~(IcSellerIdPresent(inv) /\ "buyer_vat_id" \in inv.has)) \cup
  RateRules(inv, "BR-IC", "K", PercentEqZero) \cup
  ZeroBreakdownRules(inv, "BR-IC", "K")

BrIC10(inv) == Fire(ExemptionReason(inv, "K", FALSE), <<"BR-IC", 10>>)

\* Delivery date or invoicing period, and delivery country.
ICDeliveryRules(inv) ==
  LET used == BreakdownVatCount(inv, "K") > 0
      when == inv.has \cap {"delivery_date", "period_start", "period_end"} # {}
              \/ (inv.syntax = "ubl" /\ "period_code" \in inv.has)
  IN  Fire(used /\ ~when, <<"BR-IC", 11>>) \cup
      Fire(used /\ "delivery_country" \notin inv.has, <<"BR-IC", 12>>)

GRules(inv) ==
  PartyRules(inv, "BR-G", "G", ~IcSellerIdPresent(inv)) \cup
  RateRules(inv, "BR-G", "G", PercentEqZero) \cup
  ZeroBreakdownRules(inv, "BR-G", "G") \cup
  Fire(ExemptionReason(inv, "G", FALSE), <<"BR-G", 10>>)

(***************************************************************************)
(* O, Not subject to VAT: no VAT identifiers, no rate, no other category.  *)
(***************************************************************************)
OItemRules(inv) ==
  PartyRules(inv, "BR-O", "O",
    inv.has \cap {"seller_vat_id", "taxrep_vat_id", "buyer_vat_id"} # {}) \cup
  RateRules(inv, "BR-O", "O", LAMBDA p : p.k = "absent")

OBreakdownRules(inv) ==
  Fire(BreakdownTaxableSumMismatch(inv, "O", FALSE), <<"BR-O", 8>>) \cup
  Fire(BreakdownTaxNonzero(inv, "O"), <<"BR-O", 9>>) \cup
  Fire(ExemptionReason(inv, "O", FALSE), <<"BR-O", 10>>)

OtherThanO(codes) == \E i \in DOMAIN codes : ~RawIs(codes[i], "O")

OExclusiveRules(inv) ==
  LET o == BreakdownVatCount(inv, "O") > 0
      cii == inv.syntax = "cii"
      classified == OtherThanO(inv.raw.classified_category_ids_raw)
      row == \E st \in Elems(VatBreakdown(inv)) : st.category_id # "O"
      line == \E l \in Elems(inv.lines) : \E c \in VatCats(l.cats) : c.id # "O"
  IN  Fire(o /\ IF cii THEN classified ELSE row, <<"BR-O", 11>>) \cup
      Fire(o /\ IF cii THEN classified ELSE line, <<"BR-O", 12>>)

OExclusiveAcRules(inv) ==
  LET o == BreakdownVatCount(inv, "O") > 0
      other == OtherThanO(inv.raw.tax_category_ids_raw)
      Ac(kind) == \E a \in Elems(AllAllowanceCharges(inv)) :
                    a.is_charge = kind /\ \E c \in VatCats(a.tax_categories) :
                                            c.id # "O"
      Bad(kind) == o /\ IF inv.syntax = "cii" THEN other ELSE Ac(kind)
  IN  Fire(Bad("allowance"), <<"BR-O", 13>>) \cup
      Fire(Bad("charge"), <<"BR-O", 14>>)

(***************************************************************************)
(* L (IGIC, family AF) and M (IPSI, family AG).                            *)
(***************************************************************************)
RatedItems(inv, code) ==
  \/ HasClassifiedCategory(inv, code)
  \/ \E kind \in {"allowance", "charge", "neither"} :
       AcHasVatCategory(inv, kind, code)

\* The L breakdown row may be of any scheme, the M row must be a VAT row
\* whose raw code is not padded.
BrAF01(inv) ==
  Fire(IF RatedItems(inv, "L") THEN BreakdownCount(inv, "L") = 0
       ELSE BreakdownVatCount(inv, "L") > 0, <<"BR-AF", 1>>)

BrAG01(inv) ==
  LET raw == \E st \in Elems(Breakdown(inv)) :
               RawIs(st.raw, "M") /\ st.category_scheme_id = "VAT"
  IN  Fire(IF RatedItems(inv, "M") THEN ~raw
           ELSE BreakdownVatCount(inv, "M") > 0, <<"BR-AG", 1>>)

\* BR-AF-04 compares the raw code of a charge; a padded one is not seen.
AFPartyRules(inv) ==
  LET noid == ~SellerHasVatIdentifier(inv)
      raw_charge == \E a \in Elems(AllAllowanceCharges(inv)) :
                      a.is_charge = "charge" /\
                      \E c \in VatCats(a.tax_categories) : RawIs(c.raw, "L")
  IN  (PartyRules(inv, "BR-AF", "L", noid) \ {<<"BR-AF", 4>>}) \cup
      Fire(raw_charge /\ noid, <<"BR-AF", 4>>)

\* UBL accepts a zero rate, CII does not.
AFRateRules(inv) ==
  IF inv.syntax = "cii" THEN RateRules(inv, "BR-AF", "L", PercentGtZero)
                        ELSE RateRules(inv, "BR-AF", "L", PercentGeZero)

AGPartyRules(inv) == PartyRules(inv, "BR-AG", "M", ~SellerHasVatIdentifier(inv))
AGRateRules(inv) == RateRules(inv, "BR-AG", "M", PercentGeZero)

RatedSumWrong(inv, code) ==
  \E st \in Elems(VatBreakdown(inv)) :
    /\ st.category_id = code /\ IsNum(st.percent)
    /\ LET sums == RatedSums(inv, code, st.percent.v)
       IN  \/ ~IsNum(st.taxable)
           \/ IF inv.syntax = "cii" THEN st.taxable.v # RoundedTotal(sums)
              ELSE inv.lines = <<>> \/ ~WithinOne(st.taxable.v, RawTotal(sums))

BrAF08(inv) == Fire(RatedSumWrong(inv, "L"), <<"BR-AF", 8>>)
BrAG08(inv) == Fire(RatedSumWrong(inv, "M"), <<"BR-AG", 8>>)

AFBreakdownRules(inv) ==
  Fire(RatedTaxWrong(inv, "L"), <<"BR-AF", 9>>) \cup
  Fire(ExemptionReason(inv, "L", TRUE), <<"BR-AF", 10>>)

AGBreakdownRules(inv) ==
  Fire(RatedTaxWrong(inv, "M"), <<"BR-AG", 9>>) \cup
  Fire(ExemptionReason(inv, "M", TRUE), <<"BR-AG", 10>>)

(***************************************************************************)
(* B, split payment: Italian documents only, never beside S.               *)
(***************************************************************************)
BRules(inv) ==
  LET Has(codes, c) == \E i \in DOMAIN codes : RawIs(codes[i], c)
      r == inv.raw
      item == Has(r.tax_category_ids_raw \o r.classified_category_ids_raw, "B")
      codes == IF inv.syntax = "cii"
               THEN r.tax_category_ids_raw \o r.classified_category_ids_raw
               ELSE r.doc_breakdown_category_ids_raw \o r.doc_ac_category_ids_raw
                      \o r.classified_category_ids_raw
  IN  Fire(item /\ \E c \in Elems(inv.codes.all_country_codes_raw) : ~RawIs(c, "IT"),
           <<"BR-B", 1>>) \cup
      Fire(Has(codes, "B") /\ Has(codes, "S"), <<"BR-B", 2>>)

VatRules(inv) ==
  UNION {BrS01(inv), SItemRules(inv), BrS08(inv), SBreakdownRules(inv),
         BrZ01(inv), ZRules(inv), ERules(inv), AERules(inv), ICRules(inv),
         BrIC10(inv), ICDeliveryRules(inv), GRules(inv), OItemRules(inv),
         OBreakdownRules(inv), OExclusiveRules(inv), OExclusiveAcRules(inv),
         BrAF01(inv), AFPartyRules(inv), AFRateRules(inv), BrAF08(inv),
         AFBreakdownRules(inv), BrAG01(inv), AGPartyRules(inv),
         AGRateRules(inv), BrAG08(inv), AGBreakdownRules(inv), BRules(inv),
         ExactlyOneRules(inv), BrO01(inv)}
=============================================================================
