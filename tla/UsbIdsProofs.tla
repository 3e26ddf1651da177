--------------------------- MODULE UsbIdsProofs ---------------------------
(***************************************************************************)
(* Proofs about UsbIds, for files of any length and all constants.         *)
(***************************************************************************)
EXTENDS UsbIds, TLAPS

(***************************************************************************)
(* How what the file says changes when one more line of it is read.        *)
(***************************************************************************)

\* A line that names no vendor v adds nothing to the vendor's lines.
LEMMA NoNewVendorLine ==
    ASSUME NEW t \in Seq(Lines), NEW n \in Nat, NEW v,
           ~(Kind(t[n + 1]) = "vendor" /\ t[n + 1].id = v)
    PROVE  VendorLines(t, v, n + 1) = VendorLines(t, v, n)
  BY DEF VendorLines

\* A line of vendor v is the last of the vendor's lines.
LEMMA NewVendorLine ==
    ASSUME NEW t \in Seq(Lines), NEW n \in Nat, NEW v,
           Kind(t[n + 1]) = "vendor", t[n + 1].id = v
    PROVE  IsLastName(t, t[n + 1].name, VendorLines(t, v, n + 1))
  <1>1. n + 1 \in VendorLines(t, v, n + 1)
    BY DEF VendorLines
  <1>2. \A k \in VendorLines(t, v, n + 1) : k <= n + 1
    BY DEF VendorLines
  <1> QED
    BY <1>1, <1>2 DEF IsLastName

\* The scope of a product line is the one open before it.
LEMMA ScopeOfNext ==
    ASSUME NEW t \in Seq(Lines), NEW n \in Nat, NEW i \in Nat \ {0},
           ~AtColumn0(t[n + 1])
    PROVE  ScopeOf(t, i, n + 1) <=> OpenScope(t, i, n)
  BY DEF ScopeOf, OpenScope

\* No two scopes are open at once: the later vendor ends the earlier scope.
LEMMA OneOpenScope ==
    ASSUME NEW t, NEW n \in Nat, NEW i, NEW j, OpenScope(t, i, n), OpenScope(t, j, n)
    PROVE  i = j
  BY DEF OpenScope, AtColumn0

\* A line that is no product p of vendor v adds nothing to the product's lines.
LEMMA NoNewProductLine ==
    ASSUME NEW t \in Seq(Lines), NEW n \in Nat, NEW v, NEW p,
           \/ Kind(t[n + 1]) # "product"
           \/ t[n + 1].id # p
           \/ \A i : OpenScope(t, i, n) => t[i].id # v
    PROVE  ProductLines(t, v, p, n + 1) = ProductLines(t, v, p, n)
  <1>1. ASSUME NEW j \in 1..n,
               NEW i \in 1..(n + 1), ScopeOf(t, i, j)
        PROVE  i \in 1..n
    BY <1>1 DEF ScopeOf
  <1>2. n + 1 \notin ProductLines(t, v, p, n + 1)
    <2> SUFFICES ASSUME Kind(t[n + 1]) = "product", t[n + 1].id = p,
                        NEW i \in 1..(n + 1), t[i].id = v, ScopeOf(t, i, n + 1)
                 PROVE  FALSE
      BY DEF ProductLines
    <2>1. OpenScope(t, i, n)
      BY ScopeOfNext DEF AtColumn0
    <2> QED
      BY <2>1
  <1> QED
    BY <1>1, <1>2 DEF ProductLines

\* A product line under an open scope of vendor v is the last of its lines.
LEMMA NewProductLine ==
    ASSUME NEW t \in Seq(Lines), NEW n \in Nat, NEW v, NEW p,
           Kind(t[n + 1]) = "product", t[n + 1].id = p,
           NEW i, OpenScope(t, i, n), t[i].id = v
    PROVE  IsLastName(t, t[n + 1].name, ProductLines(t, v, p, n + 1))
  <1>1. i \in 1..(n + 1) /\ i \in Nat \ {0}
    BY DEF OpenScope
  <1>2. ScopeOf(t, i, n + 1)
    BY <1>1, ScopeOfNext DEF AtColumn0
  <1>3. n + 1 \in ProductLines(t, v, p, n + 1)
    BY <1>1, <1>2 DEF ProductLines
  <1>4. \A k \in ProductLines(t, v, p, n + 1) : k <= n + 1
    BY DEF ProductLines
  <1> QED
    BY <1>3, <1>4 DEF IsLastName

-----------------------------------------------------------------------------
(***************************************************************************)
(* The steps of the parser preserve ParserInv.                             *)
(***************************************************************************)

\* An empty table answers nothing, which is all that an unread file says.
LEMMA ParserInit == Init => ParserInv
  <1> SUFFICES ASSUME Init
               PROVE  ParserInv
    OBVIOUS
  <1> USE DEF Init, StartParser
  <1>1. TypeOK
    BY DEF TypeOK, Optional
  <1>2. \A v \in Ids : VendorLines(text, v, pos) = {}
    <2>1. \A j \in 1..pos : FALSE
      OBVIOUS
    <2> QED
      BY <2>1, Zenon DEF VendorLines
  <1>3. \A v, p \in Ids : ProductLines(text, v, p, pos) = {}
    BY DEF ProductLines
  <1>4. ScopeIsCurrent /\ CurrentVendorListed
    BY DEF ScopeIsCurrent, OpenScope, CurrentVendorListed
  <1>5. VendorsAsListed
    BY <1>2, NoneIsNoId DEF VendorsAsListed, vendor_name, IsLastName
  <1>6. \A v, p \in Ids : product_name(v, p) = None
    BY DEF product_name
  <1>7. ProductsUnderTheirVendor /\ ProductImpliesVendor
    BY <1>3, <1>6 DEF ProductsUnderTheirVendor, ProductImpliesVendor, IsLastName
  <1> QED
    BY <1>1, <1>4, <1>5, <1>7 DEF ParserInv

\* The line a step consumes.
LEMMA ConsumedLine ==
    ASSUME ParserInv, NEW kinds, Consume(kinds)
    PROVE  /\ text \in Seq(Lines) /\ text' = text
           /\ pos \in Nat /\ pos' = pos + 1 /\ pos' \in 0..Len(text)
           /\ text[pos + 1] \in Lines
           /\ Kind(text[pos + 1]) \in kinds
  BY DEF ParserInv, TypeOK, Consume

\* A line that leaves the tables alone and says nothing of any name.
LEMMA NamesUnchanged ==
    ASSUME ParserInv, pos' = pos + 1, text' = text, UNCHANGED <<vendors, products>>,
           Kind(text[pos + 1]) # "vendor",
           Kind(text[pos + 1]) = "product" => \A i : ~OpenScope(text, i, pos)
    PROVE  VendorsAsListed' /\ ProductsUnderTheirVendor' /\ ProductImpliesVendor'
  <1>1. text \in Seq(Lines) /\ pos \in Nat
    BY DEF ParserInv, TypeOK
  <1>2. \A v \in Ids : VendorLines(text, v, pos + 1) = VendorLines(text, v, pos)
    BY <1>1, NoNewVendorLine
  <1>3. \A v, p \in Ids : ProductLines(text, v, p, pos + 1) = ProductLines(text, v, p, pos)
    BY <1>1, NoNewProductLine
  <1> QED
    BY <1>2, <1>3 DEF ParserInv, VendorsAsListed, ProductsUnderTheirVendor,
                      ProductImpliesVendor, vendor_name, product_name

\* A line below column 0 leaves the scope as it is.
LEMMA ScopeUnchanged ==
    ASSUME ParserInv, pos' = pos + 1, text' = text, UNCHANGED current_vendor,
           ~AtColumn0(text[pos + 1])
    PROVE  ScopeIsCurrent'
  <1>1. pos \in Nat
    BY DEF ParserInv, TypeOK
  <1>2. ASSUME NEW i
        PROVE  OpenScope(text, i, pos + 1) <=> OpenScope(text, i, pos)
    <2>1. OpenScope(text, i, pos + 1) => i # pos + 1
      BY DEF OpenScope, AtColumn0
    <2> QED
      BY <1>1, <2>1 DEF OpenScope
  <1>3. \A i : OpenScope(text, i, pos) => i \in 1..(pos + 1)
    BY <1>1 DEF OpenScope
  <1>4. text' = text /\ pos' = pos + 1 /\ current_vendor' = current_vendor
    OBVIOUS
  <1>5. CASE current_vendor = None
    BY <1>2, <1>4, <1>5 DEF ParserInv, ScopeIsCurrent, OpenScope
  <1>6. CASE current_vendor # None
    BY <1>2, <1>3, <1>4, <1>6 DEF ParserInv, ScopeIsCurrent
  <1> QED
    BY <1>5, <1>6

\* Comments, empty lines and interfaces.
LEMMA SkipLineStep == ParserInv /\ SkipLine => ParserInv'
  <1> SUFFICES ASSUME ParserInv, SkipLine
               PROVE  ParserInv'
    OBVIOUS
  <1>1. /\ text' = text /\ pos' = pos + 1 /\ pos' \in 0..Len(text)
        /\ Kind(text[pos + 1]) = "skipped"
        /\ UNCHANGED <<current_vendor, vendors, products>>
    BY ConsumedLine DEF SkipLine
  <1>2. ScopeIsCurrent'
    BY <1>1, ScopeUnchanged DEF AtColumn0
  <1>3. VendorsAsListed' /\ ProductsUnderTheirVendor' /\ ProductImpliesVendor'
    BY <1>1, NamesUnchanged
  <1> QED
    BY <1>1, <1>2, <1>3 DEF ParserInv, TypeOK, CurrentVendorListed, vendor_name

\* A product without a vendor in scope, and what is no product.
LEMMA DropProductStep == ParserInv /\ DropProduct => ParserInv'
  <1> SUFFICES ASSUME ParserInv, DropProduct
               PROVE  ParserInv'
    OBVIOUS
  <1>1. /\ text' = text /\ pos' = pos + 1 /\ pos' \in 0..Len(text)
        /\ Kind(text[pos + 1]) \in {"garbled", "product"}
        /\ Kind(text[pos + 1]) = "product" => current_vendor = None
        /\ UNCHANGED <<current_vendor, vendors, products>>
    BY ConsumedLine DEF DropProduct
  <1>2. ScopeIsCurrent'
    BY <1>1, ScopeUnchanged DEF AtColumn0
  <1>3. current_vendor = None => \A i : ~OpenScope(text, i, pos)
    BY DEF ParserInv, ScopeIsCurrent, OpenScope
  <1>4. VendorsAsListed' /\ ProductsUnderTheirVendor' /\ ProductImpliesVendor'
    BY <1>1, <1>3, NamesUnchanged
  <1> QED
    BY <1>1, <1>2, <1>4 DEF ParserInv, TypeOK, CurrentVendorListed, vendor_name

\* A product of the vendor in scope.
\* A line that lists something has an id and a name.
LEMMA ListedLine ==
    ASSUME NEW l \in Lines, Kind(l) \in {"product", "vendor"}
    PROVE  l.id \in Ids /\ l.name \in Names
  <1>1. parse_id_line(l)
    BY DEF Kind, Lines, Places
  <1> QED
    BY <1>1 DEF parse_id_line, Lines, Optional

LEMMA AddProductStep == ParserInv /\ AddProduct => ParserInv'
  <1> SUFFICES ASSUME ParserInv, AddProduct
               PROVE  ParserInv'
    OBVIOUS
  <1> DEFINE l == text[pos + 1]
             cv == current_vendor
  <1>1. /\ text \in Seq(Lines) /\ text' = text
        /\ pos \in Nat /\ pos' = pos + 1 /\ pos' \in 0..Len(text)
        /\ l \in Lines /\ Kind(l) = "product"
        /\ UNCHANGED <<current_vendor, vendors>>
    BY ConsumedLine DEF AddProduct
  <1>2. cv \in Ids /\ l.id \in Ids /\ l.name \in Names
    BY <1>1, ListedLine DEF ParserInv, TypeOK, Optional, AddProduct
  <1>3. PICK s : OpenScope(text, s, pos) /\ text[s].id = cv
    BY <1>2, NoneIsNoId DEF ParserInv, ScopeIsCurrent
  <1>4. /\ products' \in [Ids \X Ids -> Optional(Names)]
        /\ \A v, p \in Ids : products'[<<v, p>>] =
              IF v = cv /\ p = l.id THEN l.name ELSE products[<<v, p>>]
    BY <1>1, <1>2 DEF AddProduct, ParserInv, TypeOK, Optional
  <1>5. ScopeIsCurrent'
    BY <1>1, ScopeUnchanged DEF AtColumn0
  <1>6. VendorsAsListed'
    <2>1. \A v \in Ids : VendorLines(text, v, pos + 1) = VendorLines(text, v, pos)
      BY <1>1, NoNewVendorLine
    <2> QED
      BY <1>1, <2>1 DEF ParserInv, VendorsAsListed, vendor_name
  <1>7. ProductsUnderTheirVendor'
    <2> SUFFICES ASSUME NEW v \in Ids, NEW p \in Ids
                 PROVE  IsLastName(text, products'[<<v, p>>], ProductLines(text, v, p, pos + 1))
      BY <1>1, NoneIsNoId DEF ProductsUnderTheirVendor, product_name
    <2>1. CASE v = cv /\ p = l.id
      BY <1>1, <1>3, <1>4, <2>1, NewProductLine
    <2>2. CASE ~(v = cv /\ p = l.id)
      <3>1. v # cv => \A i : OpenScope(text, i, pos) => text[i].id # v
        BY <1>1, <1>3, OneOpenScope
      <3>2. ProductLines(text, v, p, pos + 1) = ProductLines(text, v, p, pos)
        BY <1>1, <2>2, <3>1, NoNewProductLine
      <3>3. IsLastName(text, products[<<v, p>>], ProductLines(text, v, p, pos))
        BY NoneIsNoId DEF ParserInv, ProductsUnderTheirVendor, product_name
      <3> QED
        BY <1>4, <2>2, <3>2, <3>3
    <2> QED
      BY <2>1, <2>2
  <1>8. ProductImpliesVendor'
    <2>1. \A v, p \in Ids : products[<<v, p>>] # None => vendors[v] # None
      BY NoneIsNoId DEF ParserInv, ProductImpliesVendor, product_name, vendor_name
    <2>2. vendors[cv] # None
      BY <1>2, NoneIsNoId DEF ParserInv, CurrentVendorListed, vendor_name
    <2>3. \A v, p \in Ids : products'[<<v, p>>] # None => vendors[v] # None
      BY <1>4, <2>1, <2>2
    <2> QED
      BY <1>1, <2>3, NoneIsNoId DEF ProductImpliesVendor, product_name, vendor_name
  <1> QED
    BY <1>1, <1>4, <1>5, <1>6, <1>7, <1>8
       DEF ParserInv, TypeOK, CurrentVendorListed, vendor_name

\* A vendor's line opens its scope and closes the one before.
LEMMA AddVendorStep == ParserInv /\ AddVendor => ParserInv'
  <1> SUFFICES ASSUME ParserInv, AddVendor
               PROVE  ParserInv'
    OBVIOUS
  <1> DEFINE l == text[pos + 1]
  <1>1. /\ text \in Seq(Lines) /\ text' = text
        /\ pos \in Nat /\ pos' = pos + 1 /\ pos' \in 0..Len(text)
        /\ l \in Lines /\ Kind(l) = "vendor"
        /\ current_vendor' = l.id
        /\ UNCHANGED products
    BY ConsumedLine DEF AddVendor
  <1>2. l.id \in Ids /\ l.name \in Names
    BY <1>1, ListedLine
  <1>3. /\ vendors' \in [Ids -> Optional(Names)]
        /\ \A v \in Ids : vendors'[v] = IF v = l.id THEN l.name ELSE vendors[v]
    BY <1>2 DEF AddVendor, ParserInv, TypeOK, Optional
  <1>4. ScopeIsCurrent'
    <2>1. OpenScope(text, pos + 1, pos + 1)
      BY <1>1 DEF OpenScope
    <2> QED
      BY <1>1, <1>2, <2>1, NoneIsNoId DEF ScopeIsCurrent
  <1>5. VendorsAsListed'
    <2> SUFFICES ASSUME NEW v \in Ids
                 PROVE  IsLastName(text, vendors'[v], VendorLines(text, v, pos + 1))
      BY <1>1, NoneIsNoId DEF VendorsAsListed, vendor_name
    <2>1. CASE v = l.id
      BY <1>1, <1>3, <2>1, NewVendorLine
    <2>2. CASE v # l.id
      <3>1. VendorLines(text, v, pos + 1) = VendorLines(text, v, pos)
        BY <1>1, <2>2, NoNewVendorLine
      <3>2. IsLastName(text, vendors[v], VendorLines(text, v, pos))
        BY NoneIsNoId DEF ParserInv, VendorsAsListed, vendor_name
      <3> QED
        BY <1>3, <2>2, <3>1, <3>2
    <2> QED
      BY <2>1, <2>2
  <1>6. ProductsUnderTheirVendor'
    <2>1. \A v, p \in Ids : ProductLines(text, v, p, pos + 1) = ProductLines(text, v, p, pos)
      BY <1>1, NoNewProductLine
    <2> QED
      BY <1>1, <2>1 DEF ParserInv, ProductsUnderTheirVendor, product_name
  <1>7. \A v \in Ids : vendors[v] # None => vendors'[v] # None
    BY <1>2, <1>3, NoneIsNoName
  <1>8. ProductImpliesVendor'
    BY <1>1, <1>7, NoneIsNoId DEF ParserInv, ProductImpliesVendor, product_name, vendor_name
  <1>9. CurrentVendorListed'
    BY <1>1, <1>2, <1>3, NoneIsNoName, NoneIsNoId DEF CurrentVendorListed, vendor_name
  <1> QED
    BY <1>1, <1>2, <1>3, <1>4, <1>5, <1>6, <1>8, <1>9 DEF ParserInv, TypeOK, Optional

\* A section header leaves no vendor in scope.
LEMMA EndScopeStep == ParserInv /\ EndScope => ParserInv'
  <1> SUFFICES ASSUME ParserInv, EndScope
               PROVE  ParserInv'
    OBVIOUS
  <1>1. /\ text' = text /\ pos \in Nat /\ pos' = pos + 1 /\ pos' \in 0..Len(text)
        /\ Kind(text[pos + 1]) = "section"
        /\ current_vendor' = None
        /\ UNCHANGED <<vendors, products>>
    BY ConsumedLine DEF EndScope
  <1>2. \A i : ~OpenScope(text, i, pos + 1)
    BY <1>1 DEF OpenScope, AtColumn0
  <1>3. ScopeIsCurrent' /\ CurrentVendorListed'
    BY <1>1, <1>2 DEF ScopeIsCurrent, CurrentVendorListed
  <1>4. VendorsAsListed' /\ ProductsUnderTheirVendor' /\ ProductImpliesVendor'
    BY <1>1, NamesUnchanged
  <1> QED
    BY <1>1, <1>3, <1>4 DEF ParserInv, TypeOK, Optional

\* A step that reads no line.
LEMMA ParserStutter == ParserInv /\ UNCHANGED vars => ParserInv'
  BY DEF vars, ParserInv, TypeOK, ScopeIsCurrent, CurrentVendorListed, VendorsAsListed,
         ProductsUnderTheirVendor, ProductImpliesVendor, vendor_name, product_name

-----------------------------------------------------------------------------
\* Whatever the file: the parser's inductive invariant holds in every state.
THEOREM ParserCorrect == Spec => []ParserInv
  <1>1. ParserInv /\ [Next]_vars => ParserInv'
    BY SkipLineStep, AddProductStep, DropProductStep, AddVendorStep, EndScopeStep,
       ParserStutter DEF Next
  <1> QED
    BY ParserInit, <1>1, PTL DEF Spec

\* Type correctness of the parser, for every file.
THEOREM TypeCorrect == Spec => []TypeOK
  BY ParserCorrect, PTL DEF ParserInv

\* A vendor lookup answers the last name the file gives the id.
THEOREM VendorsCorrect == Spec => []VendorsAsListed
  BY ParserCorrect, PTL DEF ParserInv

\* A product lookup answers the last name listed in a scope of its own vendor.
THEOREM ProductsCorrect == Spec => []ProductsUnderTheirVendor
  BY ParserCorrect, PTL DEF ParserInv

\* No product name without a vendor name.
THEOREM ProductsHaveVendors == Spec => []ProductImpliesVendor
  BY ParserCorrect, PTL DEF ParserInv
=============================================================================
