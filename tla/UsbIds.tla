------------------------------- MODULE UsbIds -------------------------------
(***************************************************************************)
(* The usb.ids parser of core/src/usb_ids.rs: one pass over the lines, a   *)
(* vendor in scope, and two maps the lookups read.  A later line for the   *)
(* same id overwrites an earlier one (BTreeMap insert).                    *)
(*                                                                         *)
(* A line is reduced to where it stands and to what follows:               *)
(*   place  skipped (empty, a comment, an interface with its two tabs),    *)
(*          tabbed (one tab) or column0                                    *)
(*   id     the number of its first four characters, None unless they are  *)
(*          one and two spaces follow                                      *)
(*   name   the rest, without the blanks at its end                        *)
(***************************************************************************)
EXTENDS Naturals, Sequences

CONSTANTS Ids,     \* 16-bit vendor and product ids
          Names,   \* vendor and product names
          None     \* Rust's Option::None

ASSUME NoneIsNoId == None \notin Ids
ASSUME NoneIsNoName == None \notin Names
ASSUME EmptyIsNoName == "" \notin Names

Optional(S) == S \cup {None}

Places == {"skipped", "tabbed", "column0"}
Lines == [place : Places, id : Optional(Ids), name : Names \cup {""}]

\* Mutant: an id line need not name anything.
parse_id_lineUnnamed(l) == l.id # None

\* Whether the line lists an id.
parse_id_line(l) == l.id # None /\ l.name # ""

\* The branch of the parser a line takes.
Kind(l) ==
    CASE l.place = "skipped" -> "skipped"
      [] l.place = "tabbed"  -> IF parse_id_line(l) THEN "product" ELSE "garbled"
      [] l.place = "column0" -> IF parse_id_line(l) THEN "vendor" ELSE "section"

VARIABLES text,            \* the lines of the file
          pos,             \* lines consumed so far
          current_vendor,  \* the vendor in scope, or None
          vendors,         \* vendor id -> name
          products         \* vendor id, product id -> name

vars == <<text, pos, current_vendor, vendors, products>>

-----------------------------------------------------------------------------
StartParser ==
    /\ pos = 0
    /\ current_vendor = None
    /\ vendors = [v \in Ids |-> None]
    /\ products = [vp \in Ids \X Ids |-> None]

Init == text \in Seq(Lines) /\ StartParser

Consume(kinds) ==
    /\ pos < Len(text)
    /\ Kind(text[pos + 1]) \in kinds
    /\ pos' = pos + 1
    /\ UNCHANGED text

SkipLine ==
    /\ Consume({"skipped"})
    /\ UNCHANGED <<current_vendor, vendors, products>>

\* Mutant: a product also enters the table under no vendor's scope, by the id
\* it has itself.
AddProductAnyScope ==
    LET l == text[pos + 1]
        v == IF current_vendor = None THEN l.id ELSE current_vendor IN
    /\ Consume({"product"})
    /\ products' = [products EXCEPT ![<<v, l.id>>] = l.name]
    /\ UNCHANGED <<current_vendor, vendors>>

AddProduct ==
    /\ Consume({"product"})
    /\ current_vendor # None
    /\ products' = [products EXCEPT ![<<current_vendor, text[pos + 1].id>>] =
                                       text[pos + 1].name]
    /\ UNCHANGED <<current_vendor, vendors>>

DropProduct ==
    /\ \/ Consume({"garbled"})
       \/ Consume({"product"}) /\ current_vendor = None
    /\ UNCHANGED <<current_vendor, vendors, products>>

\* Mutant: the scope is only opened for a vendor not listed before.
AddVendorOnce ==
    LET v == text[pos + 1].id IN
    /\ Consume({"vendor"})
    /\ vendors' = [vendors EXCEPT ![v] = text[pos + 1].name]
    /\ current_vendor' = IF vendors[v] = None THEN v ELSE current_vendor
    /\ UNCHANGED products

\* Mutant: the first name listed is kept.
AddVendorFirstName ==
    LET v == text[pos + 1].id IN
    /\ Consume({"vendor"})
    /\ vendors' = IF vendors[v] = None
                  THEN [vendors EXCEPT ![v] = text[pos + 1].name] ELSE vendors
    /\ current_vendor' = v
    /\ UNCHANGED products

AddVendor ==
    /\ Consume({"vendor"})
    /\ vendors' = [vendors EXCEPT ![text[pos + 1].id] = text[pos + 1].name]
    /\ current_vendor' = text[pos + 1].id
    /\ UNCHANGED products

\* Mutant: a section header is skipped like a comment.
SkipSection ==
    /\ Consume({"section"})
    /\ UNCHANGED <<current_vendor, vendors, products>>

\* A column-0 line that is not a vendor ends the vendor's scope.
EndScope ==
    /\ Consume({"section"})
    /\ current_vendor' = None
    /\ UNCHANGED <<vendors, products>>

Next == SkipLine \/ AddProduct \/ DropProduct \/ AddVendor \/ EndScope
Spec == Init /\ [][Next]_vars

\* The lookups: a product needs both ids of the connection.
vendor_name(vid) == IF vid = None THEN None ELSE vendors[vid]
product_name(vid, pid) == IF None \in {vid, pid} THEN None ELSE products[<<vid, pid>>]

-----------------------------------------------------------------------------
(* What the file says, said of a text t alone. *)

AtColumn0(l) == Kind(l) \in {"vendor", "section"}

\* Line i is the vendor whose scope line j is in.
ScopeOf(t, i, j) ==
    /\ i < j
    /\ Kind(t[i]) = "vendor"
    /\ \A m \in (i + 1)..j : ~AtColumn0(t[m])

\* The lines that name vendor v, and those that name product p of vendor v.
VendorLines(t, v, n) == {j \in 1..n : Kind(t[j]) = "vendor" /\ t[j].id = v}

ProductLines(t, v, p, n) ==
    {j \in 1..n : /\ Kind(t[j]) = "product"
                  /\ t[j].id = p
                  /\ \E i \in 1..n : t[i].id = v /\ ScopeOf(t, i, j)}

\* A name is that of the last of these lines, or absent without any.
IsLastName(t, name, lines) ==
    \/ name = None /\ lines = {}
    \/ \E j \in lines : name = t[j].name /\ \A k \in lines : k <= j

-----------------------------------------------------------------------------
(* Properties *)

\* The parser's variables keep their shapes.
TypeOK ==
    /\ text \in Seq(Lines)
    /\ pos \in 0..Len(text)
    /\ current_vendor \in Optional(Ids)
    /\ vendors \in [Ids -> Optional(Names)]
    /\ products \in [Ids \X Ids -> Optional(Names)]

\* A vendor lookup answers the last name the file gives that id (parse,
\* vendor_name).
VendorsAsListed ==
    \A v \in Ids : IsLastName(text, vendor_name(v), VendorLines(text, v, pos))

\* A product lookup answers the last name listed for that product id in a scope
\* of that vendor, however often the scope is left and reopened: a product in a
\* class section or before any vendor is nobody's (parse, product_name).
ProductsUnderTheirVendor ==
    \A v, p \in Ids :
        IsLastName(text, product_name(v, p), ProductLines(text, v, p, pos))

\* Whenever a product resolves its vendor does too: an analyst never sees a
\* product name without a vendor name.
ProductImpliesVendor ==
    \A v, p \in Ids : product_name(v, p) # None => vendor_name(v) # None

-----------------------------------------------------------------------------
(* The inductive invariant: the properties above and what they rest on. *)

\* Line i is the vendor whose scope is still open after n lines.
OpenScope(t, i, n) ==
    /\ i \in 1..n
    /\ Kind(t[i]) = "vendor"
    /\ \A m \in (i + 1)..n : ~AtColumn0(t[m])

\* The vendor in scope is that of the file's open scope; there is none without.
ScopeIsCurrent ==
    IF current_vendor = None
    THEN \A i \in 1..pos : ~OpenScope(text, i, pos)
    ELSE \E i \in 1..pos : OpenScope(text, i, pos) /\ text[i].id = current_vendor

CurrentVendorListed == current_vendor # None => vendor_name(current_vendor) # None

ParserInv ==
    /\ TypeOK
    /\ ScopeIsCurrent
    /\ CurrentVendorListed
    /\ VendorsAsListed
    /\ ProductsUnderTheirVendor
    /\ ProductImpliesVendor
=============================================================================
