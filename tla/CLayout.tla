------------------------------ MODULE CLayout -------------------------------
(***************************************************************************)
(* How a C compiler lays out a struct: every field at the next multiple of *)
(* its alignment, the whole a multiple of the largest.  A struct is its    *)
(* fields, named and typed, and the size the source asserts of it; no      *)
(* struct of Euthenia is packed.  Of the machines it may be compiled for   *)
(* it matters whether a uint64_t is aligned to 8 bytes or, as on a 32 bit  *)
(* x86, to 4: a type has its size and alignment on each.                   *)
(***************************************************************************)
EXTENDS Integers, Sequences, FiniteSetsExt

Machines == {"align8", "align4"}
On(f(_)) == [align8 |-> f("align8"), align4 |-> f("align4")]

Basic(n) == [size |-> On(LAMBDA m : n), align |-> On(LAMBDA m : n)]
U8  == Basic(1)
U16 == Basic(2)
U32 == Basic(4)
U64 == [Basic(8) EXCEPT !.align["align4"] = 4]

Array(type, n) == [type EXCEPT !.size = On(LAMBDA m : n * type.size[m])]
Bytes(n) == Array(U8, n)

Type(s, k) == s.fields[k][2]
Fields(s) == DOMAIN s.fields

AlignUp(n, a) == ((n + a - 1) \div a) * a

\* Where the k-th field ends on the wire: the fields follow one another.
WireEnd(s) ==
  LET end[k \in 0 .. Len(s.fields)] ==
        IF k = 0 THEN 0 ELSE end[k - 1] + Type(s, k).size["align8"]
  IN  end

\* Where the k-th field ends in the memory of machine m.
End(s, m) ==
  LET end[k \in 0 .. Len(s.fields)] ==
        IF k = 0 THEN 0
        ELSE AlignUp(end[k - 1], Type(s, k).align[m]) + Type(s, k).size[m]
  IN  end

alignof(s, m) == Max({Type(s, k).align[m] : k \in Fields(s)})
sizeof(s, m) == AlignUp(End(s, m)[Len(s.fields)], alignof(s, m))

Place(s, name) == CHOOSE k \in Fields(s) : s.fields[k][1] = name
fieldsize(s, name, m) == Type(s, Place(s, name)).size[m]
offsetof(s, name, m) == End(s, m)[Place(s, name)] - fieldsize(s, name, m)

Struct(s) == [size |-> On(LAMBDA m : sizeof(s, m)), align |-> On(LAMBDA m : alignof(s, m))]

\* The struct has the size asserted of it, and every field is where it is on
\* the wire.
LaidOutAsAsserted(s, m) == sizeof(s, m) = s.size /\ End(s, m) = WireEnd(s)
=============================================================================
