----------------------------- MODULE WireProofs -----------------------------
(***************************************************************************)
(* What Wire's run shows on a few values, for all of them: both machines,  *)
(* both byte orders, every type, xid, port and counter.                    *)
(*                                                                         *)
(*   - the layout of every struct: End and WireEnd satisfy the equations   *)
(*     that define them, and agree on every struct without a gap;          *)
(*   - the assignments, with their offsets computed from the layouts;      *)
(*   - a byte of the memory is what was last assigned to it;               *)
(*   - the reader has always read, in order, what was meant.               *)
(***************************************************************************)
EXTENDS Wire, SequenceTheorems, FiniteSetTheorems, WellFoundedInduction, TLAPS

-----------------------------------------------------------------------------
(* Induction over the natural numbers, by their least element; the library's
   induction theorems cannot be cited. *)

\* Every set of naturals has a least element.
LEMMA Least ==
  ASSUME NEW T, T \subseteq Nat, T # {}
  PROVE  \E n \in T : \A k \in T : n <= k
  <1>1. \E n \in T : \A k \in T : ~ (<<k, n>> \in OpToRel(<, Nat))
    BY NatLessThanWellFounded, WFMin, Zenon
  <1>2. PICK n \in T : \A k \in T : ~ (<<k, n>> \in OpToRel(<, Nat))
    BY <1>1
  <1>3. ASSUME NEW k \in T PROVE n <= k
    <2>1. ~ (<<k, n>> \in OpToRel(<, Nat))
      BY <1>2
    <2>2. ~ (k < n)
      BY <2>1, Zenon DEF OpToRel
    <2> QED
      BY <2>2
  <1> QED
    BY <1>3

-----------------------------------------------------------------------------
(* The layout of a struct exists, and End is it. *)

Layout(s, m, n, end) ==
  end = [k \in 0 .. n |->
           IF k = 0 THEN 0
           ELSE AlignUp(end[k - 1], Type(s, k).align[m]) + Type(s, k).size[m]]

\* End is the layout that CHOOSE finds.
LEMMA EndChosen == \A s, m : End(s, m) = CHOOSE end : Layout(s, m, Len(s.fields), end)
  BY DEF End, Layout

\* A layout of n fields goes on to n + 1.
LEMMA LayoutGoesOn ==
  ASSUME NEW s, NEW m, NEW n \in Nat, NEW e, Layout(s, m, n, e)
  PROVE  \E f : Layout(s, m, n + 1, f)
  <1> DEFINE last == AlignUp(e[n], Type(s, n + 1).align[m]) + Type(s, n + 1).size[m]
             f == [k \in 0 .. n + 1 |-> IF k = n + 1 THEN last ELSE e[k]]
  <1> HIDE DEF last
  <1>1. \A k \in 0 .. n : f[k] = e[k]
    OBVIOUS
  <1>2. f[n + 1] = last
    OBVIOUS
  <1>3. e = [k \in 0 .. n |-> IF k = 0 THEN 0
           ELSE AlignUp(e[k - 1], Type(s, k).align[m]) + Type(s, k).size[m]]
    BY DEF Layout
  <1>4. ASSUME NEW k \in 0 .. n + 1
        PROVE  f[k] = IF k = 0 THEN 0
                      ELSE AlignUp(f[k - 1], Type(s, k).align[m]) + Type(s, k).size[m]
    <2>1. CASE k = n + 1
      BY <1>1, <1>2, <2>1 DEF last
    <2>2. CASE k # n + 1
      <3>1. k \in 0 .. n /\ (k # 0 => k - 1 \in 0 .. n)
        BY <2>2
      <3>2. e[k] = IF k = 0 THEN 0
           ELSE AlignUp(e[k - 1], Type(s, k).align[m]) + Type(s, k).size[m]
        BY <1>3, <3>1
      <3>3. f[k] = e[k] /\ (k # 0 => f[k - 1] = e[k - 1])
        BY <1>1, <3>1
      <3> HIDE DEF f
      <3> QED
        BY <3>2, <3>3
    <2> QED
      BY <2>1, <2>2
  <1>5. f = [k \in 0 .. n + 1 |-> f[k]]
    OBVIOUS
  <1> HIDE DEF f
  <1>6. f = [k \in 0 .. n + 1 |-> IF k = 0 THEN 0
           ELSE AlignUp(f[k - 1], Type(s, k).align[m]) + Type(s, k).size[m]]
    BY <1>4, <1>5
  <1> QED
    BY <1>6 DEF Layout

\* A struct of any number of fields has a layout.
LEMMA LayoutExists ==
  ASSUME NEW s, NEW m, NEW n \in Nat
  PROVE  \E e : Layout(s, m, n, e)
  <1> DEFINE T == {k \in Nat : ~ \E e : Layout(s, m, k, e)}
  <1>1. SUFFICES ASSUME T # {} PROVE FALSE
    OBVIOUS
  <1>2. PICK k \in T : \A j \in T : k <= j
    BY <1>1, Least
  <1>3. CASE k = 0
    <2>1. Layout(s, m, 0, [j \in 0 .. 0 |-> 0])
      BY DEF Layout
    <2> QED
      BY <1>2, <1>3, <2>1
  <1>4. CASE k # 0
    <2>1. k - 1 \in Nat /\ k - 1 \notin T
      BY <1>2, <1>4
    <2>2. \E e : Layout(s, m, k - 1, e)
      BY <2>1
    <2>3. \E e : Layout(s, m, (k - 1) + 1, e)
      BY <2>1, <2>2, LayoutGoesOn
    <2>4. (k - 1) + 1 = k
      BY <2>1
    <2> QED
      BY <1>2, <2>3, <2>4
  <1> QED
    BY <1>3, <1>4

\* End satisfies the equation that defines it.
LEMMA EndEquation ==
  ASSUME NEW s, NEW m, Len(s.fields) \in Nat
  PROVE  /\ End(s, m)[0] = 0
         /\ \A k \in 1 .. Len(s.fields) :
              End(s, m)[k] = AlignUp(End(s, m)[k - 1], Type(s, k).align[m]) + Type(s, k).size[m]
         /\ DOMAIN End(s, m) = 0 .. Len(s.fields)
         /\ End(s, m) = [k \in 0 .. Len(s.fields) |-> End(s, m)[k]]
  <1>1. \E e : Layout(s, m, Len(s.fields), e)
    BY LayoutExists
  <1>2. Layout(s, m, Len(s.fields), End(s, m))
    BY <1>1, EndChosen, Zenon
  <1> DEFINE e == End(s, m)
  <1> HIDE DEF e
  <1>3. e = [k \in 0 .. Len(s.fields) |-> IF k = 0 THEN 0
           ELSE AlignUp(e[k - 1], Type(s, k).align[m]) + Type(s, k).size[m]]
    BY <1>2 DEF e, Layout
  <1> QED
    BY <1>3 DEF e

-----------------------------------------------------------------------------
(* Structs without a gap. *)

Alignments == {1, 2, 4, 8}

\* A type of this size; its alignment is at most align.
Has(t, size, align) ==
  \A m \in Machines :
    t.size[m] = size /\ t.align[m] \in Alignments /\ t.align[m] <= align

\* The fields of s end at ends and are aligned to aligns, with no gap anywhere.
Packed(s, n, ends, aligns, a) ==
  /\ n \in Nat \ {0} /\ a \in Alignments
  /\ DOMAIN s.fields = 1 .. n /\ Len(s.fields) = n
  /\ \A k \in 1 .. n :
       LET from == IF k = 1 THEN 0 ELSE ends[k - 1]
       IN  /\ ends[k] \in Nat /\ aligns[k] \in Alignments /\ aligns[k] <= a
           /\ from <= ends[k] /\ from % aligns[k] = 0
           /\ Has(Type(s, k), ends[k] - from, aligns[k])
  /\ s.size = ends[n] /\ s.size % a = 0

\* A multiple of an alignment is aligned to every smaller one.
LEMMA Aligned ==
  ASSUME NEW n \in Nat, NEW a \in Alignments, NEW b \in Alignments, b <= a, n % a = 0
  PROVE  AlignUp(n, b) = n
  BY DEF Alignments, AlignUp

\* The basic types.
LEMMA HasBasic ==
  /\ Has(U8, 1, 1) /\ Has(U16, 2, 2) /\ Has(U32, 4, 4) /\ Has(U64, 8, 8)
  /\ \A n \in Nat : Has(Bytes(n), n, 1)
  <1>1. /\ Has(U8, 1, 1) /\ Has(U16, 2, 2) /\ Has(U32, 4, 4) /\ Has(U64, 8, 8)
    BY DEF Has, Machines, U8, U16, U32, U64, Basic, On, Alignments
  <1>2. ASSUME NEW n \in Nat PROVE Has(Bytes(n), n, 1)
    BY DEF Has, Machines, U8, Basic, On, Bytes, Array, Alignments
  <1> QED
    BY <1>1, <1>2

\* An array of n of a type.
LEMMA HasArray ==
  ASSUME NEW t, t = [size |-> t.size, align |-> t.align], NEW n \in Nat, NEW size \in Nat, NEW align, Has(t, size, align)
  PROVE  Has(Array(t, n), n * size, align)
    BY DEF Has, Machines, On, Array, Alignments


\* WireEnd satisfies the equation that defines it: it is the layout of a
\* machine that aligns nothing.
LEMMA WireEquation ==
  ASSUME NEW s, Len(s.fields) \in Nat
  PROVE  /\ WireEnd(s)[0] = 0
         /\ \A k \in 1 .. Len(s.fields) :
              WireEnd(s)[k] = WireEnd(s)[k - 1] + Type(s, k).size["align8"]
         /\ DOMAIN WireEnd(s) = 0 .. Len(s.fields)
         /\ WireEnd(s) = [k \in 0 .. Len(s.fields) |-> WireEnd(s)[k]]
  <1> DEFINE Flat(n, e) == e = [k \in 0 .. n |-> IF k = 0 THEN 0
                                   ELSE e[k - 1] + Type(s, k).size["align8"]]
  <1>1. ASSUME NEW n \in Nat, NEW e, Flat(n, e)
        PROVE  \E f : Flat(n + 1, f)
    <2> DEFINE last == e[n] + Type(s, n + 1).size["align8"]
               f == [k \in 0 .. n + 1 |-> IF k = n + 1 THEN last ELSE e[k]]
    <2> HIDE DEF last
    <2>1. f[n + 1] = last /\ \A k \in 0 .. n : f[k] = e[k]
      OBVIOUS
    <2>2. ASSUME NEW k \in 0 .. n
          PROVE  e[k] = IF k = 0 THEN 0 ELSE e[k - 1] + Type(s, k).size["align8"]
      BY <1>1
    <2>3. ASSUME NEW k \in 0 .. n + 1
          PROVE  f[k] = IF k = 0 THEN 0 ELSE f[k - 1] + Type(s, k).size["align8"]
      <3>1. CASE k = n + 1
        BY <2>1, <3>1 DEF last
      <3>2. CASE k # n + 1
        <4>1. k \in 0 .. n /\ (k # 0 => k - 1 \in 0 .. n)
          BY <3>2
        <4> HIDE DEF f
        <4> QED
          BY <2>1, <2>2, <4>1
      <3> QED
        BY <3>1, <3>2
    <2>4. f = [k \in 0 .. n + 1 |-> f[k]]
      OBVIOUS
    <2> HIDE DEF f
    <2>5. Flat(n + 1, f)
      BY <2>3, <2>4
    <2> QED
      BY <2>5
  <1> DEFINE T == {k \in Nat : ~ \E e : Flat(k, e)}
  <1>2. ASSUME T # {} PROVE FALSE
    <2>1. PICK k \in T : \A j \in T : k <= j
      BY <1>2, Least
    <2>2. CASE k = 0
      <3>1. Flat(0, [j \in 0 .. 0 |-> 0])
        OBVIOUS
      <3> QED
        BY <2>1, <2>2, <3>1
    <2>3. CASE k # 0
      <3>1. k - 1 \in Nat /\ k - 1 \notin T /\ (k - 1) + 1 = k
        BY <2>1, <2>3
      <3> HIDE DEF Flat
      <3>2. PICK e : Flat(k - 1, e)
        BY <3>1
      <3>3. \E f : Flat((k - 1) + 1, f)
        BY <1>1, <3>1, <3>2
      <3> QED
        BY <2>1, <3>1, <3>3
    <2> QED
      BY <2>2, <2>3
  <1>3. \E e : Flat(Len(s.fields), e)
    BY <1>2
  <1>4. WireEnd(s) = CHOOSE e : Flat(Len(s.fields), e)
    BY DEF WireEnd
  <1>5. Flat(Len(s.fields), WireEnd(s))
    <2> HIDE DEF Flat
    <2> QED
      BY <1>3, <1>4, Zenon
  <1> DEFINE e == WireEnd(s)
  <1> HIDE DEF e
  <1>6. e = [k \in 0 .. Len(s.fields) |-> IF k = 0 THEN 0
                                   ELSE e[k - 1] + Type(s, k).size["align8"]]
    BY <1>5 DEF e
  <1> QED
    BY <1>6 DEF e

\* A packed struct is laid out as its fields follow one another.
LEMMA PackedEnds ==
  ASSUME NEW s, NEW n, NEW ends, NEW aligns, NEW a, Packed(s, n, ends, aligns, a),
         NEW m \in Machines
  PROVE  /\ DOMAIN End(s, m) = 0 .. n /\ DOMAIN WireEnd(s) = 0 .. n
         /\ End(s, m)[0] = 0 /\ WireEnd(s)[0] = 0
         /\ \A k \in 1 .. n : End(s, m)[k] = ends[k] /\ WireEnd(s)[k] = ends[k]
  <1> DEFINE e == End(s, m)
             w == WireEnd(s)
             T == {k \in Nat : k \in 1 .. n /\ ~ (e[k] = ends[k] /\ w[k] = ends[k])}
  <1>1. n \in Nat /\ Len(s.fields) = n /\ a \in Alignments
    BY DEF Packed
  <1>2. /\ e[0] = 0 /\ DOMAIN e = 0 .. n
        /\ \A k \in 1 .. n : e[k] = AlignUp(e[k - 1], Type(s, k).align[m]) + Type(s, k).size[m]
    BY <1>1, EndEquation
  <1>3. /\ w[0] = 0 /\ DOMAIN w = 0 .. n
        /\ \A k \in 1 .. n : w[k] = w[k - 1] + Type(s, k).size["align8"]
    BY <1>1, WireEquation
  <1> HIDE DEF e, w
  <1>4. ASSUME T # {} PROVE FALSE
    <2>1. PICK k \in T : \A j \in T : k <= j
      BY <1>4, Least
    <2> DEFINE from == IF k = 1 THEN 0 ELSE ends[k - 1]
    <2>2. k \in 1 .. n
      BY <2>1
    <2>3. e[k - 1] = from /\ w[k - 1] = from /\ from \in Nat
      <3>1. CASE k = 1
        BY <1>2, <1>3, <3>1
      <3>2. CASE k # 1
        <4>1. k - 1 \in 1 .. n /\ k - 1 \notin T /\ k - 1 \in Nat
          BY <1>1, <2>1, <2>2, <3>2
        <4>2. ends[k - 1] \in Nat
          BY <4>1 DEF Packed
        <4> QED
          BY <3>2, <4>1, <4>2
      <3> QED
        BY <3>1, <3>2
    <2>4. /\ ends[k] \in Nat /\ aligns[k] \in Alignments /\ from <= ends[k]
          /\ from % aligns[k] = 0 /\ Has(Type(s, k), ends[k] - from, aligns[k])
      BY <2>2 DEF Packed
    <2> HIDE DEF from
    <2>5. /\ Type(s, k).size[m] = ends[k] - from /\ Type(s, k).size["align8"] = ends[k] - from
          /\ Type(s, k).align[m] \in Alignments /\ Type(s, k).align[m] <= aligns[k]
      BY <2>4 DEF Has, Machines
    <2>6. AlignUp(from, Type(s, k).align[m]) = from
      BY <2>3, <2>4, <2>5, Aligned
    <2>7. e[k] = ends[k]
      BY <1>2, <2>2, <2>3, <2>4, <2>5, <2>6
    <2>8. w[k] = ends[k]
      BY <1>3, <2>2, <2>3, <2>4, <2>5
    <2> QED
      BY <2>1, <2>7, <2>8
  <1>5. \A k \in 1 .. n : k \in Nat
    BY <1>1
  <1> QED
    BY <1>2, <1>3, <1>4, <1>5 DEF e, w

\* So it has the size asserted of it, and it is a type of that size.
LEMMA PackedStruct ==
  ASSUME NEW s, NEW n, NEW ends, NEW aligns, NEW a, Packed(s, n, ends, aligns, a)
  PROVE  /\ \A m \in Machines : LaidOutAsAsserted(s, m) /\ sizeof(s, m) = s.size
         /\ Has(Struct(s), s.size, a)
  <1>1. ASSUME NEW m \in Machines
        PROVE  /\ sizeof(s, m) = s.size /\ End(s, m) = WireEnd(s)
               /\ alignof(s, m) \in Alignments /\ alignof(s, m) <= a
    <2> DEFINE S == {Type(s, k).align[m] : k \in Fields(s)}
    <2>1. /\ n \in Nat \ {0} /\ a \in Alignments /\ Fields(s) = 1 .. n /\ Len(s.fields) = n
          /\ s.size = ends[n] /\ s.size % a = 0 /\ ends[n] \in Nat
      BY DEF Packed, Fields
    <2>2. \A k \in 1 .. n : Type(s, k).align[m] \in Alignments /\ Type(s, k).align[m] <= a
      <3> TAKE k \in 1 .. n
      <3>1. /\ aligns[k] \in Alignments /\ aligns[k] <= a
            /\ Type(s, k).align[m] \in Alignments /\ Type(s, k).align[m] <= aligns[k]
        BY DEF Packed, Has
      <3> QED
        BY <2>1, <3>1 DEF Alignments
    <2>3. S \subseteq Alignments /\ S # {} /\ \A x \in S : x <= a
      BY <2>1, <2>2
    <2> HIDE DEF S
    <2>4. \E x \in S : \A y \in S : x >= y
      <3>1. CASE 8 \in S
        BY <2>3, <3>1 DEF Alignments
      <3>2. CASE 8 \notin S /\ 4 \in S
        BY <2>3, <3>2 DEF Alignments
      <3>3. CASE 8 \notin S /\ 4 \notin S /\ 2 \in S
        BY <2>3, <3>3 DEF Alignments
      <3>4. CASE 8 \notin S /\ 4 \notin S /\ 2 \notin S
        <4>1. S = {1}
          BY <2>3, <3>4 DEF Alignments
        <4> QED
          BY <4>1
      <3> QED
        BY <3>1, <3>2, <3>3, <3>4
    <2>5. alignof(s, m) = CHOOSE x \in S : \A y \in S : x >= y
      BY DEF alignof, Max, S
    <2>6. alignof(s, m) \in Alignments /\ alignof(s, m) <= a
      BY <2>3, <2>4, <2>5
    <2>7. End(s, m)[n] = s.size
      BY <2>1, PackedEnds
    <2>8. sizeof(s, m) = s.size
      BY <2>1, <2>6, <2>7, Aligned DEF sizeof
    <2>9. End(s, m) = WireEnd(s)
      <3> DEFINE e == End(s, m)
                 w == WireEnd(s)
      <3>1. DOMAIN e = 0 .. n /\ DOMAIN w = 0 .. n /\ \A k \in 0 .. n : e[k] = w[k]
        BY <2>1, PackedEnds
      <3>2. Len(s.fields) \in Nat
        BY <2>1
      <3>3. e = [k \in 0 .. n |-> e[k]] /\ w = [k \in 0 .. n |-> w[k]]
        BY <2>1, <3>2, EndEquation, WireEquation
      <3> HIDE DEF e, w
      <3>4. e = w
        BY <3>1, <3>3
      <3> QED
        BY <3>4 DEF e, w
    <2> QED
      BY <2>6, <2>8, <2>9
  <1>2. Has(Struct(s), s.size, a)
    BY <1>1 DEF Has, Struct, On, Machines
  <1> QED
    BY <1>1, <1>2 DEF LaidOutAsAsserted

-----------------------------------------------------------------------------
(* Every struct of openflow.h and header_defu.h has no gap: the ends of its
   fields, and their alignments.  Has_ says it of the type of a member. *)

\* A flexible array of a struct at the end of another.
LEMMA HasStructs ==
  ASSUME NEW s, NEW size \in Nat, NEW align, Has(Struct(s), size, align)
  PROVE  Has(Array(Struct(s), 0), 0, align)
  <1> DEFINE t == Struct(s)
  <1>1. t = [size |-> t.size, align |-> t.align]
    BY DEF Struct
  <1> HIDE DEF t
  <1>2. Has(t, size, align)
    BY DEF t
  <1>3. Has(Array(t, 0), 0 * size, align)
    BY <1>1, <1>2, HasArray
  <1> QED
    BY <1>3 DEF t

\* An array of uint32_t.
LEMMA HasU32s == \A n \in Nat : Has(Array(U32, n), 4 * n, 4)
  BY DEF Has, Machines, On, Array, U32, Basic, Alignments

LEMMA Packed_ofp_header ==
  Packed(ofp_header, 4, <<1, 2, 4, 8>>, <<1, 1, 2, 4>>, 4)
  BY HasBasic DEF Packed, ofp_header, Type, Alignments

LEMMA Has_ofp_header == Has(Struct(ofp_header), 8, 4)
  BY Packed_ofp_header, PackedStruct DEF ofp_header

LEMMA Packed_ofp_hello_elem_header ==
  Packed(ofp_hello_elem_header, 2, <<2, 4>>, <<2, 2>>, 2)
  BY HasBasic DEF Packed, ofp_hello_elem_header, Type, Alignments

LEMMA Has_ofp_hello_elem_header == Has(Struct(ofp_hello_elem_header), 4, 2)
  BY Packed_ofp_hello_elem_header, PackedStruct DEF ofp_hello_elem_header

LEMMA Packed_ofp_hello_elem_versionbitmap ==
  Packed(ofp_hello_elem_versionbitmap, 3, <<2, 4, 4>>, <<2, 2, 4>>, 4)
  BY HasBasic, HasU32s DEF Packed, ofp_hello_elem_versionbitmap, Type,
    Alignments

LEMMA Packed_ofp_hello ==
  Packed(ofp_hello, 2, <<8, 8>>, <<4, 2>>, 4)
  BY HasBasic, Has_ofp_header, Has_ofp_hello_elem_header, HasStructs DEF
    Packed, ofp_hello, Type, Alignments

LEMMA Packed_ofp_switch_config ==
  Packed(ofp_switch_config, 3, <<8, 10, 12>>, <<4, 2, 2>>, 4)
  BY HasBasic, Has_ofp_header DEF Packed, ofp_switch_config, Type, Alignments

LEMMA Packed_ofp_table_mod ==
  Packed(ofp_table_mod, 4, <<8, 9, 12, 16>>, <<4, 1, 1, 4>>, 4)
  BY HasBasic, Has_ofp_header DEF Packed, ofp_table_mod, Type, Alignments

LEMMA Packed_ofp_port ==
  Packed(ofp_port, 13, <<4, 8, 14, 16, 32, 36, 40, 44, 48, 52, 56, 60, 64>>,
    <<4, 1, 1, 1, 1, 4, 4, 4, 4, 4, 4, 4, 4>>, 4)
  BY HasBasic DEF Packed, ofp_port, Type, Alignments

LEMMA Has_ofp_port == Has(Struct(ofp_port), 64, 4)
  BY Packed_ofp_port, PackedStruct DEF ofp_port

LEMMA Packed_ofp_switch_features ==
  Packed(ofp_switch_features, 8, <<8, 16, 20, 21, 22, 24, 28, 32>>, <<4, 8, 4,
    1, 1, 1, 4, 4>>, 8)
  BY HasBasic, Has_ofp_header DEF Packed, ofp_switch_features, Type,
    Alignments

LEMMA Packed_ofp_port_status ==
  Packed(ofp_port_status, 4, <<8, 9, 16, 80>>, <<4, 1, 1, 4>>, 4)
  BY HasBasic, Has_ofp_header, Has_ofp_port DEF Packed, ofp_port_status, Type,
    Alignments

LEMMA Packed_ofp_port_mod ==
  Packed(ofp_port_mod, 9, <<8, 12, 16, 22, 24, 28, 32, 36, 40>>, <<4, 4, 1, 1,
    1, 4, 4, 4, 1>>, 4)
  BY HasBasic, Has_ofp_header DEF Packed, ofp_port_mod, Type, Alignments

LEMMA Packed_ofp_match ==
  Packed(ofp_match, 4, <<2, 4, 4, 8>>, <<2, 2, 1, 1>>, 2)
  BY HasBasic DEF Packed, ofp_match, Type, Alignments

LEMMA Has_ofp_match == Has(Struct(ofp_match), 8, 2)
  BY Packed_ofp_match, PackedStruct DEF ofp_match

LEMMA Packed_ofp_oxm_experimenter_header ==
  Packed(ofp_oxm_experimenter_header, 2, <<4, 8>>, <<4, 4>>, 4)
  BY HasBasic DEF Packed, ofp_oxm_experimenter_header, Type, Alignments

LEMMA Packed_ofp_action_header ==
  Packed(ofp_action_header, 3, <<2, 4, 8>>, <<2, 2, 1>>, 2)
  BY HasBasic DEF Packed, ofp_action_header, Type, Alignments

LEMMA Has_ofp_action_header == Has(Struct(ofp_action_header), 8, 2)
  BY Packed_ofp_action_header, PackedStruct DEF ofp_action_header

LEMMA Packed_ofp_action_output ==
  Packed(ofp_action_output, 5, <<2, 4, 8, 10, 16>>, <<2, 2, 4, 2, 1>>, 4)
  BY HasBasic DEF Packed, ofp_action_output, Type, Alignments

LEMMA Packed_ofp_action_mpls_ttl ==
  Packed(ofp_action_mpls_ttl, 4, <<2, 4, 5, 8>>, <<2, 2, 1, 1>>, 2)
  BY HasBasic DEF Packed, ofp_action_mpls_ttl, Type, Alignments

LEMMA Packed_ofp_action_push ==
  Packed(ofp_action_push, 4, <<2, 4, 6, 8>>, <<2, 2, 2, 1>>, 2)
  BY HasBasic DEF Packed, ofp_action_push, Type, Alignments

LEMMA Packed_ofp_action_pop_mpls ==
  Packed(ofp_action_pop_mpls, 4, <<2, 4, 6, 8>>, <<2, 2, 2, 1>>, 2)
  BY HasBasic DEF Packed, ofp_action_pop_mpls, Type, Alignments

LEMMA Packed_ofp_action_group ==
  Packed(ofp_action_group, 3, <<2, 4, 8>>, <<2, 2, 4>>, 4)
  BY HasBasic DEF Packed, ofp_action_group, Type, Alignments

LEMMA Packed_ofp_action_nw_ttl ==
  Packed(ofp_action_nw_ttl, 4, <<2, 4, 5, 8>>, <<2, 2, 1, 1>>, 2)
  BY HasBasic DEF Packed, ofp_action_nw_ttl, Type, Alignments

LEMMA Packed_ofp_action_set_field ==
  Packed(ofp_action_set_field, 3, <<2, 4, 8>>, <<2, 2, 1>>, 2)
  BY HasBasic DEF Packed, ofp_action_set_field, Type, Alignments

LEMMA Packed_ofp_action_experimenter_header ==
  Packed(ofp_action_experimenter_header, 3, <<2, 4, 8>>, <<2, 2, 4>>, 4)
  BY HasBasic DEF Packed, ofp_action_experimenter_header, Type, Alignments

LEMMA Packed_ofp_instruction ==
  Packed(ofp_instruction, 2, <<2, 4>>, <<2, 2>>, 2)
  BY HasBasic DEF Packed, ofp_instruction, Type, Alignments

LEMMA Has_ofp_instruction == Has(Struct(ofp_instruction), 4, 2)
  BY Packed_ofp_instruction, PackedStruct DEF ofp_instruction

LEMMA Packed_ofp_instruction_goto_table ==
  Packed(ofp_instruction_goto_table, 4, <<2, 4, 5, 8>>, <<2, 2, 1, 1>>, 2)
  BY HasBasic DEF Packed, ofp_instruction_goto_table, Type, Alignments

LEMMA Packed_ofp_instruction_write_metadata ==
  Packed(ofp_instruction_write_metadata, 5, <<2, 4, 8, 16, 24>>, <<2, 2, 1, 8,
    8>>, 8)
  BY HasBasic DEF Packed, ofp_instruction_write_metadata, Type, Alignments

LEMMA Packed_ofp_instruction_actions ==
  Packed(ofp_instruction_actions, 4, <<2, 4, 8, 8>>, <<2, 2, 1, 2>>, 2)
  BY HasBasic, Has_ofp_action_header, HasStructs DEF Packed,
    ofp_instruction_actions, Type, Alignments

LEMMA Packed_ofp_instruction_meter ==
  Packed(ofp_instruction_meter, 3, <<2, 4, 8>>, <<2, 2, 4>>, 4)
  BY HasBasic DEF Packed, ofp_instruction_meter, Type, Alignments

LEMMA Packed_ofp_instruction_experimenter ==
  Packed(ofp_instruction_experimenter, 3, <<2, 4, 8>>, <<2, 2, 4>>, 4)
  BY HasBasic DEF Packed, ofp_instruction_experimenter, Type, Alignments

LEMMA Packed_ofp_flow_mod ==
  Packed(ofp_flow_mod, 14, <<8, 16, 24, 25, 26, 28, 30, 32, 36, 40, 44, 46,
    48, 56>>, <<4, 8, 8, 1, 1, 2, 2, 2, 4, 4, 4, 2, 1, 2>>, 8)
  BY HasBasic, Has_ofp_header, Has_ofp_match DEF Packed, ofp_flow_mod, Type,
    Alignments

LEMMA Packed_ofp_bucket ==
  Packed(ofp_bucket, 6, <<2, 4, 8, 12, 16, 16>>, <<2, 2, 4, 4, 1, 2>>, 4)
  BY HasBasic, Has_ofp_action_header, HasStructs DEF Packed, ofp_bucket, Type,
    Alignments

LEMMA Has_ofp_bucket == Has(Struct(ofp_bucket), 16, 4)
  BY Packed_ofp_bucket, PackedStruct DEF ofp_bucket

LEMMA Packed_ofp_group_mod ==
  Packed(ofp_group_mod, 6, <<8, 10, 11, 12, 16, 16>>, <<4, 2, 1, 1, 4, 4>>, 4)
  BY HasBasic, Has_ofp_bucket, Has_ofp_header, HasStructs DEF Packed,
    ofp_group_mod, Type, Alignments

LEMMA Packed_ofp_packet_out ==
  Packed(ofp_packet_out, 6, <<8, 12, 16, 18, 24, 24>>, <<4, 4, 4, 2, 1, 2>>,
    4)
  BY HasBasic, Has_ofp_action_header, Has_ofp_header, HasStructs DEF Packed,
    ofp_packet_out, Type, Alignments

LEMMA Packed_ofp_packet_in ==
  Packed(ofp_packet_in, 7, <<8, 12, 14, 15, 16, 24, 32>>, <<4, 4, 2, 1, 1, 8,
    2>>, 8)
  BY HasBasic, Has_ofp_header, Has_ofp_match DEF Packed, ofp_packet_in, Type,
    Alignments

LEMMA Packed_ofp_flow_removed ==
  Packed(ofp_flow_removed, 12, <<8, 16, 18, 19, 20, 24, 28, 30, 32, 40, 48,
    56>>, <<4, 8, 2, 1, 1, 4, 4, 2, 2, 8, 8, 2>>, 8)
  BY HasBasic, Has_ofp_header, Has_ofp_match DEF Packed, ofp_flow_removed,
    Type, Alignments

LEMMA Packed_ofp_meter_band_header ==
  Packed(ofp_meter_band_header, 4, <<2, 4, 8, 12>>, <<2, 2, 4, 4>>, 4)
  BY HasBasic DEF Packed, ofp_meter_band_header, Type, Alignments

LEMMA Has_ofp_meter_band_header == Has(Struct(ofp_meter_band_header), 12, 4)
  BY Packed_ofp_meter_band_header, PackedStruct DEF ofp_meter_band_header

LEMMA Packed_ofp_meter_band_drop ==
  Packed(ofp_meter_band_drop, 5, <<2, 4, 8, 12, 16>>, <<2, 2, 4, 4, 1>>, 4)
  BY HasBasic DEF Packed, ofp_meter_band_drop, Type, Alignments

LEMMA Packed_ofp_meter_band_dscp_remark ==
  Packed(ofp_meter_band_dscp_remark, 6, <<2, 4, 8, 12, 13, 16>>, <<2, 2, 4, 4,
    1, 1>>, 4)
  BY HasBasic DEF Packed, ofp_meter_band_dscp_remark, Type, Alignments

LEMMA Packed_ofp_meter_band_experimenter ==
  Packed(ofp_meter_band_experimenter, 5, <<2, 4, 8, 12, 16>>, <<2, 2, 4, 4,
    4>>, 4)
  BY HasBasic DEF Packed, ofp_meter_band_experimenter, Type, Alignments

LEMMA Packed_ofp_meter_mod ==
  Packed(ofp_meter_mod, 5, <<8, 10, 12, 16, 16>>, <<4, 2, 2, 4, 4>>, 4)
  BY HasBasic, Has_ofp_header, Has_ofp_meter_band_header, HasStructs DEF
    Packed, ofp_meter_mod, Type, Alignments

LEMMA Packed_ofp_error_msg ==
  Packed(ofp_error_msg, 4, <<8, 10, 12, 12>>, <<4, 2, 2, 1>>, 4)
  BY HasBasic, Has_ofp_header DEF Packed, ofp_error_msg, Type, Alignments

LEMMA Packed_ofp_error_experimenter_msg ==
  Packed(ofp_error_experimenter_msg, 5, <<8, 10, 12, 16, 16>>, <<4, 2, 2, 4,
    1>>, 4)
  BY HasBasic, Has_ofp_header DEF Packed, ofp_error_experimenter_msg, Type,
    Alignments

LEMMA Packed_ofp_multipart_request ==
  Packed(ofp_multipart_request, 5, <<8, 10, 12, 16, 16>>, <<4, 2, 2, 1, 1>>,
    4)
  BY HasBasic, Has_ofp_header DEF Packed, ofp_multipart_request, Type,
    Alignments

LEMMA Packed_ofp_multipart_reply ==
  Packed(ofp_multipart_reply, 5, <<8, 10, 12, 16, 16>>, <<4, 2, 2, 1, 1>>, 4)
  BY HasBasic, Has_ofp_header DEF Packed, ofp_multipart_reply, Type,
    Alignments

LEMMA Packed_ofp_desc ==
  Packed(ofp_desc, 5, <<256, 512, 768, 800, 1056>>, <<1, 1, 1, 1, 1>>, 1)
  BY HasBasic DEF Packed, ofp_desc, Type, Alignments

LEMMA Packed_ofp_flow_stats_request ==
  Packed(ofp_flow_stats_request, 8, <<1, 4, 8, 12, 16, 24, 32, 40>>, <<1, 1,
    4, 4, 1, 8, 8, 2>>, 8)
  BY HasBasic, Has_ofp_match DEF Packed, ofp_flow_stats_request, Type,
    Alignments

LEMMA Packed_ofp_flow_stats ==
  Packed(ofp_flow_stats, 14, <<2, 3, 4, 8, 12, 14, 16, 18, 20, 24, 32, 40, 48,
    56>>, <<2, 1, 1, 4, 4, 2, 2, 2, 2, 1, 8, 8, 8, 2>>, 8)
  BY HasBasic, Has_ofp_match DEF Packed, ofp_flow_stats, Type, Alignments

LEMMA Packed_ofp_aggregate_stats_request ==
  Packed(ofp_aggregate_stats_request, 8, <<1, 4, 8, 12, 16, 24, 32, 40>>, <<1,
    1, 4, 4, 1, 8, 8, 2>>, 8)
  BY HasBasic, Has_ofp_match DEF Packed, ofp_aggregate_stats_request, Type,
    Alignments

LEMMA Packed_ofp_aggregate_stats_reply ==
  Packed(ofp_aggregate_stats_reply, 4, <<8, 16, 20, 24>>, <<8, 8, 4, 1>>, 8)
  BY HasBasic DEF Packed, ofp_aggregate_stats_reply, Type, Alignments

LEMMA Packed_ofp_table_feature_prop_header ==
  Packed(ofp_table_feature_prop_header, 2, <<2, 4>>, <<2, 2>>, 2)
  BY HasBasic DEF Packed, ofp_table_feature_prop_header, Type, Alignments

LEMMA Has_ofp_table_feature_prop_header == Has(Struct(ofp_table_feature_prop_header), 4, 2)
  BY Packed_ofp_table_feature_prop_header, PackedStruct DEF ofp_table_feature_prop_header

LEMMA Packed_ofp_table_feature_prop_instructions ==
  Packed(ofp_table_feature_prop_instructions, 3, <<2, 4, 4>>, <<2, 2, 2>>, 2)
  BY HasBasic, Has_ofp_instruction, HasStructs DEF Packed,
    ofp_table_feature_prop_instructions, Type, Alignments

LEMMA Packed_ofp_table_feature_prop_next_tables ==
  Packed(ofp_table_feature_prop_next_tables, 3, <<2, 4, 4>>, <<2, 2, 1>>, 2)
  BY HasBasic DEF Packed, ofp_table_feature_prop_next_tables, Type, Alignments

LEMMA Packed_ofp_table_feature_prop_actions ==
  Packed(ofp_table_feature_prop_actions, 3, <<2, 4, 4>>, <<2, 2, 2>>, 2)
  BY HasBasic, Has_ofp_action_header, HasStructs DEF Packed,
    ofp_table_feature_prop_actions, Type, Alignments

LEMMA Packed_ofp_table_feature_prop_oxm ==
  Packed(ofp_table_feature_prop_oxm, 3, <<2, 4, 4>>, <<2, 2, 4>>, 4)
  BY HasBasic, HasU32s DEF Packed, ofp_table_feature_prop_oxm, Type,
    Alignments

LEMMA Packed_ofp_table_feature_prop_experimenter ==
  Packed(ofp_table_feature_prop_experimenter, 5, <<2, 4, 8, 12, 12>>, <<2, 2,
    4, 4, 4>>, 4)
  BY HasBasic, HasU32s DEF Packed, ofp_table_feature_prop_experimenter, Type,
    Alignments

LEMMA Packed_ofp_table_features ==
  Packed(ofp_table_features, 9, <<2, 3, 8, 40, 48, 56, 60, 64, 64>>, <<2, 1,
    1, 1, 8, 8, 4, 4, 2>>, 8)
  BY HasBasic, Has_ofp_table_feature_prop_header, HasStructs DEF Packed,
    ofp_table_features, Type, Alignments

LEMMA Packed_ofp_table_stats ==
  Packed(ofp_table_stats, 5, <<1, 4, 8, 16, 24>>, <<1, 1, 4, 8, 8>>, 8)
  BY HasBasic DEF Packed, ofp_table_stats, Type, Alignments

LEMMA Packed_ofp_port_stats_request ==
  Packed(ofp_port_stats_request, 2, <<4, 8>>, <<4, 1>>, 4)
  BY HasBasic DEF Packed, ofp_port_stats_request, Type, Alignments

LEMMA Packed_ofp_port_stats ==
  Packed(ofp_port_stats, 16, <<4, 8, 16, 24, 32, 40, 48, 56, 64, 72, 80, 88,
    96, 104, 108, 112>>, <<4, 1, 8, 8, 8, 8, 8, 8, 8, 8, 8, 8, 8, 8, 4, 4>>,
    8)
  BY HasBasic DEF Packed, ofp_port_stats, Type, Alignments

LEMMA Packed_ofp_group_stats_request ==
  Packed(ofp_group_stats_request, 2, <<4, 8>>, <<4, 1>>, 4)
  BY HasBasic DEF Packed, ofp_group_stats_request, Type, Alignments

LEMMA Packed_ofp_bucket_counter ==
  Packed(ofp_bucket_counter, 2, <<8, 16>>, <<8, 8>>, 8)
  BY HasBasic DEF Packed, ofp_bucket_counter, Type, Alignments

LEMMA Has_ofp_bucket_counter == Has(Struct(ofp_bucket_counter), 16, 8)
  BY Packed_ofp_bucket_counter, PackedStruct DEF ofp_bucket_counter

LEMMA Packed_ofp_group_stats ==
  Packed(ofp_group_stats, 10, <<2, 4, 8, 12, 16, 24, 32, 36, 40, 40>>, <<2, 1,
    4, 4, 1, 8, 8, 4, 4, 8>>, 8)
  BY HasBasic, Has_ofp_bucket_counter, HasStructs DEF Packed, ofp_group_stats,
    Type, Alignments

LEMMA Packed_ofp_group_desc ==
  Packed(ofp_group_desc, 5, <<2, 3, 4, 8, 8>>, <<2, 1, 1, 4, 4>>, 4)
  BY HasBasic, Has_ofp_bucket, HasStructs DEF Packed, ofp_group_desc, Type,
    Alignments

LEMMA Packed_ofp_group_features ==
  Packed(ofp_group_features, 4, <<4, 8, 24, 40>>, <<4, 4, 4, 4>>, 4)
  BY HasBasic, HasU32s DEF Packed, ofp_group_features, Type, Alignments

LEMMA Packed_ofp_meter_multipart_request ==
  Packed(ofp_meter_multipart_request, 2, <<4, 8>>, <<4, 1>>, 4)
  BY HasBasic DEF Packed, ofp_meter_multipart_request, Type, Alignments

LEMMA Packed_ofp_meter_band_stats ==
  Packed(ofp_meter_band_stats, 2, <<8, 16>>, <<8, 8>>, 8)
  BY HasBasic DEF Packed, ofp_meter_band_stats, Type, Alignments

LEMMA Has_ofp_meter_band_stats == Has(Struct(ofp_meter_band_stats), 16, 8)
  BY Packed_ofp_meter_band_stats, PackedStruct DEF ofp_meter_band_stats

LEMMA Packed_ofp_meter_stats ==
  Packed(ofp_meter_stats, 9, <<4, 6, 12, 16, 24, 32, 36, 40, 40>>, <<4, 2, 1,
    4, 8, 8, 4, 4, 8>>, 8)
  BY HasBasic, Has_ofp_meter_band_stats, HasStructs DEF Packed,
    ofp_meter_stats, Type, Alignments

LEMMA Packed_ofp_meter_config ==
  Packed(ofp_meter_config, 4, <<2, 4, 8, 8>>, <<2, 2, 4, 4>>, 4)
  BY HasBasic, Has_ofp_meter_band_header, HasStructs DEF Packed,
    ofp_meter_config, Type, Alignments

LEMMA Packed_ofp_meter_features ==
  Packed(ofp_meter_features, 6, <<4, 8, 12, 13, 14, 16>>, <<4, 4, 4, 1, 1,
    1>>, 4)
  BY HasBasic DEF Packed, ofp_meter_features, Type, Alignments

LEMMA Packed_ofp_experimenter_multipart_header ==
  Packed(ofp_experimenter_multipart_header, 2, <<4, 8>>, <<4, 4>>, 4)
  BY HasBasic DEF Packed, ofp_experimenter_multipart_header, Type, Alignments

LEMMA Packed_ofp_experimenter_header ==
  Packed(ofp_experimenter_header, 3, <<8, 12, 16>>, <<4, 4, 4>>, 4)
  BY HasBasic, Has_ofp_header DEF Packed, ofp_experimenter_header, Type,
    Alignments

LEMMA Packed_ofp_queue_prop_header ==
  Packed(ofp_queue_prop_header, 3, <<2, 4, 8>>, <<2, 2, 1>>, 2)
  BY HasBasic DEF Packed, ofp_queue_prop_header, Type, Alignments

LEMMA Has_ofp_queue_prop_header == Has(Struct(ofp_queue_prop_header), 8, 2)
  BY Packed_ofp_queue_prop_header, PackedStruct DEF ofp_queue_prop_header

LEMMA Packed_ofp_queue_prop_min_rate ==
  Packed(ofp_queue_prop_min_rate, 3, <<8, 10, 16>>, <<2, 2, 1>>, 2)
  BY HasBasic, Has_ofp_queue_prop_header DEF Packed, ofp_queue_prop_min_rate,
    Type, Alignments

LEMMA Packed_ofp_queue_prop_max_rate ==
  Packed(ofp_queue_prop_max_rate, 3, <<8, 10, 16>>, <<2, 2, 1>>, 2)
  BY HasBasic, Has_ofp_queue_prop_header DEF Packed, ofp_queue_prop_max_rate,
    Type, Alignments

LEMMA Packed_ofp_queue_prop_experimenter ==
  Packed(ofp_queue_prop_experimenter, 4, <<8, 12, 16, 16>>, <<2, 4, 1, 1>>, 4)
  BY HasBasic, Has_ofp_queue_prop_header DEF Packed,
    ofp_queue_prop_experimenter, Type, Alignments

LEMMA Packed_ofp_packet_queue ==
  Packed(ofp_packet_queue, 5, <<4, 8, 10, 16, 16>>, <<4, 4, 2, 1, 2>>, 4)
  BY HasBasic, Has_ofp_queue_prop_header, HasStructs DEF Packed,
    ofp_packet_queue, Type, Alignments

LEMMA Has_ofp_packet_queue == Has(Struct(ofp_packet_queue), 16, 4)
  BY Packed_ofp_packet_queue, PackedStruct DEF ofp_packet_queue

LEMMA Packed_ofp_queue_get_config_request ==
  Packed(ofp_queue_get_config_request, 3, <<8, 12, 16>>, <<4, 4, 1>>, 4)
  BY HasBasic, Has_ofp_header DEF Packed, ofp_queue_get_config_request, Type,
    Alignments

LEMMA Packed_ofp_queue_get_config_reply ==
  Packed(ofp_queue_get_config_reply, 4, <<8, 12, 16, 16>>, <<4, 4, 1, 4>>, 4)
  BY HasBasic, Has_ofp_header, Has_ofp_packet_queue, HasStructs DEF Packed,
    ofp_queue_get_config_reply, Type, Alignments

LEMMA Packed_ofp_action_set_queue ==
  Packed(ofp_action_set_queue, 3, <<2, 4, 8>>, <<2, 2, 4>>, 4)
  BY HasBasic DEF Packed, ofp_action_set_queue, Type, Alignments

LEMMA Packed_ofp_queue_stats_request ==
  Packed(ofp_queue_stats_request, 2, <<4, 8>>, <<4, 4>>, 4)
  BY HasBasic DEF Packed, ofp_queue_stats_request, Type, Alignments

LEMMA Packed_ofp_queue_stats ==
  Packed(ofp_queue_stats, 7, <<4, 8, 16, 24, 32, 36, 40>>, <<4, 4, 8, 8, 8, 4,
    4>>, 8)
  BY HasBasic DEF Packed, ofp_queue_stats, Type, Alignments

LEMMA Packed_ofp_role_request ==
  Packed(ofp_role_request, 4, <<8, 12, 16, 24>>, <<4, 4, 1, 8>>, 8)
  BY HasBasic, Has_ofp_header DEF Packed, ofp_role_request, Type, Alignments

LEMMA Packed_ofp_async_config ==
  Packed(ofp_async_config, 4, <<8, 16, 24, 32>>, <<4, 4, 4, 4>>, 4)
  BY HasBasic, Has_ofp_header, HasU32s DEF Packed, ofp_async_config, Type,
    Alignments

LEMMA Packed_sniff_ethernet ==
  Packed(sniff_ethernet, 3, <<6, 12, 14>>, <<1, 1, 2>>, 2)
  BY HasBasic DEF Packed, sniff_ethernet, Type, Alignments

LEMMA Packed_sniff_ip ==
  Packed(sniff_ip, 10, <<1, 2, 4, 6, 8, 9, 10, 12, 16, 20>>, <<1, 1, 2, 2, 2,
    1, 1, 2, 4, 4>>, 4)
  BY HasBasic DEF Packed, sniff_ip, Type, Alignments

LEMMA Packed_sniff_tcp ==
  Packed(sniff_tcp, 9, <<2, 4, 8, 12, 13, 14, 16, 18, 20>>, <<2, 2, 4, 4, 1,
    1, 2, 2, 2>>, 4)
  BY HasBasic DEF Packed, sniff_tcp, Type, Alignments

-----------------------------------------------------------------------------
(* All of them. *)

\* No struct has a gap on either machine, and each the size asserted.
LEMMA EveryStruct ==
  ASSUME NEW n \in DOMAIN Structs, NEW m \in Machines
  PROVE  LaidOutAsAsserted(Structs[n], m)
  <1>1. \A s \in {ofp_header, ofp_hello_elem_header, ofp_hello_elem_versionbitmap,
         ofp_hello, ofp_switch_config, ofp_table_mod, ofp_port,
         ofp_switch_features, ofp_port_status, ofp_port_mod,
         ofp_match, ofp_oxm_experimenter_header} :
         LaidOutAsAsserted(s, m)
    BY PackedStruct, Packed_ofp_header, Packed_ofp_hello_elem_header,
      Packed_ofp_hello_elem_versionbitmap, Packed_ofp_hello,
      Packed_ofp_switch_config, Packed_ofp_table_mod, Packed_ofp_port,
      Packed_ofp_switch_features, Packed_ofp_port_status,
      Packed_ofp_port_mod, Packed_ofp_match,
      Packed_ofp_oxm_experimenter_header
  <1>2. \A s \in {ofp_action_header, ofp_action_output, ofp_action_mpls_ttl,
         ofp_action_push, ofp_action_pop_mpls, ofp_action_group,
         ofp_action_nw_ttl, ofp_action_set_field,
         ofp_action_experimenter_header, ofp_instruction,
         ofp_instruction_goto_table, ofp_instruction_write_metadata} :
         LaidOutAsAsserted(s, m)
    BY PackedStruct, Packed_ofp_action_header, Packed_ofp_action_output,
      Packed_ofp_action_mpls_ttl, Packed_ofp_action_push,
      Packed_ofp_action_pop_mpls, Packed_ofp_action_group,
      Packed_ofp_action_nw_ttl, Packed_ofp_action_set_field,
      Packed_ofp_action_experimenter_header, Packed_ofp_instruction,
      Packed_ofp_instruction_goto_table,
      Packed_ofp_instruction_write_metadata
  <1>3. \A s \in {ofp_instruction_actions, ofp_instruction_meter,
         ofp_instruction_experimenter, ofp_flow_mod, ofp_bucket,
         ofp_group_mod, ofp_packet_out, ofp_packet_in,
         ofp_flow_removed, ofp_meter_band_header, ofp_meter_band_drop,
         ofp_meter_band_dscp_remark} :
         LaidOutAsAsserted(s, m)
    BY PackedStruct, Packed_ofp_instruction_actions,
      Packed_ofp_instruction_meter, Packed_ofp_instruction_experimenter,
      Packed_ofp_flow_mod, Packed_ofp_bucket, Packed_ofp_group_mod,
      Packed_ofp_packet_out, Packed_ofp_packet_in,
      Packed_ofp_flow_removed, Packed_ofp_meter_band_header,
      Packed_ofp_meter_band_drop, Packed_ofp_meter_band_dscp_remark
  <1>4. \A s \in {ofp_meter_band_experimenter, ofp_meter_mod, ofp_error_msg,
         ofp_error_experimenter_msg, ofp_multipart_request,
         ofp_multipart_reply, ofp_desc, ofp_flow_stats_request,
         ofp_flow_stats, ofp_aggregate_stats_request,
         ofp_aggregate_stats_reply, ofp_table_feature_prop_header} :
         LaidOutAsAsserted(s, m)
    BY PackedStruct, Packed_ofp_meter_band_experimenter, Packed_ofp_meter_mod,
      Packed_ofp_error_msg, Packed_ofp_error_experimenter_msg,
      Packed_ofp_multipart_request, Packed_ofp_multipart_reply,
      Packed_ofp_desc, Packed_ofp_flow_stats_request,
      Packed_ofp_flow_stats, Packed_ofp_aggregate_stats_request,
      Packed_ofp_aggregate_stats_reply,
      Packed_ofp_table_feature_prop_header
  <1>5. \A s \in {ofp_table_feature_prop_instructions,
         ofp_table_feature_prop_next_tables,
         ofp_table_feature_prop_actions, ofp_table_feature_prop_oxm,
         ofp_table_feature_prop_experimenter, ofp_table_features,
         ofp_table_stats, ofp_port_stats_request, ofp_port_stats,
         ofp_group_stats_request, ofp_bucket_counter, ofp_group_stats} :
         LaidOutAsAsserted(s, m)
    BY PackedStruct, Packed_ofp_table_feature_prop_instructions,
      Packed_ofp_table_feature_prop_next_tables,
      Packed_ofp_table_feature_prop_actions,
      Packed_ofp_table_feature_prop_oxm,
      Packed_ofp_table_feature_prop_experimenter,
      Packed_ofp_table_features, Packed_ofp_table_stats,
      Packed_ofp_port_stats_request, Packed_ofp_port_stats,
      Packed_ofp_group_stats_request, Packed_ofp_bucket_counter,
      Packed_ofp_group_stats
  <1>6. \A s \in {ofp_group_desc, ofp_group_features, ofp_meter_multipart_request,
         ofp_meter_band_stats, ofp_meter_stats, ofp_meter_config,
         ofp_meter_features, ofp_experimenter_multipart_header,
         ofp_experimenter_header, ofp_queue_prop_header,
         ofp_queue_prop_min_rate, ofp_queue_prop_max_rate} :
         LaidOutAsAsserted(s, m)
    BY PackedStruct, Packed_ofp_group_desc, Packed_ofp_group_features,
      Packed_ofp_meter_multipart_request, Packed_ofp_meter_band_stats,
      Packed_ofp_meter_stats, Packed_ofp_meter_config,
      Packed_ofp_meter_features, Packed_ofp_experimenter_multipart_header,
      Packed_ofp_experimenter_header, Packed_ofp_queue_prop_header,
      Packed_ofp_queue_prop_min_rate, Packed_ofp_queue_prop_max_rate
  <1>7. \A s \in {ofp_queue_prop_experimenter, ofp_packet_queue,
         ofp_queue_get_config_request, ofp_queue_get_config_reply,
         ofp_action_set_queue, ofp_queue_stats_request,
         ofp_queue_stats, ofp_role_request, ofp_async_config,
         sniff_ethernet, sniff_ip, sniff_tcp} :
         LaidOutAsAsserted(s, m)
    BY PackedStruct, Packed_ofp_queue_prop_experimenter,
      Packed_ofp_packet_queue, Packed_ofp_queue_get_config_request,
      Packed_ofp_queue_get_config_reply, Packed_ofp_action_set_queue,
      Packed_ofp_queue_stats_request, Packed_ofp_queue_stats,
      Packed_ofp_role_request, Packed_ofp_async_config,
      Packed_sniff_ethernet, Packed_sniff_ip, Packed_sniff_tcp
  <1> QED
    BY <1>1, <1>2, <1>3, <1>4, <1>5, <1>6, <1>7 DEF Structs

-----------------------------------------------------------------------------
(* Where the fields are that the program assigns and the reader reads. *)

\* Where a field of a packed struct is: behind the one before it.
LEMMA FieldPlaced ==
  ASSUME NEW s, NEW n, NEW ends, NEW aligns, NEW a, Packed(s, n, ends, aligns, a),
         NEW m \in Machines, NEW name, NEW k \in 1 .. n, Place(s, name) = k
  PROVE  /\ offsetof(s, name, m) = IF k = 1 THEN 0 ELSE ends[k - 1]
         /\ fieldsize(s, name, m) = ends[k] - (IF k = 1 THEN 0 ELSE ends[k - 1])
  <1> DEFINE from == IF k = 1 THEN 0 ELSE ends[k - 1]
  <1>1. End(s, m)[k] = ends[k]
    BY PackedEnds
  <1>2. ends[k] \in Nat /\ (k # 1 => ends[k - 1] \in Nat)
    <2>1. ends[k] \in Nat
      BY DEF Packed
    <2>2. k # 1 => k - 1 \in 1 .. n
      BY DEF Packed
    <2> QED
      BY <2>1, <2>2 DEF Packed
  <1>3. Has(Type(s, k), ends[k] - from, aligns[k])
    BY DEF Packed
  <1>4. Type(s, k).size[m] = ends[k] - from
    BY <1>3 DEF Has
  <1> QED
    BY <1>1, <1>2, <1>4 DEF offsetof, fieldsize

LEMMA In_ofp_header ==
  ASSUME host.machine \in Machines
  PROVE  /\ Sizeof(ofp_header) = 8
         /\ At(ofp_header, "version") = 0 /\ fieldsize(ofp_header, "version", host.machine) = 1
         /\ At(ofp_header, "type") = 1 /\ fieldsize(ofp_header, "type", host.machine) = 1
         /\ At(ofp_header, "length") = 2 /\ fieldsize(ofp_header, "length", host.machine) = 2
         /\ At(ofp_header, "xid") = 4 /\ fieldsize(ofp_header, "xid", host.machine) = 4
  <1>1. ofp_header.size = 8 /\ sizeof(ofp_header, host.machine) = ofp_header.size
    BY Packed_ofp_header, PackedStruct DEF ofp_header
  <1>2. /\ Place(ofp_header, "version") = 1
        /\ Place(ofp_header, "type") = 2
        /\ Place(ofp_header, "length") = 3
        /\ Place(ofp_header, "xid") = 4
    BY DEF Place, Fields, ofp_header
  <1> QED
    BY <1>1, <1>2, Packed_ofp_header, FieldPlaced DEF At, Sizeof

LEMMA In_ofp_flow_mod ==
  ASSUME host.machine \in Machines
  PROVE  /\ Sizeof(ofp_flow_mod) = 56
         /\ At(ofp_flow_mod, "header") = 0 /\ fieldsize(ofp_flow_mod, "header", host.machine) = 8
         /\ At(ofp_flow_mod, "cookie") = 8 /\ fieldsize(ofp_flow_mod, "cookie", host.machine) = 8
         /\ At(ofp_flow_mod, "cookie_mask") = 16 /\ fieldsize(ofp_flow_mod, "cookie_mask", host.machine) = 8
         /\ At(ofp_flow_mod, "table_id") = 24 /\ fieldsize(ofp_flow_mod, "table_id", host.machine) = 1
         /\ At(ofp_flow_mod, "command") = 25 /\ fieldsize(ofp_flow_mod, "command", host.machine) = 1
         /\ At(ofp_flow_mod, "idle_timeout") = 26 /\ fieldsize(ofp_flow_mod, "idle_timeout", host.machine) = 2
         /\ At(ofp_flow_mod, "hard_timeout") = 28 /\ fieldsize(ofp_flow_mod, "hard_timeout", host.machine) = 2
         /\ At(ofp_flow_mod, "priority") = 30 /\ fieldsize(ofp_flow_mod, "priority", host.machine) = 2
         /\ At(ofp_flow_mod, "buffer_id") = 32 /\ fieldsize(ofp_flow_mod, "buffer_id", host.machine) = 4
         /\ At(ofp_flow_mod, "out_port") = 36 /\ fieldsize(ofp_flow_mod, "out_port", host.machine) = 4
         /\ At(ofp_flow_mod, "out_group") = 40 /\ fieldsize(ofp_flow_mod, "out_group", host.machine) = 4
         /\ At(ofp_flow_mod, "flags") = 44 /\ fieldsize(ofp_flow_mod, "flags", host.machine) = 2
         /\ At(ofp_flow_mod, "pad") = 46 /\ fieldsize(ofp_flow_mod, "pad", host.machine) = 2
         /\ At(ofp_flow_mod, "match") = 48 /\ fieldsize(ofp_flow_mod, "match", host.machine) = 8
  <1>1. ofp_flow_mod.size = 56 /\ sizeof(ofp_flow_mod, host.machine) = ofp_flow_mod.size
    BY Packed_ofp_flow_mod, PackedStruct DEF ofp_flow_mod
  <1>2. /\ Place(ofp_flow_mod, "header") = 1
        /\ Place(ofp_flow_mod, "cookie") = 2
        /\ Place(ofp_flow_mod, "cookie_mask") = 3
        /\ Place(ofp_flow_mod, "table_id") = 4
        /\ Place(ofp_flow_mod, "command") = 5
        /\ Place(ofp_flow_mod, "idle_timeout") = 6
        /\ Place(ofp_flow_mod, "hard_timeout") = 7
        /\ Place(ofp_flow_mod, "priority") = 8
        /\ Place(ofp_flow_mod, "buffer_id") = 9
        /\ Place(ofp_flow_mod, "out_port") = 10
        /\ Place(ofp_flow_mod, "out_group") = 11
        /\ Place(ofp_flow_mod, "flags") = 12
        /\ Place(ofp_flow_mod, "pad") = 13
        /\ Place(ofp_flow_mod, "match") = 14
    BY DEF Place, Fields, ofp_flow_mod
  <1> QED
    BY <1>1, <1>2, Packed_ofp_flow_mod, FieldPlaced DEF At, Sizeof

LEMMA In_ofp_match ==
  ASSUME host.machine \in Machines
  PROVE  /\ Sizeof(ofp_match) = 8
         /\ At(ofp_match, "type") = 0 /\ fieldsize(ofp_match, "type", host.machine) = 2
         /\ At(ofp_match, "length") = 2 /\ fieldsize(ofp_match, "length", host.machine) = 2
         /\ At(ofp_match, "pad") = 4 /\ fieldsize(ofp_match, "pad", host.machine) = 4
  <1>1. ofp_match.size = 8 /\ sizeof(ofp_match, host.machine) = ofp_match.size
    BY Packed_ofp_match, PackedStruct DEF ofp_match
  <1>2. /\ Place(ofp_match, "type") = 1
        /\ Place(ofp_match, "length") = 2
        /\ Place(ofp_match, "pad") = 4
    BY DEF Place, Fields, ofp_match
  <1> QED
    BY <1>1, <1>2, Packed_ofp_match, FieldPlaced DEF At, Sizeof

LEMMA In_ofp_instruction_actions ==
  ASSUME host.machine \in Machines
  PROVE  /\ Sizeof(ofp_instruction_actions) = 8
         /\ At(ofp_instruction_actions, "type") = 0 /\ fieldsize(ofp_instruction_actions, "type", host.machine) = 2
         /\ At(ofp_instruction_actions, "len") = 2 /\ fieldsize(ofp_instruction_actions, "len", host.machine) = 2
         /\ At(ofp_instruction_actions, "pad") = 4 /\ fieldsize(ofp_instruction_actions, "pad", host.machine) = 4
  <1>1. ofp_instruction_actions.size = 8 /\ sizeof(ofp_instruction_actions, host.machine) = ofp_instruction_actions.size
    BY Packed_ofp_instruction_actions, PackedStruct DEF ofp_instruction_actions
  <1>2. /\ Place(ofp_instruction_actions, "type") = 1
        /\ Place(ofp_instruction_actions, "len") = 2
        /\ Place(ofp_instruction_actions, "pad") = 3
    BY DEF Place, Fields, ofp_instruction_actions
  <1> QED
    BY <1>1, <1>2, Packed_ofp_instruction_actions, FieldPlaced DEF At, Sizeof

LEMMA In_ofp_action_output ==
  ASSUME host.machine \in Machines
  PROVE  /\ Sizeof(ofp_action_output) = 16
         /\ At(ofp_action_output, "type") = 0 /\ fieldsize(ofp_action_output, "type", host.machine) = 2
         /\ At(ofp_action_output, "len") = 2 /\ fieldsize(ofp_action_output, "len", host.machine) = 2
         /\ At(ofp_action_output, "port") = 4 /\ fieldsize(ofp_action_output, "port", host.machine) = 4
         /\ At(ofp_action_output, "max_len") = 8 /\ fieldsize(ofp_action_output, "max_len", host.machine) = 2
         /\ At(ofp_action_output, "pad") = 10 /\ fieldsize(ofp_action_output, "pad", host.machine) = 6
  <1>1. ofp_action_output.size = 16 /\ sizeof(ofp_action_output, host.machine) = ofp_action_output.size
    BY Packed_ofp_action_output, PackedStruct DEF ofp_action_output
  <1>2. /\ Place(ofp_action_output, "type") = 1
        /\ Place(ofp_action_output, "len") = 2
        /\ Place(ofp_action_output, "port") = 3
        /\ Place(ofp_action_output, "max_len") = 4
        /\ Place(ofp_action_output, "pad") = 5
    BY DEF Place, Fields, ofp_action_output
  <1> QED
    BY <1>1, <1>2, Packed_ofp_action_output, FieldPlaced DEF At, Sizeof

LEMMA In_sniff_ethernet ==
  ASSUME host.machine \in Machines
  PROVE  /\ Sizeof(sniff_ethernet) = 14
         /\ At(sniff_ethernet, "ether_dhost") = 0 /\ fieldsize(sniff_ethernet, "ether_dhost", host.machine) = 6
         /\ At(sniff_ethernet, "ether_shost") = 6 /\ fieldsize(sniff_ethernet, "ether_shost", host.machine) = 6
         /\ At(sniff_ethernet, "ether_type") = 12 /\ fieldsize(sniff_ethernet, "ether_type", host.machine) = 2
  <1>1. sniff_ethernet.size = 14 /\ sizeof(sniff_ethernet, host.machine) = sniff_ethernet.size
    BY Packed_sniff_ethernet, PackedStruct DEF sniff_ethernet
  <1>2. /\ Place(sniff_ethernet, "ether_dhost") = 1
        /\ Place(sniff_ethernet, "ether_shost") = 2
        /\ Place(sniff_ethernet, "ether_type") = 3
    BY DEF Place, Fields, sniff_ethernet
  <1> QED
    BY <1>1, <1>2, Packed_sniff_ethernet, FieldPlaced DEF At, Sizeof

LEMMA In_sniff_ip ==
  ASSUME host.machine \in Machines
  PROVE  /\ Sizeof(sniff_ip) = 20
         /\ At(sniff_ip, "ip_vhl") = 0 /\ fieldsize(sniff_ip, "ip_vhl", host.machine) = 1
         /\ At(sniff_ip, "ip_tos") = 1 /\ fieldsize(sniff_ip, "ip_tos", host.machine) = 1
         /\ At(sniff_ip, "ip_len") = 2 /\ fieldsize(sniff_ip, "ip_len", host.machine) = 2
         /\ At(sniff_ip, "ip_id") = 4 /\ fieldsize(sniff_ip, "ip_id", host.machine) = 2
         /\ At(sniff_ip, "ip_off") = 6 /\ fieldsize(sniff_ip, "ip_off", host.machine) = 2
         /\ At(sniff_ip, "ip_ttl") = 8 /\ fieldsize(sniff_ip, "ip_ttl", host.machine) = 1
         /\ At(sniff_ip, "ip_p") = 9 /\ fieldsize(sniff_ip, "ip_p", host.machine) = 1
         /\ At(sniff_ip, "ip_sum") = 10 /\ fieldsize(sniff_ip, "ip_sum", host.machine) = 2
         /\ At(sniff_ip, "ip_src") = 12 /\ fieldsize(sniff_ip, "ip_src", host.machine) = 4
         /\ At(sniff_ip, "ip_dst") = 16 /\ fieldsize(sniff_ip, "ip_dst", host.machine) = 4
  <1>1. sniff_ip.size = 20 /\ sizeof(sniff_ip, host.machine) = sniff_ip.size
    BY Packed_sniff_ip, PackedStruct DEF sniff_ip
  <1>2. /\ Place(sniff_ip, "ip_vhl") = 1
        /\ Place(sniff_ip, "ip_tos") = 2
        /\ Place(sniff_ip, "ip_len") = 3
        /\ Place(sniff_ip, "ip_id") = 4
        /\ Place(sniff_ip, "ip_off") = 5
        /\ Place(sniff_ip, "ip_ttl") = 6
        /\ Place(sniff_ip, "ip_p") = 7
        /\ Place(sniff_ip, "ip_sum") = 8
        /\ Place(sniff_ip, "ip_src") = 9
        /\ Place(sniff_ip, "ip_dst") = 10
    BY DEF Place, Fields, sniff_ip
  <1> QED
    BY <1>1, <1>2, Packed_sniff_ip, FieldPlaced DEF At, Sizeof

LEMMA In_sniff_tcp ==
  ASSUME host.machine \in Machines
  PROVE  /\ Sizeof(sniff_tcp) = 20
         /\ At(sniff_tcp, "th_dport") = 2 /\ fieldsize(sniff_tcp, "th_dport", host.machine) = 2
         /\ At(sniff_tcp, "th_offx2") = 12 /\ fieldsize(sniff_tcp, "th_offx2", host.machine) = 1
         /\ At(sniff_tcp, "th_flags") = 13 /\ fieldsize(sniff_tcp, "th_flags", host.machine) = 1
         /\ At(sniff_tcp, "th_sum") = 16 /\ fieldsize(sniff_tcp, "th_sum", host.machine) = 2
         /\ At(sniff_tcp, "th_urp") = 18 /\ fieldsize(sniff_tcp, "th_urp", host.machine) = 2
  <1>1. sniff_tcp.size = 20 /\ sizeof(sniff_tcp, host.machine) = sniff_tcp.size
    BY Packed_sniff_tcp, PackedStruct DEF sniff_tcp
  <1>2. /\ Place(sniff_tcp, "th_dport") = 2
        /\ Place(sniff_tcp, "th_offx2") = 5
        /\ Place(sniff_tcp, "th_flags") = 6
        /\ Place(sniff_tcp, "th_sum") = 8
        /\ Place(sniff_tcp, "th_urp") = 9
    BY DEF Place, Fields, sniff_tcp
  <1> QED
    BY <1>1, <1>2, Packed_sniff_tcp, FieldPlaced DEF At, Sizeof

-----------------------------------------------------------------------------
(* Bytes and numbers. *)

Entry(at, bytes) == [at |-> at, bytes |-> bytes]
Byte == 0 .. 255

\* A number in network order, stored, is its bytes on either host.
LEMMA StoredConverted ==
  ASSUME NEW v \in Seq(Byte)
  PROVE  Stored(hton(v)) = v
  <1>1. Reverse(Reverse(v)) = v
    <2> DEFINE r == Reverse(v)
    <2>1. /\ r \in Seq(Byte) /\ Len(r) = Len(v)
          /\ \A k \in 1 .. Len(v) : r[k] = v[Len(v) - k + 1]
      BY DEF Reverse
    <2> HIDE DEF r
    <2>2. Reverse(r) \in Seq(Byte) /\ Len(Reverse(r)) = Len(v)
      BY <2>1 DEF Reverse
    <2>3. \A k \in 1 .. Len(v) : Reverse(r)[k] = v[k]
      BY <2>1 DEF Reverse
    <2> QED
      BY <2>2, <2>3 DEF r
  <1> QED
    BY <1>1 DEF Stored, hton

\* A number that is not converted.
LEMMA StoredBytes ==
  ASSUME NEW v \in Seq(Byte)
  PROVE  Stored(v) \in Seq(Byte) /\ Len(Stored(v)) = Len(v)
  BY DEF Stored, Reverse

\* A single byte, or equal ones, are stored as they are.
LEMMA StoredSame ==
  /\ \A n \in Byte : Stored(Uint8(n)) = <<n>>
  /\ \A n \in Nat : Stored(Zeros(n)) = Zeros(n) /\ Stored(Ones(n)) = Ones(n)
  <1>1. ASSUME NEW n \in Byte PROVE Stored(Uint8(n)) = <<n>>
    BY DEF Stored, Reverse, Uint8
  <1>2. ASSUME NEW n \in Nat PROVE Stored(Zeros(n)) = Zeros(n)
    BY DEF Stored, Reverse, Zeros
  <1>3. ASSUME NEW n \in Nat PROVE Stored(Ones(n)) = Ones(n)
    BY DEF Stored, Reverse, Ones
  <1> QED
    BY <1>1, <1>2, <1>3

\* They are bytes.
LEMMA Runs ==
  ASSUME NEW n \in Nat
  PROVE  /\ Zeros(n) \in Seq(Byte) /\ Len(Zeros(n)) = n
         /\ Ones(n) \in Seq(Byte) /\ Len(Ones(n)) = n
  BY DEF Zeros, Ones, Byte

-----------------------------------------------------------------------------
(* The assignments, with every offset computed. *)

\* The values of a uint16_t.
Shorts == {n \in Nat : n \div 256 \in Byte}

\* A uint16_t is two bytes, stored as they are once converted.
LEMMA Uint16s ==
  ASSUME NEW n \in Shorts
  PROVE  /\ Uint16(n) \in Seq(Byte) /\ Len(Uint16(n)) = 2
         /\ Stored(hton(Uint16(n))) = Uint16(n)
         /\ Number(Uint16(n)) = n
  <1> DEFINE q == n \div 256
             r == n % 256
  <1>1. q \in Byte /\ r \in Byte
    BY DEF Byte, Shorts
  <1>2. n = 256 * q + r
    BY DEF Shorts
  <1>3. Uint16(n) = <<q, r>>
    BY DEF Uint16
  <1> HIDE DEF q, r
  <1>4. Uint16(n) \in Seq(Byte) /\ Len(Uint16(n)) = 2
    BY <1>1, <1>3
  <1>5. Number(Uint16(n)) = n
    BY <1>3, <1>2 DEF Number
  <1> QED
    BY <1>4, <1>5, StoredConverted

\* The ones the program stores.
LEMMA SomeShorts ==
  /\ 0 \in Shorts /\ 1 \in Shorts /\ 4 \in Shorts /\ 8 \in Shorts /\ 16 \in Shorts
  /\ 20 \in Shorts /\ 24 \in Shorts /\ 80 \in Shorts
  /\ 1440 \in Shorts /\ 1575 \in Shorts /\ 2048 \in Shorts
  BY DEF Shorts, Byte

\* A uint32_t is four.
LEMMA Quads ==
  ASSUME NEW v \in [1 .. 4 -> Byte]
  PROVE  v \in Seq(Byte) /\ Len(v) = 4 /\ Stored(hton(v)) = v
  <1>1. v \in Seq(Byte)
    BY SeqDef
  <1>2. Len(v) = 4
    OBVIOUS
  <1> QED
    BY <1>1, <1>2, StoredConverted

\* And the cookie eight.
LEMMA Cookie ==
  /\ COOKIE_SWITCH \in Seq(Byte) /\ Len(COOKIE_SWITCH) = 8
  /\ Stored(hton(COOKIE_SWITCH)) = COOKIE_SWITCH
  <1> DEFINE z == Zeros(6)
             u == Uint16(6 * 256 + 39)
  <1>1. u \in Seq(Byte) /\ Len(u) = 2
    BY Uint16s, SomeShorts
  <1>2. z \in Seq(Byte) /\ Len(z) = 6
    BY Runs
  <1>3. COOKIE_SWITCH = z \o u
    BY DEF COOKIE_SWITCH
  <1> HIDE DEF z, u
  <1>4. COOKIE_SWITCH \in Seq(Byte) /\ Len(COOKIE_SWITCH) = 8
    <2>1. z \o u \in Seq(Byte) /\ Len(z \o u) = Len(z) + Len(u)
      BY <1>1, <1>2, ConcatProperties, Zenon
    <2> QED
      BY <1>1, <1>2, <1>3, <2>1
  <1> QED
    BY <1>4, StoredConverted

HelloTable(type, xid) ==
  <<Entry(1, <<type[4]>>), Entry(0, <<4>>), Entry(2, Uint16(8)), Entry(4, xid)>>

\* send_header assigns that.
LEMMA HelloAssigned ==
  ASSUME host.machine \in Machines, NEW type \in [1 .. 4 -> Byte], NEW xid \in [1 .. 4 -> Byte]
  PROVE  send_header(type, xid) = HelloTable(type, xid)
  <1>1. Stored(Uint8(type[4])) = <<type[4]>> /\ Stored(OFP_VERSION) = <<4>>
    <2>1. type[4] \in Byte /\ 4 \in Byte
      BY DEF Byte
    <2> QED
      BY <2>1, StoredSame DEF OFP_VERSION
  <1>2. Stored(hton(xid)) = xid
    BY Quads
  <1>3. Stored(hton(Uint16(8))) = Uint16(8)
    BY Uint16s, SomeShorts
  <1> QED
    BY <1>1, <1>3, <1>2, In_ofp_header DEF send_header, HelloTable, Entry, Set

FlowModTable(port) ==
  <<Entry(0, <<4>>), Entry(1, <<14>>), Entry(4, <<18, 52, 86, 120>>),
    Entry(8, COOKIE_SWITCH), Entry(16, Zeros(8)), Entry(24, Zeros(1)),
    Entry(25, <<0>>), Entry(26, Zeros(2)), Entry(28, Zeros(2)),
    Entry(30, Uint16(1)), Entry(32, Ones(4)), Entry(36, Ones(4)),
    Entry(40, Ones(4)), Entry(44, Zeros(2)), Entry(46, Zeros(2)),
    Entry(48, Uint16(1)), Entry(50, Uint16(4)), Entry(52, Zeros(4)),
    Entry(56, Uint16(4)), Entry(58, Uint16(24)), Entry(60, Zeros(4)),
    Entry(64, Uint16(0)), Entry(66, Uint16(16)), Entry(68, port),
    Entry(72, Ones(2)), Entry(74, Zeros(6)), Entry(2, Uint16(80))>>

\* Where prepare_switch puts the instruction and its action.
LEMMA FlowModPlaces ==
  ASSUME host.machine \in Machines
  PROVE  /\ InstructionAt = 56 /\ ActionAt = 64 /\ FlowModSize = 80
         /\ MatchAt = 48 /\ MatchLength = 4
  BY In_ofp_flow_mod, In_ofp_instruction_actions, In_ofp_action_output, In_ofp_match
     DEF InstructionAt, ActionAt, FlowModSize, MatchAt, MatchLength

\* prepare_switch assigns that.
LEMMA FlowModAssigned ==
  ASSUME host.machine \in Machines, NEW port \in [1 .. 4 -> Byte]
  PROVE  prepare_switch(port) = FlowModTable(port)
  <1>1. /\ Stored(OFP_VERSION) = <<4>> /\ Stored(OFPT_FLOW_MOD) = <<14>>
        /\ Stored(OFPFC_ADD) = <<0>>
    BY StoredSame DEF OFP_VERSION, OFPT_FLOW_MOD, OFPFC_ADD, Byte
  <1>2. Stored(hton(port)) = port /\ Stored(hton(<<18, 52, 86, 120>>)) = <<18, 52, 86, 120>>
    BY Quads DEF Byte
  <1>3. /\ Stored(hton(Uint16(0))) = Uint16(0) /\ Stored(hton(Uint16(1))) = Uint16(1)
        /\ Stored(hton(Uint16(4))) = Uint16(4) /\ Stored(hton(Uint16(16))) = Uint16(16)
        /\ Stored(hton(Uint16(24))) = Uint16(24) /\ Stored(hton(Uint16(80))) = Uint16(80)
    BY Uint16s, SomeShorts
  <1>4. \A n \in Nat : Stored(Zeros(n)) = Zeros(n) /\ Stored(Ones(n)) = Ones(n)
    BY StoredSame
  <1>5. /\ FlowModSize - InstructionAt = 24 /\ FlowModSize - ActionAt = 16
        /\ InstructionAt = 56 /\ ActionAt = 64 /\ FlowModSize = 80 /\ MatchAt = 48 /\ MatchLength = 4
    BY FlowModPlaces
  <1>6. /\ Set(0, ofp_header, "version", OFP_VERSION) = Entry(0, <<4>>)
        /\ Set(0, ofp_header, "type", OFPT_FLOW_MOD) = Entry(1, <<14>>)
        /\ Set(0, ofp_header, "xid", hton(<<18, 52, 86, 120>>)) = Entry(4, <<18, 52, 86, 120>>)
        /\ Set(0, ofp_header, "length", hton(Uint16(FlowModSize))) = Entry(2, Uint16(80))
    BY <1>1, <1>2, <1>3, <1>5, In_ofp_header DEF Set, Entry
  <1>7. /\ Set(0, ofp_flow_mod, "cookie", hton(COOKIE_SWITCH)) = Entry(8, COOKIE_SWITCH)
        /\ Set(0, ofp_flow_mod, "cookie_mask", Zeros(8)) = Entry(16, Zeros(8))
        /\ Set(0, ofp_flow_mod, "table_id", Zeros(1)) = Entry(24, Zeros(1))
        /\ Set(0, ofp_flow_mod, "command", OFPFC_ADD) = Entry(25, <<0>>)
        /\ Set(0, ofp_flow_mod, "idle_timeout", Zeros(2)) = Entry(26, Zeros(2))
        /\ Set(0, ofp_flow_mod, "hard_timeout", Zeros(2)) = Entry(28, Zeros(2))
        /\ Set(0, ofp_flow_mod, "priority", hton(Uint16(1))) = Entry(30, Uint16(1))
    BY <1>1, <1>3, <1>4, Cookie, In_ofp_flow_mod DEF Set, Entry
  <1>8. /\ Set(0, ofp_flow_mod, "buffer_id", OFP_NO_BUFFER) = Entry(32, Ones(4))
        /\ Set(0, ofp_flow_mod, "out_port", OFPP_ANY) = Entry(36, Ones(4))
        /\ Set(0, ofp_flow_mod, "out_group", OFPG_ANY) = Entry(40, Ones(4))
        /\ Set(0, ofp_flow_mod, "flags", Zeros(2)) = Entry(44, Zeros(2))
        /\ Set(0, ofp_flow_mod, "pad", Zeros(2)) = Entry(46, Zeros(2))
    BY <1>4, In_ofp_flow_mod DEF Set, Entry, OFP_NO_BUFFER, OFPP_ANY, OFPG_ANY
  <1>9. /\ Set(MatchAt, ofp_match, "type", hton(OFPMT_OXM)) = Entry(48, Uint16(1))
        /\ Set(MatchAt, ofp_match, "length", hton(Uint16(MatchLength))) = Entry(50, Uint16(4))
        /\ Set(MatchAt, ofp_match, "pad", Zeros(4)) = Entry(52, Zeros(4))
    BY <1>3, <1>4, <1>5, In_ofp_match DEF Set, Entry, OFPMT_OXM
  <1> DEFINE instruction(name, value) == Set(InstructionAt, ofp_instruction_actions, name, value)
             action(name, value) == Set(ActionAt, ofp_action_output, name, value)
  <1>10. /\ instruction("type", hton(OFPIT_APPLY_ACTIONS)) = Entry(56, Uint16(4))
         /\ instruction("len", hton(Uint16(FlowModSize - InstructionAt))) = Entry(58, Uint16(24))
         /\ instruction("pad", Zeros(4)) = Entry(60, Zeros(4))
    BY <1>3, <1>4, <1>5, In_ofp_instruction_actions DEF Set, Entry, OFPIT_APPLY_ACTIONS
  <1>11. /\ action("type", hton(OFPAT_OUTPUT)) = Entry(64, Uint16(0))
         /\ action("len", hton(Uint16(FlowModSize - ActionAt))) = Entry(66, Uint16(16))
         /\ action("port", hton(port)) = Entry(68, port)
    BY <1>2, <1>3, <1>5, In_ofp_action_output DEF Set, Entry, OFPAT_OUTPUT
  <1>12. /\ action("max_len", OFPCML_NO_BUFFER) = Entry(72, Ones(2))
         /\ action("pad", Zeros(6)) = Entry(74, Zeros(6))
    BY <1>4, <1>5, In_ofp_action_output DEF Set, Entry, OFPCML_NO_BUFFER
  <1> QED
    BY <1>6, <1>7, <1>8, <1>9, <1>10, <1>11, <1>12 DEF prepare_switch, FlowModTable

\* What is built, on which machine: chosen by Init, never changed.
Known ==
  /\ host \in [little : BOOLEAN, machine : Machines]
  /\ \/ what \in [kind : {"hello"}, type : Types, xid : Xids]
     \/ what \in [kind : {"flow_mod"}, port : Ports]
     \/ what \in [kind : {"packet"}, src : Counters, dst : Counters]

PacketTable(src, dst) ==
  <<Entry(0, Zeros(6)), Entry(6, Zeros(6)), Entry(12, Uint16(2048)),
    Entry(14, <<69>>), Entry(15, Zeros(1)), Entry(16, Stored(Uint16(20))),
    Entry(18, Zeros(2)), Entry(20, Zeros(2)), Entry(22, <<64>>), Entry(23, <<6>>),
    Entry(26, <<10, 0, 0, 1>>), Entry(30, <<10, 0, 0, 2>>),
    Entry(46, <<80>>), Entry(47, <<16>>), Entry(50, Zeros(2)), Entry(52, Zeros(2)),
    Entry(16, Stored(Uint16(1440))), Entry(8, src), Entry(2, dst),
    Entry(2, <<12>>), Entry(6, <<0, 2, 179>>)>>

\* Where make_pkt puts the headers.
LEMMA PacketPlaces ==
  ASSUME host.machine \in Machines
  PROVE  IpAt = 14 /\ TcpAt = 34 /\ TcpAt + Sizeof(sniff_tcp) = 54
  BY In_sniff_ethernet, In_sniff_ip, In_sniff_tcp DEF IpAt, TcpAt

\* make_pkt assigns that.
LEMMA PacketAssigned ==
  ASSUME host.machine \in Machines, NEW src \in [1 .. 4 -> Byte], NEW dst \in [1 .. 4 -> Byte]
  PROVE  make_pkt(src, dst) = PacketTable(src, dst)
  <1> DEFINE eth(name, value) == Set(0, sniff_ethernet, name, value)
             ip(name, value) == Set(IpAt, sniff_ip, name, value)
             tcp(name, value) == Set(TcpAt, sniff_tcp, name, value)
  <1>1. /\ Stored(Uint8(69)) = <<69>> /\ Stored(Uint8(64)) = <<64>> /\ Stored(Uint8(6)) = <<6>>
        /\ Stored(Uint8(80)) = <<80>> /\ Stored(Uint8(16)) = <<16>> /\ Uint8(12) = <<12>>
    <2>1. 69 \in Byte /\ 64 \in Byte /\ 6 \in Byte /\ 80 \in Byte /\ 16 \in Byte
      BY DEF Byte
    <2>2. \A n \in Byte : Stored(Uint8(n)) = <<n>>
      BY StoredSame
    <2> QED
      BY <2>1, <2>2 DEF Uint8
  <1>2. /\ Stored(hton(<<10, 0, 0, 1>>)) = <<10, 0, 0, 1>>
        /\ Stored(hton(<<10, 0, 0, 2>>)) = <<10, 0, 0, 2>>
    BY Quads DEF Byte
  <1>3. Stored(hton(src)) = src /\ Stored(hton(dst)) = dst
    BY Quads
  <1>4. \A n \in Nat : Stored(Zeros(n)) = Zeros(n)
    BY StoredSame
  <1>5. IpAt = 14 /\ TcpAt = 34 /\ Sizeof(sniff_ip) + Sizeof(sniff_tcp) + 1400 = 1440
    BY PacketPlaces, In_sniff_ip, In_sniff_tcp
  <1>6. eth("ether_type", hton(Uint16(8 * 256))) = Entry(12, Uint16(2048))
    BY Uint16s, SomeShorts, In_sniff_ethernet DEF Set, Entry
  <1>7. /\ ip("ip_vhl", Uint8(69)) = Entry(14, <<69>>) /\ ip("ip_tos", Zeros(1)) = Entry(15, Zeros(1))
        /\ ip("ip_len", Uint16(20)) = Entry(16, Stored(Uint16(20)))
        /\ ip("ip_id", Zeros(2)) = Entry(18, Zeros(2)) /\ ip("ip_off", Zeros(2)) = Entry(20, Zeros(2))
    BY <1>1, <1>4, <1>5, In_sniff_ip DEF Set, Entry
  <1>8. /\ ip("ip_ttl", Uint8(64)) = Entry(22, <<64>>) /\ ip("ip_p", Uint8(6)) = Entry(23, <<6>>)
        /\ ip("ip_src", hton(<<10, 0, 0, 1>>)) = Entry(26, <<10, 0, 0, 1>>)
        /\ ip("ip_dst", hton(<<10, 0, 0, 2>>)) = Entry(30, <<10, 0, 0, 2>>)
        /\ ip("ip_len", Uint16(Sizeof(sniff_ip) + Sizeof(sniff_tcp) + 1400))
             = Entry(16, Stored(Uint16(1440)))
    BY <1>1, <1>2, <1>5, In_sniff_ip DEF Set, Entry
  <1>9. /\ tcp("th_offx2", Uint8(80)) = Entry(46, <<80>>) /\ tcp("th_flags", Uint8(16)) = Entry(47, <<16>>)
        /\ tcp("th_sum", Zeros(2)) = Entry(50, Zeros(2)) /\ tcp("th_urp", Zeros(2)) = Entry(52, Zeros(2))
    BY <1>1, <1>4, <1>5, In_sniff_tcp DEF Set, Entry
  <1>10. At(sniff_ethernet, "ether_dhost") = 0 /\ At(sniff_ethernet, "ether_shost") = 6
    BY In_sniff_ethernet
  <1> DEFINE at(name, k, value) == [at |-> At(sniff_ethernet, name) + k, bytes |-> value]
  <1>11. /\ at("ether_dhost", 0, Zeros(6)) = Entry(0, Zeros(6))
         /\ at("ether_shost", 0, Zeros(6)) = Entry(6, Zeros(6))
         /\ at("ether_shost", 2, Stored(hton(src))) = Entry(8, src)
         /\ at("ether_dhost", 2, Stored(hton(dst))) = Entry(2, dst)
         /\ at("ether_dhost", 2, Uint8(12)) = Entry(2, <<12>>)
         /\ at("ether_shost", 0, <<0, 2, 179>>) = Entry(6, <<0, 2, 179>>)
    BY <1>1, <1>3, <1>10 DEF Entry
  <1> QED
    BY <1>6, <1>7, <1>8, <1>9, <1>11 DEF make_pkt, PacketTable

Table ==
  CASE what.kind = "hello" -> HelloTable(what.type, what.xid)
    [] what.kind = "flow_mod" -> FlowModTable(what.port)
    [] what.kind = "packet" -> PacketTable(what.src, what.dst)

Extent == CASE what.kind = "hello" -> 8 [] what.kind = "flow_mod" -> 80 [] what.kind = "packet" -> 54

\* What is assigned, and how large the buffer is.
LEMMA Tabled ==
  ASSUME Known
  PROVE  Assignments = Table /\ Size = Extent
  <1>1. host.machine \in Machines
    BY DEF Known
  <1>2. CASE what \in [kind : {"hello"}, type : Types, xid : Xids]
    <2>1. what.kind = "hello" /\ what.type \in [1 .. 4 -> Byte] /\ what.xid \in [1 .. 4 -> Byte]
      BY <1>2, WireAssumption DEF Byte
    <2> QED
      BY <1>1, <2>1, HelloAssigned, In_ofp_header DEF Assignments, Table, Size, Extent
  <1>3. CASE what \in [kind : {"flow_mod"}, port : Ports]
    <2>1. what.kind = "flow_mod" /\ what.port \in [1 .. 4 -> Byte]
      BY <1>3, WireAssumption DEF Byte
    <2> QED
      BY <1>1, <2>1, FlowModAssigned, FlowModPlaces DEF Assignments, Table, Size, Extent
  <1>4. CASE what \in [kind : {"packet"}, src : Counters, dst : Counters]
    <2>1. what.kind = "packet" /\ what.src \in [1 .. 4 -> Byte] /\ what.dst \in [1 .. 4 -> Byte]
      BY <1>4, WireAssumption DEF Byte
    <2> QED
      BY <1>1, <2>1, PacketAssigned, PacketPlaces DEF Assignments, Table, Size, Extent
  <1> QED
    BY <1>2, <1>3, <1>4 DEF Known

-----------------------------------------------------------------------------
(* The memory, one assignment after the other. *)

Covers(j, k) == k - Table[j].at \in DOMAIN Table[j].bytes

Fits(a) == a.at \in Nat /\ a.bytes \in Seq(Byte)

\* Bytes may be assigned anywhere.
LEMMA EntryFits == \A at \in Nat, bytes \in Seq(Byte) : Fits(Entry(at, bytes))
  BY DEF Fits, Entry

\* Every assignment is of bytes.
LEMMA TableBytes ==
  ASSUME Known
  PROVE  /\ DOMAIN Table = 1 .. Len(Table) /\ Len(Table) \in Nat
         /\ Extent \in Nat
         /\ \A j \in 1 .. Len(Table) : Fits(Table[j])
  <1>1. ASSUME NEW at \in Nat
        PROVE  /\ \A n \in Byte : Fits(Entry(at, <<n>>))
               /\ Fits(Entry(at, <<18, 52, 86, 120>>)) /\ Fits(Entry(at, <<0, 2, 179>>))
               /\ Fits(Entry(at, <<10, 0, 0, 1>>)) /\ Fits(Entry(at, <<10, 0, 0, 2>>))
    BY DEF Fits, Entry, Byte
  <1>2. ASSUME NEW at \in Nat
        PROVE  /\ Fits(Entry(at, <<4>>)) /\ Fits(Entry(at, <<14>>)) /\ Fits(Entry(at, <<0>>))
               /\ Fits(Entry(at, <<69>>)) /\ Fits(Entry(at, <<64>>)) /\ Fits(Entry(at, <<6>>))
               /\ Fits(Entry(at, <<80>>)) /\ Fits(Entry(at, <<16>>)) /\ Fits(Entry(at, <<12>>))
    BY DEF Fits, Entry, Byte
  <1>3. ASSUME NEW at \in Nat
        PROVE  /\ \A n \in Nat : Fits(Entry(at, Zeros(n))) /\ Fits(Entry(at, Ones(n)))
               /\ \A n \in Shorts : /\ Fits(Entry(at, Uint16(n)))
                                              /\ Fits(Entry(at, Stored(Uint16(n))))
               /\ Fits(Entry(at, COOKIE_SWITCH))
               /\ \A v \in [1 .. 4 -> Byte] : Fits(Entry(at, v))
    <2>1. ASSUME NEW n \in Nat PROVE Fits(Entry(at, Zeros(n))) /\ Fits(Entry(at, Ones(n)))
      BY Runs, EntryFits
    <2>2. ASSUME NEW n \in Shorts
          PROVE  Fits(Entry(at, Uint16(n))) /\ Fits(Entry(at, Stored(Uint16(n))))
      <3>1. Uint16(n) \in Seq(Byte)
        BY Uint16s
      <3>2. Stored(Uint16(n)) \in Seq(Byte)
        BY <3>1, StoredBytes
      <3> QED
        BY <3>1, <3>2, EntryFits
    <2>3. Fits(Entry(at, COOKIE_SWITCH))
      BY Cookie, EntryFits
    <2>4. ASSUME NEW v \in [1 .. 4 -> Byte] PROVE Fits(Entry(at, v))
      BY Quads, EntryFits
    <2> QED
      BY <2>1, <2>2, <2>3, <2>4
  <1>4. CASE what \in [kind : {"hello"}, type : Types, xid : Xids]
    <2>1. /\ what.kind = "hello" /\ what.type \in [1 .. 4 -> Byte]
          /\ what.xid \in [1 .. 4 -> Byte] /\ what.type[4] \in Byte
      BY <1>4, WireAssumption DEF Byte
    <2>2. /\ Fits(Entry(1, <<what.type[4]>>)) /\ Fits(Entry(0, <<4>>))
          /\ Fits(Entry(2, Uint16(8))) /\ Fits(Entry(4, what.xid))
      BY <1>1, <1>2, <1>3, SomeShorts, <2>1
    <2> QED
      BY <2>1, <2>2 DEF Table, HelloTable, Extent
  <1>5. CASE what \in [kind : {"flow_mod"}, port : Ports]
    <2>1. what.kind = "flow_mod" /\ what.port \in [1 .. 4 -> Byte]
      BY <1>5, WireAssumption DEF Byte
    <2>2. /\ Fits(Entry(0, <<4>>)) /\ Fits(Entry(1, <<14>>)) /\ Fits(Entry(4, <<18, 52, 86, 120>>))
          /\ Fits(Entry(8, COOKIE_SWITCH)) /\ Fits(Entry(16, Zeros(8))) /\ Fits(Entry(24, Zeros(1)))
          /\ Fits(Entry(25, <<0>>)) /\ Fits(Entry(26, Zeros(2))) /\ Fits(Entry(28, Zeros(2)))
          /\ Fits(Entry(30, Uint16(1))) /\ Fits(Entry(32, Ones(4))) /\ Fits(Entry(36, Ones(4)))
          /\ Fits(Entry(40, Ones(4))) /\ Fits(Entry(44, Zeros(2))) /\ Fits(Entry(46, Zeros(2)))
      BY <1>1, <1>2, <1>3, SomeShorts
    <2>3. /\ Fits(Entry(48, Uint16(1))) /\ Fits(Entry(50, Uint16(4))) /\ Fits(Entry(52, Zeros(4)))
          /\ Fits(Entry(56, Uint16(4))) /\ Fits(Entry(58, Uint16(24))) /\ Fits(Entry(60, Zeros(4)))
          /\ Fits(Entry(64, Uint16(0))) /\ Fits(Entry(66, Uint16(16))) /\ Fits(Entry(68, what.port))
          /\ Fits(Entry(72, Ones(2))) /\ Fits(Entry(74, Zeros(6))) /\ Fits(Entry(2, Uint16(80)))
      BY <1>3, <2>1, SomeShorts
    <2> QED
      BY <2>1, <2>2, <2>3 DEF Table, FlowModTable, Extent
  <1>6. CASE what \in [kind : {"packet"}, src : Counters, dst : Counters]
    <2>1. /\ what.kind = "packet" /\ what.src \in [1 .. 4 -> Byte]
          /\ what.dst \in [1 .. 4 -> Byte]
      BY <1>6, WireAssumption DEF Byte
    <2>2. /\ Fits(Entry(0, Zeros(6))) /\ Fits(Entry(6, Zeros(6))) /\ Fits(Entry(12, Uint16(2048)))
          /\ Fits(Entry(14, <<69>>)) /\ Fits(Entry(15, Zeros(1))) /\ Fits(Entry(16, Stored(Uint16(20))))
          /\ Fits(Entry(18, Zeros(2))) /\ Fits(Entry(20, Zeros(2))) /\ Fits(Entry(22, <<64>>))
          /\ Fits(Entry(23, <<6>>)) /\ Fits(Entry(26, <<10, 0, 0, 1>>)) /\ Fits(Entry(30, <<10, 0, 0, 2>>))
      BY <1>1, <1>2, <1>3, SomeShorts
    <2>3. /\ Fits(Entry(46, <<80>>)) /\ Fits(Entry(47, <<16>>)) /\ Fits(Entry(50, Zeros(2)))
          /\ Fits(Entry(52, Zeros(2))) /\ Fits(Entry(16, Stored(Uint16(1440)))) /\ Fits(Entry(8, what.src))
          /\ Fits(Entry(2, what.dst)) /\ Fits(Entry(2, <<12>>)) /\ Fits(Entry(6, <<0, 2, 179>>))
      BY <1>1, <1>2, <1>3, SomeShorts, <2>1
    <2> QED
      BY <2>1, <2>2, <2>3 DEF Table, PacketTable, Extent
  <1> QED
    BY <1>4, <1>5, <1>6 DEF Known

\* A byte is what was last assigned to it.
MemoryInv ==
  /\ written \in 0 .. Len(Table)
  /\ memory = [k \in 1 .. Extent |-> memory[k]]
  /\ \A k \in 1 .. Extent :
       /\ (\A j \in 1 .. written : ~ Covers(j, k)) => memory[k] = Unset
       /\ (\E j \in 1 .. written : Covers(j, k)) => memory[k] \in Byte
       /\ \A j \in 1 .. written :
            Covers(j, k) /\ (\A i \in j + 1 .. written : ~ Covers(i, k))
              => memory[k] = Table[j].bytes[k - Table[j].at]

\* An assignment keeps it so.
LEMMA MemoryStep ==
  ASSUME Known, MemoryInv, assign
  PROVE  MemoryInv'
  <1>1. Assignments = Table /\ Size = Extent
    BY Tabled
  <1>2. /\ DOMAIN Table = 1 .. Len(Table) /\ Len(Table) \in Nat /\ Extent \in Nat
        /\ \A j \in 1 .. Len(Table) : Table[j].at \in Nat /\ Table[j].bytes \in Seq(Byte)
    BY TableBytes DEF Fits
  <1>3. written < Len(Table) /\ written' = written + 1 /\ memory' = Overwrite(Table[written + 1])
    BY <1>1 DEF assign
  <1>4. Table' = Table /\ Extent' = Extent
    BY DEF assign, Table, Extent, HelloTable, FlowModTable, PacketTable, Stored
  <1>5. \A j, k : Covers(j, k)' <=> Covers(j, k)
    BY <1>4 DEF Covers
  <1>6. written \in 0 .. Len(Table) /\ memory = [k \in 1 .. Extent |-> memory[k]]
    BY DEF MemoryInv
  <1> DEFINE w == written + 1
  <1>7. w \in 1 .. Len(Table) /\ written' = w /\ w \in Nat /\ written \in Nat
    BY <1>2, <1>3, <1>6
  <1>8. DOMAIN memory = 1 .. Extent
    BY <1>6
  <1>9. /\ memory' = [k \in 1 .. Extent |-> memory'[k]]
        /\ \A k \in 1 .. Extent :
             memory'[k] = IF Covers(w, k) THEN Table[w].bytes[k - Table[w].at] ELSE memory[k]
    BY <1>3, <1>8 DEF Overwrite, Covers
  <1> HIDE DEF w
  <1>10. ASSUME NEW k \in 1 .. Extent
         PROVE  /\ (\A j \in 1 .. w : ~ Covers(j, k)) => memory'[k] = Unset
                /\ (\E j \in 1 .. w : Covers(j, k)) => memory'[k] \in Byte
                /\ \A j \in 1 .. w :
                     Covers(j, k) /\ (\A i \in j + 1 .. w : ~ Covers(i, k))
                       => memory'[k] = Table[j].bytes[k - Table[j].at]
    <2>1. \A j \in 1 .. w : j = w \/ j \in 1 .. written
      BY <1>7 DEF w
    <2>2. \A j \in 1 .. written : j \in 1 .. w /\ w \in j + 1 .. w
      BY <1>7 DEF w
    <2>3. \A j \in 1 .. written : \A i \in j + 1 .. written : i \in j + 1 .. w
      BY <1>7 DEF w
    <2>4. memory'[k] = IF Covers(w, k) THEN Table[w].bytes[k - Table[w].at] ELSE memory[k]
      BY <1>9
    <2>5. /\ (\A j \in 1 .. written : ~ Covers(j, k)) => memory[k] = Unset
          /\ (\E j \in 1 .. written : Covers(j, k)) => memory[k] \in Byte
          /\ \A j \in 1 .. written :
               Covers(j, k) /\ (\A i \in j + 1 .. written : ~ Covers(i, k))
                 => memory[k] = Table[j].bytes[k - Table[j].at]
      BY DEF MemoryInv
    <2>6. CASE Covers(w, k)
      <3>1. memory'[k] = Table[w].bytes[k - Table[w].at]
        BY <2>4, <2>6
      <3>2. memory'[k] \in Byte
        BY <1>2, <1>7, <2>6, <3>1 DEF Covers
      <3> QED
        BY <1>7, <2>1, <2>2, <2>6, <3>1, <3>2
    <2>7. CASE ~ Covers(w, k)
      <3>1. memory'[k] = memory[k]
        BY <2>4, <2>7
      <3> QED
        BY <2>1, <2>2, <2>3, <2>5, <2>7, <3>1
    <2> QED
      BY <2>6, <2>7
  <1>11. written' \in 0 .. Len(Table')
    BY <1>2, <1>4, <1>7
  <1> QED
    BY <1>4, <1>5, <1>7, <1>9, <1>10, <1>11 DEF MemoryInv

-----------------------------------------------------------------------------
(* What is in the memory once all is written. *)

\* The memory is of bytes, or of none.
LEMMA MemoryTyped ==
  ASSUME Known, MemoryInv
  PROVE  /\ memory \in [1 .. Extent -> Byte \cup {Unset}]
         /\ memory \in Seq(Byte \cup {Unset}) /\ Len(memory) = Extent
  <1>1. \A k \in 1 .. Extent : memory[k] \in Byte \cup {Unset}
    BY DEF MemoryInv
  <1>2. memory \in [1 .. Extent -> Byte \cup {Unset}]
    BY <1>1 DEF MemoryInv
  <1>3. Extent \in Nat
    BY TableBytes
  <1> QED
    BY <1>2, <1>3, SeqDef

\* A part of the buffer.
LEMMA Shift ==
  ASSUME NEW at \in Nat, NEW n \in Nat, NEW extent \in Nat, at + n <= extent, NEW k \in 1 .. n
  PROVE  at + k \in at + 1 .. at + n /\ at + k \in 1 .. extent /\ (at + k) - at = k
  OBVIOUS

LEMMA Elements ==
  ASSUME NEW S, NEW s \in Seq(S), NEW n, n = Len(s)
  PROVE  s = [k \in 1 .. n |-> s[k]]
  OBVIOUS

\* A field reads as the bytes assigned to it, if nothing was assigned to it later.
LEMMA FieldRead ==
  ASSUME Known, MemoryInv, written = Len(Table), NEW j \in 1 .. Len(Table),
         NEW at, at = Table[j].at, NEW n, n = Len(Table[j].bytes), at + n <= Extent,
         \A i \in j + 1 .. Len(Table) : \A k \in at + 1 .. at + n : ~ Covers(i, k)
  PROVE  SubSeq(memory, at + 1, at + n) = Table[j].bytes
  <1> DEFINE bytes == Table[j].bytes
  <1>1. at \in Nat /\ bytes \in Seq(Byte) /\ n \in Nat /\ Extent \in Nat /\ n = Len(bytes)
    BY TableBytes DEF Fits
  <1>2. ASSUME NEW k \in 1 .. n PROVE memory[at + k] = bytes[k]
    <2>1. at + k \in at + 1 .. at + n /\ at + k \in 1 .. Extent /\ (at + k) - at = k
      BY <1>1, Shift
    <2>2. Covers(j, at + k)
      <3>1. DOMAIN bytes = 1 .. n
        BY <1>1
      <3>2. (at + k) - Table[j].at = k
        BY <2>1
      <3> QED
        BY <3>1, <3>2 DEF Covers
    <2>3. memory[at + k] = Table[j].bytes[(at + k) - Table[j].at]
      BY <2>1, <2>2 DEF MemoryInv
    <2> QED
      BY <2>1, <2>3
  <1>3. SubSeq(memory, at + 1, at + n) = [k \in 1 .. n |-> bytes[k]]
    <2> DEFINE part == SubSeq(memory, at + 1, at + n)
    <2>1. /\ part = [k \in 1 .. n |-> part[k]]
          /\ \A k \in 1 .. n : part[k] = memory[at + k]
      <3> DEFINE p == at + 1
                 q == at + n
      <3>1. p \in Int /\ q \in Int /\ \A k \in p .. q : k \in 1 .. Extent
        BY <1>1
      <3>2. p \in Int /\ q \in Int /\ \A k \in p .. q : memory[k] \in Byte \cup {Unset}
        BY <3>1, MemoryTyped
      <3>3. q - p + 1 = n /\ (n # 0 => p <= q) /\ (n = 0 => ~ (p <= q))
        BY <1>1
      <3>4. part = SubSeq(memory, p, q)
        OBVIOUS
      <3> HIDE DEF p, q, part
      <3>5. /\ part \in Seq(Byte \cup {Unset})
            /\ Len(part) = IF p <= q THEN q - p + 1 ELSE 0
            /\ \A k \in 1 .. q - p + 1 : part[k] = memory[p + k - 1]
        BY <3>2, <3>4, SubSeqProperties
      <3>6. Len(part) = n
        BY <1>1, <3>5, <3>3
      <3>7. \A k \in 1 .. n : p + k - 1 = at + k
        BY <1>1 DEF p
      <3> QED
        BY <3>5, <3>6, <3>7, <3>3
    <2> HIDE DEF part
    <2>2. part = [k \in 1 .. n |-> bytes[k]]
      BY <1>2, <2>1
    <2> QED
      BY <2>2 DEF part
  <1>4. bytes = [k \in 1 .. n |-> bytes[k]]
    BY <1>1, Elements
  <1> QED
    BY <1>3, <1>4

Reach(a) == Len(a.bytes)

\* The assignments start at starts and are of sizes bytes.
Shaped(n, starts, sizes) ==
  /\ Len(Table) = n
  /\ \A j \in 1 .. n :
       /\ Table[j].at = starts[j] /\ Reach(Table[j]) = sizes[j]
       /\ starts[j] \in Nat /\ sizes[j] \in Nat /\ starts[j] + sizes[j] <= Extent

\* Which assignments a byte is in.
LEMMA ShapedCovers ==
  ASSUME Known, NEW n, NEW starts, NEW sizes, Shaped(n, starts, sizes),
         NEW j \in 1 .. n, NEW k \in 1 .. Extent
  PROVE  Covers(j, k) <=> starts[j] < k /\ k <= starts[j] + sizes[j]
  <1> DEFINE s == starts[j]
             z == sizes[j]
  <1>1. Table[j].at = s /\ Len(Table[j].bytes) = z /\ s \in Nat /\ z \in Nat
    BY DEF Shaped, Reach
  <1>2. Table[j].bytes \in Seq(Byte) /\ k \in Int
    BY TableBytes DEF Fits, Shaped
  <1>3. DOMAIN Table[j].bytes = 1 .. z
    BY <1>1, <1>2
  <1> HIDE DEF s, z
  <1>4. Covers(j, k) <=> s < k /\ k <= s + z
    BY <1>1, <1>2, <1>3 DEF Covers
  <1> QED
    BY <1>4 DEF s, z

\* A field that was assigned as a whole, and not overwritten.
LEMMA ShapedGet ==
  ASSUME Known, MemoryInv, NEW n, NEW starts, NEW sizes, Shaped(n, starts, sizes),
         written = n, NEW j \in 1 .. n, NEW base, NEW struct, NEW name,
         base + At(struct, name) = starts[j], fieldsize(struct, name, host.machine) = sizes[j],
         \A i \in j + 1 .. n :
           starts[j] + sizes[j] <= starts[i] \/ starts[i] + sizes[i] <= starts[j]
  PROVE  Get(base, struct, name) = Table[j].bytes
  <1> DEFINE at == starts[j]
             z == sizes[j]
  <1>1. /\ at \in Nat /\ z \in Nat /\ at + z <= Extent /\ n = Len(Table)
        /\ at = Table[j].at /\ z = Len(Table[j].bytes) /\ n \in Nat /\ Extent \in Nat
    BY TableBytes DEF Shaped, Reach
  <1>2. ASSUME NEW i \in j + 1 .. n, NEW k \in at + 1 .. at + z PROVE ~ Covers(i, k)
    <2>1. i \in 1 .. n /\ k \in 1 .. Extent
      BY <1>1
    <2>2. Covers(i, k) <=> starts[i] < k /\ k <= starts[i] + sizes[i]
      BY <2>1, ShapedCovers
    <2> DEFINE u == starts[i]
               v == sizes[i]
    <2>3. u \in Nat /\ v \in Nat /\ (Covers(i, k) <=> u < k /\ k <= u + v)
      BY <2>1, <2>2 DEF Shaped
    <2>4. at + z <= u \/ u + v <= at
      OBVIOUS
    <2>5. at < k /\ k <= at + z /\ k \in Nat /\ at \in Nat /\ z \in Nat
      BY <1>1
    <2> HIDE DEF at, z, u, v
    <2> QED
      BY <2>3, <2>4, <2>5
  <1> HIDE DEF at, z
  <1>3. SubSeq(memory, at + 1, at + z) = Table[j].bytes
    BY <1>1, <1>2, FieldRead
  <1> DEFINE from == base + At(struct, name)
             size == fieldsize(struct, name, host.machine)
  <1>4. Get(base, struct, name) = SubSeq(memory, from + 1, from + size)
    BY DEF Get
  <1>5. from = at /\ size = z
    BY DEF at, z
  <1> HIDE DEF from, size
  <1> QED
    BY <1>3, <1>4, <1>5

\* A byte is what the last assignment to it says.
LEMMA ShapedByte ==
  ASSUME Known, MemoryInv, NEW n, NEW starts, NEW sizes, Shaped(n, starts, sizes),
         written = n, NEW k \in 1 .. Extent, NEW j \in 1 .. n,
         starts[j] < k, k <= starts[j] + sizes[j],
         \A i \in j + 1 .. n : ~ (starts[i] < k /\ k <= starts[i] + sizes[i])
  PROVE  memory[k] = Table[j].bytes[k - starts[j]]
  <1>1. n \in Nat
    BY TableBytes DEF Shaped
  <1>2. \A i \in 1 .. n : /\ Covers(i, k) <=> starts[i] < k /\ k <= starts[i] + sizes[i]
                          /\ Table[i].at = starts[i]
    BY ShapedCovers DEF Shaped
  <1>3. \A i \in j + 1 .. n : i \in 1 .. n
    BY <1>1
  <1> QED
    BY <1>2, <1>3 DEF MemoryInv

\* A byte in none of them is not set, and no other.
LEMMA ShapedUnset ==
  ASSUME Known, MemoryInv, NEW n, NEW starts, NEW sizes, Shaped(n, starts, sizes),
         written = n, NEW k \in 1 .. Extent
  PROVE  memory[k] = Unset <=>
           \A j \in 1 .. n : ~ (starts[j] < k /\ k <= starts[j] + sizes[j])
  <1>1. \A j \in 1 .. n : Covers(j, k) <=> starts[j] < k /\ k <= starts[j] + sizes[j]
    BY ShapedCovers
  <1>2. /\ (\A j \in 1 .. n : ~ Covers(j, k)) => memory[k] = Unset
        /\ (\E j \in 1 .. n : Covers(j, k)) => memory[k] \in Byte
    BY DEF MemoryInv
  <1>3. Unset \notin Byte
    BY WireAssumption DEF Byte
  <1> QED
    BY <1>1, <1>2, <1>3

\* How many bytes a value takes.
LEMMA Reaches ==
  ASSUME NEW at
  PROVE  /\ Reach(Entry(at, Zeros(1))) = 1 /\ Reach(Entry(at, Zeros(2))) = 2
         /\ Reach(Entry(at, Zeros(4))) = 4 /\ Reach(Entry(at, Zeros(6))) = 6
         /\ Reach(Entry(at, Zeros(8))) = 8 /\ Reach(Entry(at, Ones(2))) = 2
         /\ Reach(Entry(at, Ones(4))) = 4 /\ Reach(Entry(at, COOKIE_SWITCH)) = 8
         /\ Reach(Entry(at, Uint16(0))) = 2 /\ Reach(Entry(at, Uint16(1))) = 2
         /\ Reach(Entry(at, Uint16(4))) = 2 /\ Reach(Entry(at, Uint16(8))) = 2
         /\ Reach(Entry(at, Uint16(16))) = 2 /\ Reach(Entry(at, Uint16(24))) = 2
         /\ Reach(Entry(at, Uint16(80))) = 2 /\ Reach(Entry(at, Uint16(2048))) = 2
         /\ Reach(Entry(at, Stored(Uint16(20)))) = 2 /\ Reach(Entry(at, Stored(Uint16(1440)))) = 2
         /\ \A v \in [1 .. 4 -> Byte] : Reach(Entry(at, v)) = 4
  <1>1. /\ Len(Zeros(1)) = 1 /\ Len(Zeros(2)) = 2 /\ Len(Zeros(4)) = 4 /\ Len(Zeros(6)) = 6
        /\ Len(Zeros(8)) = 8 /\ Len(Ones(2)) = 2 /\ Len(Ones(4)) = 4 /\ Len(COOKIE_SWITCH) = 8
    BY Runs, Cookie
  <1>2. /\ Len(Uint16(0)) = 2 /\ Len(Uint16(1)) = 2 /\ Len(Uint16(4)) = 2 /\ Len(Uint16(8)) = 2
        /\ Len(Uint16(16)) = 2 /\ Len(Uint16(24)) = 2 /\ Len(Uint16(80)) = 2 /\ Len(Uint16(2048)) = 2
    BY Uint16s, SomeShorts
  <1>3. Len(Stored(Uint16(20))) = 2 /\ Len(Stored(Uint16(1440))) = 2
    <2>1. Uint16(20) \in Seq(Byte) /\ Len(Uint16(20)) = 2
      BY Uint16s, SomeShorts
    <2>2. Uint16(1440) \in Seq(Byte) /\ Len(Uint16(1440)) = 2
      BY Uint16s, SomeShorts
    <2> QED
      BY <2>1, <2>2, StoredBytes
  <1>4. /\ Reach(Entry(at, Zeros(1))) = 1 /\ Reach(Entry(at, Zeros(2))) = 2
        /\ Reach(Entry(at, Zeros(4))) = 4 /\ Reach(Entry(at, Zeros(6))) = 6
        /\ Reach(Entry(at, Zeros(8))) = 8 /\ Reach(Entry(at, Ones(2))) = 2
        /\ Reach(Entry(at, Ones(4))) = 4 /\ Reach(Entry(at, COOKIE_SWITCH)) = 8
    BY <1>1 DEF Reach, Entry
  <1>5. /\ Reach(Entry(at, Uint16(0))) = 2 /\ Reach(Entry(at, Uint16(1))) = 2
        /\ Reach(Entry(at, Uint16(4))) = 2 /\ Reach(Entry(at, Uint16(8))) = 2
        /\ Reach(Entry(at, Uint16(16))) = 2 /\ Reach(Entry(at, Uint16(24))) = 2
        /\ Reach(Entry(at, Uint16(80))) = 2 /\ Reach(Entry(at, Uint16(2048))) = 2
    BY <1>2 DEF Reach, Entry
  <1>6. /\ Reach(Entry(at, Stored(Uint16(20)))) = 2 /\ Reach(Entry(at, Stored(Uint16(1440)))) = 2
    BY <1>3 DEF Reach, Entry
  <1>7. \A v \in [1 .. 4 -> Byte] : Reach(Entry(at, v)) = 4
    BY Quads DEF Reach, Entry
  <1> QED
    BY <1>4, <1>5, <1>7, <1>6

HelloStarts == <<1, 0, 2, 4>>
HelloSizes == <<1, 1, 2, 4>>

\* Where send_header's assignments start, and how many bytes they are.
LEMMA HelloShaped ==
  ASSUME Known, what.kind = "hello"
  PROVE  /\ Extent = 8 /\ Table = HelloTable(what.type, what.xid)
         /\ Shaped(4, HelloStarts, HelloSizes)
  <1>1. what.type \in [1 .. 4 -> Byte] /\ what.xid \in [1 .. 4 -> Byte]
    BY WireAssumption DEF Known, Byte
  <1>2. Table = HelloTable(what.type, what.xid) /\ Extent = 8 /\ Len(Table) = 4
    BY DEF Table, Extent, HelloTable
  <1>3. \A j \in 1 .. 4 : Table[j].at = HelloStarts[j]
    BY <1>2 DEF HelloTable, Entry, HelloStarts
  <1>4. ASSUME NEW at
        PROVE  /\ Reach(Entry(at, <<what.type[4]>>)) = 1 /\ Reach(Entry(at, <<4>>)) = 1
    BY DEF Reach, Entry
  <1>5. ASSUME NEW at
        PROVE  /\ Reach(Entry(at, what.type)) = 4 /\ Reach(Entry(at, what.xid)) = 4
    BY <1>1, Reaches
  <1>6. \A j \in 1 .. 4 : Reach(Table[j]) = HelloSizes[j]
    BY <1>2, <1>4, <1>5, Reaches DEF HelloTable, HelloSizes
  <1>7. \A j \in 1 .. 4 : /\ HelloStarts[j] \in Nat /\ HelloSizes[j] \in Nat
                          /\ HelloStarts[j] + HelloSizes[j] <= 8
    BY DEF HelloStarts, HelloSizes
  <1> QED
    BY <1>2, <1>3, <1>6, <1>7 DEF Shaped

FlowModStarts == <<0, 1, 4, 8, 16, 24, 25, 26, 28, 30, 32, 36, 40, 44, 46, 48,
                   50, 52, 56, 58, 60, 64, 66, 68, 72, 74, 2>>
FlowModSizes == <<1, 1, 4, 8, 8, 1, 1, 2, 2, 2, 4, 4, 4, 2, 2, 2, 2, 4, 2, 2,
                  4, 2, 2, 4, 2, 6, 2>>

\* Where prepare_switch's do.
LEMMA FlowModShaped ==
  ASSUME Known, what.kind = "flow_mod"
  PROVE  /\ Extent = 80 /\ Table = FlowModTable(what.port)
         /\ Shaped(27, FlowModStarts, FlowModSizes)
  <1>1. what.port \in [1 .. 4 -> Byte]
    BY WireAssumption DEF Known, Byte
  <1>2. Table = FlowModTable(what.port) /\ Extent = 80 /\ Len(Table) = 27
    BY DEF Table, Extent, FlowModTable
  <1>3. \A j \in 1 .. 27 : Table[j].at = FlowModStarts[j]
    BY <1>2 DEF FlowModTable, Entry, FlowModStarts
  <1>4. ASSUME NEW at
        PROVE  /\ Reach(Entry(at, <<4>>)) = 1 /\ Reach(Entry(at, <<14>>)) = 1
               /\ Reach(Entry(at, <<0>>)) = 1 /\ Reach(Entry(at, <<18, 52, 86, 120>>)) = 4
    BY DEF Reach, Entry
  <1>5. ASSUME NEW at
        PROVE  /\ Reach(Entry(at, what.port)) = 4
    BY <1>1, Reaches
  <1>6. \A j \in 1 .. 27 : Reach(Table[j]) = FlowModSizes[j]
    BY <1>2, <1>4, <1>5, Reaches DEF FlowModTable, FlowModSizes
  <1>7. \A j \in 1 .. 27 : /\ FlowModStarts[j] \in Nat /\ FlowModSizes[j] \in Nat
                          /\ FlowModStarts[j] + FlowModSizes[j] <= 80
    BY DEF FlowModStarts, FlowModSizes
  <1> QED
    BY <1>2, <1>3, <1>6, <1>7 DEF Shaped

PacketStarts == <<0, 6, 12, 14, 15, 16, 18, 20, 22, 23, 26, 30, 46, 47, 50,
                  52, 16, 8, 2, 2, 6>>
PacketSizes == <<6, 6, 2, 1, 1, 2, 2, 2, 1, 1, 4, 4, 1, 1, 2, 2, 2, 4, 4, 1,
                 3>>

\* Where make_pkt's do.
LEMMA PacketShaped ==
  ASSUME Known, what.kind = "packet"
  PROVE  /\ Extent = 54 /\ Table = PacketTable(what.src, what.dst)
         /\ Shaped(21, PacketStarts, PacketSizes)
  <1>1. what.src \in [1 .. 4 -> Byte] /\ what.dst \in [1 .. 4 -> Byte]
    BY WireAssumption DEF Known, Byte
  <1>2. Table = PacketTable(what.src, what.dst) /\ Extent = 54 /\ Len(Table) = 21
    BY DEF Table, Extent, PacketTable
  <1>3. \A j \in 1 .. 21 : Table[j].at = PacketStarts[j]
    BY <1>2 DEF PacketTable, Entry, PacketStarts
  <1>4. ASSUME NEW at
        PROVE  /\ Reach(Entry(at, <<69>>)) = 1 /\ Reach(Entry(at, <<64>>)) = 1
               /\ Reach(Entry(at, <<6>>)) = 1 /\ Reach(Entry(at, <<80>>)) = 1
               /\ Reach(Entry(at, <<16>>)) = 1 /\ Reach(Entry(at, <<12>>)) = 1
               /\ Reach(Entry(at, <<10, 0, 0, 1>>)) = 4 /\ Reach(Entry(at, <<10, 0, 0, 2>>)) = 4
               /\ Reach(Entry(at, <<0, 2, 179>>)) = 3
    BY DEF Reach, Entry
  <1>5. ASSUME NEW at
        PROVE  /\ Reach(Entry(at, what.src)) = 4 /\ Reach(Entry(at, what.dst)) = 4
    BY <1>1, Reaches
  <1>6. \A j \in 1 .. 21 : Reach(Table[j]) = PacketSizes[j]
    BY <1>2, <1>4, <1>5, Reaches DEF PacketTable, PacketSizes
  <1>7. \A j \in 1 .. 21 : /\ PacketStarts[j] \in Nat /\ PacketSizes[j] \in Nat
                          /\ PacketStarts[j] + PacketSizes[j] <= 54
    BY DEF PacketStarts, PacketSizes
  <1> QED
    BY <1>2, <1>3, <1>6, <1>7 DEF Shaped

\* No assignment of send_header overwrites another.
LEMMA HelloApart ==
  \A j \in 1 .. 4 : j \in 1 .. 4 /\ \A i \in j + 1 .. 4 :
    HelloStarts[j] + HelloSizes[j] <= HelloStarts[i] \/ HelloStarts[i] + HelloSizes[i] <= HelloStarts[j]
  BY DEF HelloStarts, HelloSizes

\* What the reader finds in a header.
LEMMA HelloFields ==
  ASSUME Known, MemoryInv, what.kind = "hello", written = Len(Table)
  PROVE  /\ Get(0, ofp_header, "version") = <<4>> /\ Get(0, ofp_header, "type") = <<what.type[4]>>
         /\ Get(0, ofp_header, "length") = Uint16(8) /\ Get(0, ofp_header, "xid") = what.xid
  <1> DEFINE entry == HelloTable(what.type, what.xid)
  <1>1. host.machine \in Machines /\ written = 4 /\ Table = entry /\ Shaped(4, HelloStarts, HelloSizes)
    BY HelloShaped DEF Known, Shaped
  <1> HIDE DEF entry
  <1>2. ASSUME NEW j \in 1 .. 4, NEW base, NEW struct, NEW name,
               base + At(struct, name) = HelloStarts[j],
               fieldsize(struct, name, host.machine) = HelloSizes[j]
        PROVE  Get(base, struct, name) = entry[j].bytes
    BY <1>1, <1>2, HelloApart, ShapedGet
  <1>3. /\ entry[2].bytes = <<4>> /\ entry[1].bytes = <<what.type[4]>>
        /\ entry[3].bytes = Uint16(8) /\ entry[4].bytes = what.xid
    BY DEF entry, HelloTable, Entry
  <1>4. /\ 0 + At(ofp_header, "version") = HelloStarts[2]
        /\ fieldsize(ofp_header, "version", host.machine) = HelloSizes[2]
        /\ 0 + At(ofp_header, "type") = HelloStarts[1]
        /\ fieldsize(ofp_header, "type", host.machine) = HelloSizes[1]
        /\ 0 + At(ofp_header, "length") = HelloStarts[3]
        /\ fieldsize(ofp_header, "length", host.machine) = HelloSizes[3]
        /\ 0 + At(ofp_header, "xid") = HelloStarts[4]
        /\ fieldsize(ofp_header, "xid", host.machine) = HelloSizes[4]
    BY <1>1, In_ofp_header DEF HelloStarts, HelloSizes
  <1>5. /\ Get(0, ofp_header, "version") = entry[2].bytes
        /\ Get(0, ofp_header, "type") = entry[1].bytes
        /\ Get(0, ofp_header, "length") = entry[3].bytes
        /\ Get(0, ofp_header, "xid") = entry[4].bytes
    BY <1>2, <1>4
  <1> QED
    BY <1>3, <1>5

\* No assignment of prepare_switch overwrites another.
LEMMA FlowModApart ==
  \A j \in 1 .. 27 : j \in 1 .. 27 /\ \A i \in j + 1 .. 27 :
    FlowModStarts[j] + FlowModSizes[j] <= FlowModStarts[i] \/ FlowModStarts[i] + FlowModSizes[i] <= FlowModStarts[j]
  BY DEF FlowModStarts, FlowModSizes

\* What it finds in a FLOW_MOD.
LEMMA FlowModFields ==
  ASSUME Known, MemoryInv, what.kind = "flow_mod", written = Len(Table)
  PROVE  /\ Get(0, ofp_header, "version") = <<4>> /\ Get(0, ofp_header, "type") = <<14>>
         /\ Get(0, ofp_header, "length") = Uint16(80) /\ Get(0, ofp_header, "xid") = <<18, 52, 86, 120>>
         /\ Get(0, ofp_flow_mod, "cookie") = COOKIE_SWITCH /\ Get(0, ofp_flow_mod, "table_id") = Zeros(1)
         /\ Get(0, ofp_flow_mod, "command") = <<0>> /\ Get(0, ofp_flow_mod, "priority") = Uint16(1)
         /\ Get(0, ofp_flow_mod, "buffer_id") = Ones(4) /\ Get(0, ofp_flow_mod, "out_port") = Ones(4)
         /\ Get(48, ofp_match, "type") = Uint16(1) /\ Get(48, ofp_match, "length") = Uint16(4)
         /\ Get(56, ofp_instruction_actions, "type") = Uint16(4) /\ Get(56, ofp_instruction_actions, "len") = Uint16(24)
         /\ Get(64, ofp_action_output, "type") = Uint16(0) /\ Get(64, ofp_action_output, "len") = Uint16(16)
         /\ Get(64, ofp_action_output, "port") = what.port /\ Get(64, ofp_action_output, "max_len") = Ones(2)
  <1> DEFINE entry == FlowModTable(what.port)
  <1>1. host.machine \in Machines /\ written = 27 /\ Table = entry /\ Shaped(27, FlowModStarts, FlowModSizes)
    BY FlowModShaped DEF Known, Shaped
  <1> HIDE DEF entry
  <1>2. ASSUME NEW j \in 1 .. 27, NEW base, NEW struct, NEW name,
               base + At(struct, name) = FlowModStarts[j],
               fieldsize(struct, name, host.machine) = FlowModSizes[j]
        PROVE  Get(base, struct, name) = entry[j].bytes
    BY <1>1, <1>2, FlowModApart, ShapedGet
  <1>3. /\ entry[1].bytes = <<4>> /\ entry[2].bytes = <<14>>
        /\ entry[27].bytes = Uint16(80) /\ entry[3].bytes = <<18, 52, 86, 120>>
        /\ entry[4].bytes = COOKIE_SWITCH /\ entry[6].bytes = Zeros(1)
        /\ entry[7].bytes = <<0>> /\ entry[10].bytes = Uint16(1)
        /\ entry[11].bytes = Ones(4) /\ entry[12].bytes = Ones(4)
        /\ entry[16].bytes = Uint16(1) /\ entry[17].bytes = Uint16(4)
        /\ entry[19].bytes = Uint16(4) /\ entry[20].bytes = Uint16(24)
        /\ entry[22].bytes = Uint16(0) /\ entry[23].bytes = Uint16(16)
        /\ entry[24].bytes = what.port /\ entry[25].bytes = Ones(2)
    BY DEF entry, FlowModTable, Entry
  <1>4. /\ 0 + At(ofp_header, "version") = FlowModStarts[1]
        /\ fieldsize(ofp_header, "version", host.machine) = FlowModSizes[1]
        /\ 0 + At(ofp_header, "type") = FlowModStarts[2]
        /\ fieldsize(ofp_header, "type", host.machine) = FlowModSizes[2]
        /\ 0 + At(ofp_header, "length") = FlowModStarts[27]
        /\ fieldsize(ofp_header, "length", host.machine) = FlowModSizes[27]
        /\ 0 + At(ofp_header, "xid") = FlowModStarts[3]
        /\ fieldsize(ofp_header, "xid", host.machine) = FlowModSizes[3]
    BY <1>1, In_ofp_header DEF FlowModStarts, FlowModSizes
  <1>5. /\ 0 + At(ofp_flow_mod, "cookie") = FlowModStarts[4]
        /\ fieldsize(ofp_flow_mod, "cookie", host.machine) = FlowModSizes[4]
        /\ 0 + At(ofp_flow_mod, "table_id") = FlowModStarts[6]
        /\ fieldsize(ofp_flow_mod, "table_id", host.machine) = FlowModSizes[6]
        /\ 0 + At(ofp_flow_mod, "command") = FlowModStarts[7]
        /\ fieldsize(ofp_flow_mod, "command", host.machine) = FlowModSizes[7]
        /\ 0 + At(ofp_flow_mod, "priority") = FlowModStarts[10]
        /\ fieldsize(ofp_flow_mod, "priority", host.machine) = FlowModSizes[10]
        /\ 0 + At(ofp_flow_mod, "buffer_id") = FlowModStarts[11]
        /\ fieldsize(ofp_flow_mod, "buffer_id", host.machine) = FlowModSizes[11]
        /\ 0 + At(ofp_flow_mod, "out_port") = FlowModStarts[12]
        /\ fieldsize(ofp_flow_mod, "out_port", host.machine) = FlowModSizes[12]
    BY <1>1, In_ofp_flow_mod DEF FlowModStarts, FlowModSizes
  <1>6. /\ 48 + At(ofp_match, "type") = FlowModStarts[16]
        /\ fieldsize(ofp_match, "type", host.machine) = FlowModSizes[16]
        /\ 48 + At(ofp_match, "length") = FlowModStarts[17]
        /\ fieldsize(ofp_match, "length", host.machine) = FlowModSizes[17]
    BY <1>1, In_ofp_match DEF FlowModStarts, FlowModSizes
  <1>7. /\ 56 + At(ofp_instruction_actions, "type") = FlowModStarts[19]
        /\ fieldsize(ofp_instruction_actions, "type", host.machine) = FlowModSizes[19]
        /\ 56 + At(ofp_instruction_actions, "len") = FlowModStarts[20]
        /\ fieldsize(ofp_instruction_actions, "len", host.machine) = FlowModSizes[20]
    BY <1>1, In_ofp_instruction_actions DEF FlowModStarts, FlowModSizes
  <1>8. /\ 64 + At(ofp_action_output, "type") = FlowModStarts[22]
        /\ fieldsize(ofp_action_output, "type", host.machine) = FlowModSizes[22]
        /\ 64 + At(ofp_action_output, "len") = FlowModStarts[23]
        /\ fieldsize(ofp_action_output, "len", host.machine) = FlowModSizes[23]
        /\ 64 + At(ofp_action_output, "port") = FlowModStarts[24]
        /\ fieldsize(ofp_action_output, "port", host.machine) = FlowModSizes[24]
        /\ 64 + At(ofp_action_output, "max_len") = FlowModStarts[25]
        /\ fieldsize(ofp_action_output, "max_len", host.machine) = FlowModSizes[25]
    BY <1>1, In_ofp_action_output DEF FlowModStarts, FlowModSizes
  <1>9. /\ Get(0, ofp_header, "version") = entry[1].bytes
        /\ Get(0, ofp_header, "type") = entry[2].bytes
        /\ Get(0, ofp_header, "length") = entry[27].bytes
        /\ Get(0, ofp_header, "xid") = entry[3].bytes
    BY <1>2, <1>4
  <1>10. /\ Get(0, ofp_flow_mod, "cookie") = entry[4].bytes
        /\ Get(0, ofp_flow_mod, "table_id") = entry[6].bytes
        /\ Get(0, ofp_flow_mod, "command") = entry[7].bytes
        /\ Get(0, ofp_flow_mod, "priority") = entry[10].bytes
        /\ Get(0, ofp_flow_mod, "buffer_id") = entry[11].bytes
        /\ Get(0, ofp_flow_mod, "out_port") = entry[12].bytes
    BY <1>2, <1>5
  <1>11. /\ Get(48, ofp_match, "type") = entry[16].bytes
        /\ Get(48, ofp_match, "length") = entry[17].bytes
    BY <1>2, <1>6
  <1>12. /\ Get(56, ofp_instruction_actions, "type") = entry[19].bytes
        /\ Get(56, ofp_instruction_actions, "len") = entry[20].bytes
    BY <1>2, <1>7
  <1>13. /\ Get(64, ofp_action_output, "type") = entry[22].bytes
        /\ Get(64, ofp_action_output, "len") = entry[23].bytes
        /\ Get(64, ofp_action_output, "port") = entry[24].bytes
        /\ Get(64, ofp_action_output, "max_len") = entry[25].bytes
    BY <1>2, <1>8
  <1> QED
    BY <1>3, <1>9, <1>10, <1>11, <1>12, <1>13

\* Nothing is assigned later to these fields of a packet.
LEMMA PacketApart ==
  \A j \in {3, 4, 10, 11, 12, 13, 14, 17} : j \in 1 .. 21 /\ \A i \in j + 1 .. 21 :
    PacketStarts[j] + PacketSizes[j] <= PacketStarts[i] \/ PacketStarts[i] + PacketSizes[i] <= PacketStarts[j]
  BY DEF PacketStarts, PacketSizes

\* What it finds in them.
LEMMA PacketFields ==
  ASSUME Known, MemoryInv, what.kind = "packet", written = Len(Table)
  PROVE  /\ Get(0, sniff_ethernet, "ether_type") = Uint16(2048) /\ Get(14, sniff_ip, "ip_vhl") = <<69>>
         /\ Get(14, sniff_ip, "ip_len") = Stored(Uint16(1440)) /\ Get(14, sniff_ip, "ip_p") = <<6>>
         /\ Get(14, sniff_ip, "ip_src") = <<10, 0, 0, 1>> /\ Get(14, sniff_ip, "ip_dst") = <<10, 0, 0, 2>>
         /\ Get(34, sniff_tcp, "th_offx2") = <<80>> /\ Get(34, sniff_tcp, "th_flags") = <<16>>
  <1> DEFINE entry == PacketTable(what.src, what.dst)
  <1>1. host.machine \in Machines /\ written = 21 /\ Table = entry /\ Shaped(21, PacketStarts, PacketSizes)
    BY PacketShaped DEF Known, Shaped
  <1> HIDE DEF entry
  <1>2. ASSUME NEW j \in {3, 4, 10, 11, 12, 13, 14, 17}, NEW base, NEW struct, NEW name,
               base + At(struct, name) = PacketStarts[j],
               fieldsize(struct, name, host.machine) = PacketSizes[j]
        PROVE  Get(base, struct, name) = entry[j].bytes
    BY <1>1, <1>2, PacketApart, ShapedGet
  <1>3. /\ entry[3].bytes = Uint16(2048) /\ entry[4].bytes = <<69>>
        /\ entry[17].bytes = Stored(Uint16(1440)) /\ entry[10].bytes = <<6>>
        /\ entry[11].bytes = <<10, 0, 0, 1>> /\ entry[12].bytes = <<10, 0, 0, 2>>
        /\ entry[13].bytes = <<80>> /\ entry[14].bytes = <<16>>
    BY DEF entry, PacketTable, Entry
  <1>4. /\ 0 + At(sniff_ethernet, "ether_type") = PacketStarts[3]
        /\ fieldsize(sniff_ethernet, "ether_type", host.machine) = PacketSizes[3]
    BY <1>1, In_sniff_ethernet DEF PacketStarts, PacketSizes
  <1>5. /\ 14 + At(sniff_ip, "ip_vhl") = PacketStarts[4]
        /\ fieldsize(sniff_ip, "ip_vhl", host.machine) = PacketSizes[4]
        /\ 14 + At(sniff_ip, "ip_len") = PacketStarts[17]
        /\ fieldsize(sniff_ip, "ip_len", host.machine) = PacketSizes[17]
        /\ 14 + At(sniff_ip, "ip_p") = PacketStarts[10]
        /\ fieldsize(sniff_ip, "ip_p", host.machine) = PacketSizes[10]
        /\ 14 + At(sniff_ip, "ip_src") = PacketStarts[11]
        /\ fieldsize(sniff_ip, "ip_src", host.machine) = PacketSizes[11]
        /\ 14 + At(sniff_ip, "ip_dst") = PacketStarts[12]
        /\ fieldsize(sniff_ip, "ip_dst", host.machine) = PacketSizes[12]
    BY <1>1, In_sniff_ip DEF PacketStarts, PacketSizes
  <1>6. /\ 34 + At(sniff_tcp, "th_offx2") = PacketStarts[13]
        /\ fieldsize(sniff_tcp, "th_offx2", host.machine) = PacketSizes[13]
        /\ 34 + At(sniff_tcp, "th_flags") = PacketStarts[14]
        /\ fieldsize(sniff_tcp, "th_flags", host.machine) = PacketSizes[14]
    BY <1>1, In_sniff_tcp DEF PacketStarts, PacketSizes
  <1>7. /\ Get(0, sniff_ethernet, "ether_type") = entry[3].bytes
    BY <1>2, <1>4
  <1>8. /\ Get(14, sniff_ip, "ip_vhl") = entry[4].bytes
        /\ Get(14, sniff_ip, "ip_len") = entry[17].bytes
        /\ Get(14, sniff_ip, "ip_p") = entry[10].bytes
        /\ Get(14, sniff_ip, "ip_src") = entry[11].bytes
        /\ Get(14, sniff_ip, "ip_dst") = entry[12].bytes
    BY <1>2, <1>5
  <1>9. /\ Get(34, sniff_tcp, "th_offx2") = entry[13].bytes
        /\ Get(34, sniff_tcp, "th_flags") = entry[14].bytes
    BY <1>2, <1>6
  <1> QED
    BY <1>3, <1>7, <1>8, <1>9

\* The bytes of a field, one by one.
LEMMA GetBytes ==
  ASSUME Known, MemoryInv, NEW base, NEW struct, NEW name,
         base + At(struct, name) \in Nat, fieldsize(struct, name, host.machine) \in Nat,
         base + At(struct, name) + fieldsize(struct, name, host.machine) <= Extent
  PROVE  Get(base, struct, name) =
           [k \in 1 .. fieldsize(struct, name, host.machine) |-> memory[base + At(struct, name) + k]]
  <1> DEFINE at == base + At(struct, name)
             n == fieldsize(struct, name, host.machine)
             p == at + 1
             q == at + n
             part == SubSeq(memory, p, q)
  <1>1. Get(base, struct, name) = part /\ at \in Nat /\ n \in Nat /\ q <= Extent /\ Extent \in Nat
    BY TableBytes DEF Get
  <1> HIDE DEF at, n
  <1>2. p \in Int /\ q \in Int /\ \A k \in p .. q : memory[k] \in Byte \cup {Unset}
    BY <1>1, MemoryTyped
  <1>3. q - p + 1 = n /\ (n # 0 => p <= q) /\ (n = 0 => ~ (p <= q))
    BY <1>1
  <1>4. part = SubSeq(memory, p, q) /\ \A k \in 1 .. n : p + k - 1 = at + k
    BY <1>1
  <1> HIDE DEF p, q, part
  <1>5. /\ part \in Seq(Byte \cup {Unset})
        /\ Len(part) = IF p <= q THEN q - p + 1 ELSE 0
        /\ \A k \in 1 .. q - p + 1 : part[k] = memory[p + k - 1]
    BY <1>2, <1>4, SubSeqProperties
  <1>6. Len(part) = n
    BY <1>1, <1>3, <1>5
  <1>7. part = [k \in 1 .. n |-> memory[at + k]]
    BY <1>3, <1>4, <1>5, <1>6
  <1> QED
    BY <1>1, <1>7 DEF at, n

\* Three bytes, and then three.
LEMMA ThreeMore ==
  ASSUME NEW t \in Seq(Byte), Len(t) = 3, NEW a \in Byte, NEW b \in Byte, NEW c \in Byte
  PROVE  <<a, b, c>> \o t = <<a, b, c, t[1], t[2], t[3]>>
  <1> DEFINE h == <<a, b, c>>
             s == h \o t
  <1>1. h \in Seq(Byte) /\ Len(h) = 3 /\ h[1] = a /\ h[2] = b /\ h[3] = c
    OBVIOUS
  <1> HIDE DEF h
  <1>2. /\ h \o t \in Seq(Byte) /\ Len(h \o t) = Len(h) + Len(t)
        /\ \A i \in 1 .. Len(h) + Len(t) : (h \o t)[i] = IF i <= Len(h) THEN h[i] ELSE t[i - Len(h)]
    BY <1>1, ConcatProperties, Zenon
  <1>3. s \in Seq(Byte) /\ Len(s) = 6 /\ \A i \in 1 .. 6 : s[i] = IF i <= 3 THEN h[i] ELSE t[i - 3]
    BY <1>1, <1>2
  <1> HIDE DEF s
  <1>4. s[1] = a /\ s[2] = b /\ s[3] = c /\ s[4] = t[1] /\ s[5] = t[2] /\ s[6] = t[3]
    BY <1>1, <1>3
  <1>5. s = <<a, b, c, t[1], t[2], t[3]>>
    BY <1>3, <1>4
  <1> QED
    BY <1>5 DEF s, h

\* Four bytes are not none.
LEMMA NotEmpty == ASSUME NEW v \in Seq(Byte), Len(v) = 4 PROVE v # <<>>
  BY EmptySeq

\* The last three of four bytes, behind three others.
LEMMA BehindThree ==
  ASSUME NEW v \in [1 .. 4 -> Byte], NEW a \in Byte, NEW b \in Byte, NEW c \in Byte
  PROVE  <<a, b, c>> \o Tail(v) = <<a, b, c, v[2], v[3], v[4]>>
  <1> DEFINE t == Tail(v)
  <1>1. v \in Seq(Byte) /\ Len(v) = 4
    BY Quads
  <1>2. v # <<>>
    BY <1>1, NotEmpty
  <1>3. t \in Seq(Byte) /\ Len(t) = Len(v) - 1 /\ \A k \in 1 .. Len(t) : t[k] = v[k + 1]
    BY <1>1, <1>2, HeadTailProperties
  <1> HIDE DEF t
  <1>4. Len(t) = 3 /\ t[1] = v[2] /\ t[2] = v[3] /\ t[3] = v[4]
    BY <1>1, <1>3
  <1>5. <<a, b, c>> \o t = <<a, b, c, t[1], t[2], t[3]>>
    BY <1>3, <1>4, ThreeMore
  <1> QED
    BY <1>4, <1>5 DEF t

\* A byte is not set, or it is what the last assignment to it says.
LEMMA ShapedBytes ==
  ASSUME Known, MemoryInv, NEW n, NEW starts, NEW sizes, Shaped(n, starts, sizes), written = n
  PROVE  \A k \in 1 .. Extent :
           /\ (\A j \in 1 .. n : ~ (starts[j] < k /\ k <= starts[j] + sizes[j]))
                => memory[k] = Unset
           /\ \A j \in 1 .. n :
                /\ starts[j] < k /\ k <= starts[j] + sizes[j]
                /\ \A i \in j + 1 .. n : ~ (starts[i] < k /\ k <= starts[i] + sizes[i])
                => memory[k] = Table[j].bytes[k - starts[j]]
  <1> SUFFICES ASSUME NEW k \in 1 .. Extent
               PROVE  /\ (\A j \in 1 .. n : ~ (starts[j] < k /\ k <= starts[j] + sizes[j]))
                           => memory[k] = Unset
                      /\ \A j \in 1 .. n :
                           /\ starts[j] < k /\ k <= starts[j] + sizes[j]
                           /\ \A i \in j + 1 .. n : ~ (starts[i] < k /\ k <= starts[i] + sizes[i])
                           => memory[k] = Table[j].bytes[k - starts[j]]
    OBVIOUS
  <1>1. (\A j \in 1 .. n : ~ (starts[j] < k /\ k <= starts[j] + sizes[j])) => memory[k] = Unset
    BY ShapedUnset
  <1>2. ASSUME NEW j \in 1 .. n, starts[j] < k, k <= starts[j] + sizes[j],
               \A i \in j + 1 .. n : ~ (starts[i] < k /\ k <= starts[i] + sizes[i])
        PROVE  memory[k] = Table[j].bytes[k - starts[j]]
    BY <1>2, ShapedByte
  <1> QED
    BY <1>1, <1>2

\* That of a packet.
LEMMA PacketByte ==
  ASSUME Known, MemoryInv, what.kind = "packet", written = Len(Table), NEW k \in 1 .. 54
  PROVE  /\ (\A j \in 1 .. 21 : ~ (PacketStarts[j] < k /\ k <= PacketStarts[j] + PacketSizes[j]))
              => memory[k] = Unset
         /\ \A j \in 1 .. 21 :
              /\ PacketStarts[j] < k /\ k <= PacketStarts[j] + PacketSizes[j]
              /\ \A i \in j + 1 .. 21 :
                   ~ (PacketStarts[i] < k /\ k <= PacketStarts[i] + PacketSizes[i])
              => memory[k] = PacketTable(what.src, what.dst)[j].bytes[k - PacketStarts[j]]
  <1> DEFINE n == 21
             entry == PacketTable(what.src, what.dst)
  <1>1. Shaped(n, PacketStarts, PacketSizes) /\ k \in 1 .. Extent /\ Table = entry
    BY PacketShaped
  <1>2. written = n
    BY <1>1 DEF Shaped
  <1> HIDE DEF n, entry
  <1>3. /\ (\A j \in 1 .. n : ~ (PacketStarts[j] < k /\ k <= PacketStarts[j] + PacketSizes[j]))
             => memory[k] = Unset
        /\ \A j \in 1 .. n :
             /\ PacketStarts[j] < k /\ k <= PacketStarts[j] + PacketSizes[j]
             /\ \A i \in j + 1 .. n :
                  ~ (PacketStarts[i] < k /\ k <= PacketStarts[i] + PacketSizes[i])
             => memory[k] = Table[j].bytes[k - PacketStarts[j]]
    BY <1>1, <1>2, ShapedBytes
  <1> QED
    BY <1>1, <1>3 DEF n, entry

\* The addresses, written in three parts over each other, and two fields that
\* nothing is assigned to.
LEMMA PacketBytes ==
  ASSUME Known, MemoryInv, what.kind = "packet", written = Len(Table)
  PROVE  /\ Get(0, sniff_ethernet, "ether_dhost") = <<0, 0, 12>> \o Tail(what.dst)
         /\ Get(0, sniff_ethernet, "ether_shost") = <<0, 2, 179>> \o Tail(what.src)
         /\ Get(14, sniff_ip, "ip_sum") = <<Unset, Unset>>
         /\ Get(34, sniff_tcp, "th_dport") = <<Unset, Unset>>
  <1> DEFINE entry == PacketTable(what.src, what.dst)
  <1>1. /\ host.machine \in Machines /\ written = 21 /\ Table = entry /\ Extent = 54
        /\ Shaped(21, PacketStarts, PacketSizes)
    BY PacketShaped DEF Known, Shaped
  <1>2. what.src \in [1 .. 4 -> Byte] /\ what.dst \in [1 .. 4 -> Byte]
    BY WireAssumption DEF Known, Byte
  <1> HIDE DEF entry
  <1>3. ASSUME NEW k \in 1 .. 54, NEW j \in 1 .. 21,
               PacketStarts[j] < k, k <= PacketStarts[j] + PacketSizes[j],
               \A i \in j + 1 .. 21 :
                 ~ (PacketStarts[i] < k /\ k <= PacketStarts[i] + PacketSizes[i])
        PROVE  memory[k] = entry[j].bytes[k - PacketStarts[j]]
    <2>1. \A i \in 1 .. 21 :
             /\ PacketStarts[i] < k /\ k <= PacketStarts[i] + PacketSizes[i]
             /\ \A l \in i + 1 .. 21 :
                  ~ (PacketStarts[l] < k /\ k <= PacketStarts[l] + PacketSizes[l])
             => memory[k] = entry[i].bytes[k - PacketStarts[i]]
      BY PacketByte DEF entry
    <2> QED
      BY <1>3, <2>1
  <1>4. ASSUME NEW k \in 1 .. 54,
                \A j \in 1 .. 21 :
                  ~ (PacketStarts[j] < k /\ k <= PacketStarts[j] + PacketSizes[j])
         PROVE  memory[k] = Unset
    BY <1>4, PacketByte
  <1>5. memory[1] = 0 /\ memory[2] = 0
    <2>1. memory[1] = entry[1].bytes[1] /\ memory[2] = entry[1].bytes[2]
      BY <1>3 DEF PacketStarts, PacketSizes
    <2> QED
      BY <2>1 DEF entry, PacketTable, Entry, Zeros
  <1>6. memory[3] = 12
    <2>1. memory[3] = entry[20].bytes[1]
      BY <1>3 DEF PacketStarts, PacketSizes
    <2> QED
      BY <2>1 DEF entry, PacketTable, Entry
  <1>7. memory[4] = what.dst[2] /\ memory[5] = what.dst[3] /\ memory[6] = what.dst[4]
    <2>1. /\ memory[4] = entry[19].bytes[2] /\ memory[5] = entry[19].bytes[3]
          /\ memory[6] = entry[19].bytes[4]
      BY <1>3 DEF PacketStarts, PacketSizes
    <2> QED
      BY <2>1 DEF entry, PacketTable, Entry
  <1>8. memory[7] = 0 /\ memory[8] = 2 /\ memory[9] = 179
    <2>1. /\ memory[7] = entry[21].bytes[1] /\ memory[8] = entry[21].bytes[2]
          /\ memory[9] = entry[21].bytes[3]
      BY <1>3 DEF PacketStarts, PacketSizes
    <2> QED
      BY <2>1 DEF entry, PacketTable, Entry
  <1>9. memory[10] = what.src[2] /\ memory[11] = what.src[3] /\ memory[12] = what.src[4]
    <2>1. /\ memory[10] = entry[18].bytes[2] /\ memory[11] = entry[18].bytes[3]
          /\ memory[12] = entry[18].bytes[4]
      BY <1>3 DEF PacketStarts, PacketSizes
    <2> QED
      BY <2>1 DEF entry, PacketTable, Entry
  <1>10. memory[25] = Unset /\ memory[26] = Unset /\ memory[37] = Unset /\ memory[38] = Unset
    BY <1>4 DEF PacketStarts, PacketSizes
  <1>11. /\ Get(0, sniff_ethernet, "ether_dhost") = [k \in 1 .. 6 |-> memory[0 + k]]
         /\ Get(0, sniff_ethernet, "ether_shost") = [k \in 1 .. 6 |-> memory[6 + k]]
    <2>1. /\ 0 + At(sniff_ethernet, "ether_dhost") = 0 /\ fieldsize(sniff_ethernet, "ether_dhost", host.machine) = 6
          /\ 0 + At(sniff_ethernet, "ether_shost") = 6 /\ fieldsize(sniff_ethernet, "ether_shost", host.machine) = 6
      BY <1>1, In_sniff_ethernet
    <2>2. Get(0, sniff_ethernet, "ether_dhost") =
            [k \in 1 .. fieldsize(sniff_ethernet, "ether_dhost", host.machine) |-> memory[0 + At(sniff_ethernet, "ether_dhost") + k]]
      BY <1>1, <2>1, GetBytes
    <2>3. Get(0, sniff_ethernet, "ether_shost") =
            [k \in 1 .. fieldsize(sniff_ethernet, "ether_shost", host.machine) |-> memory[0 + At(sniff_ethernet, "ether_shost") + k]]
      BY <1>1, <2>1, GetBytes
    <2> QED
      BY <2>1, <2>2, <2>3
  <1>12. /\ Get(14, sniff_ip, "ip_sum") = [k \in 1 .. 2 |-> memory[24 + k]]
    <2>1. /\ 14 + At(sniff_ip, "ip_sum") = 24 /\ fieldsize(sniff_ip, "ip_sum", host.machine) = 2
      BY <1>1, In_sniff_ip
    <2>2. Get(14, sniff_ip, "ip_sum") =
            [k \in 1 .. fieldsize(sniff_ip, "ip_sum", host.machine) |-> memory[14 + At(sniff_ip, "ip_sum") + k]]
      BY <1>1, <2>1, GetBytes
    <2> QED
      BY <2>1, <2>2
  <1>13. /\ Get(34, sniff_tcp, "th_dport") = [k \in 1 .. 2 |-> memory[36 + k]]
    <2>1. /\ 34 + At(sniff_tcp, "th_dport") = 36 /\ fieldsize(sniff_tcp, "th_dport", host.machine) = 2
      BY <1>1, In_sniff_tcp
    <2>2. Get(34, sniff_tcp, "th_dport") =
            [k \in 1 .. fieldsize(sniff_tcp, "th_dport", host.machine) |-> memory[34 + At(sniff_tcp, "th_dport") + k]]
      BY <1>1, <2>1, GetBytes
    <2> QED
      BY <2>1, <2>2
  <1>14. /\ <<0, 0, 12>> \o Tail(what.dst) = <<0, 0, 12, what.dst[2], what.dst[3], what.dst[4]>>
         /\ <<0, 2, 179>> \o Tail(what.src) = <<0, 2, 179, what.src[2], what.src[3], what.src[4]>>
    <2>1. 0 \in Byte /\ 2 \in Byte /\ 12 \in Byte /\ 179 \in Byte
      BY DEF Byte
    <2> QED
      BY <1>2, <2>1, BehindThree
  <1>15. Get(0, sniff_ethernet, "ether_dhost") = <<0, 0, 12, what.dst[2], what.dst[3], what.dst[4]>>
    BY <1>5, <1>6, <1>7, <1>11
  <1>16. Get(0, sniff_ethernet, "ether_shost") = <<0, 2, 179, what.src[2], what.src[3], what.src[4]>>
    BY <1>8, <1>9, <1>11
  <1>17. /\ Get(14, sniff_ip, "ip_sum") = <<Unset, Unset>>
         /\ Get(34, sniff_tcp, "th_dport") = <<Unset, Unset>>
    BY <1>10, <1>12, <1>13
  <1> QED
    BY <1>14, <1>15, <1>16, <1>17

Span(a, b) == a .. b

\* The numbers from a to b.
LEMMA SpanSize ==
  ASSUME NEW a \in Int, NEW b \in Int, a <= b
  PROVE  IsFiniteSet(Span(a, b)) /\ Cardinality(Span(a, b)) = b - a + 1
  BY FS_Interval DEF Span

\* Two disjoint sets.
LEMMA SizeOfTwo ==
  ASSUME NEW S, NEW T, IsFiniteSet(S), IsFiniteSet(T), S \cap T = {},
         NEW m \in Nat, NEW n \in Nat, Cardinality(S) = m, Cardinality(T) = n
  PROVE  IsFiniteSet(S \cup T) /\ Cardinality(S \cup T) = m + n
  BY FS_Union, FS_EmptySet

\* Of a control message every byte is set, of a packet all but 16.
LEMMA HowManyUnset ==
  ASSUME Known, MemoryInv, written = Len(Table)
  PROVE  UnsetBytes = IF what.kind = "packet" THEN 16 ELSE 0
  <1>1. DOMAIN memory = 1 .. Extent
    BY MemoryTyped
  <1>2. CASE what.kind = "hello"
    <2>1. Shaped(4, HelloStarts, HelloSizes) /\ written = 4 /\ Extent = 8
      BY <1>2, HelloShaped DEF Shaped
    <2>2. \A k \in 1 .. 8 : \E j \in 1 .. 4 : HelloStarts[j] < k /\ k <= HelloStarts[j] + HelloSizes[j]
      BY DEF HelloStarts, HelloSizes
    <2>3. ASSUME NEW k \in 1 .. 8 PROVE memory[k] # Unset
      BY <2>1, <2>2, ShapedUnset
    <2>4. {k \in DOMAIN memory : memory[k] = Unset} = {}
      BY <1>1, <2>1, <2>3
    <2> QED
      BY <1>2, <2>4, FS_EmptySet DEF UnsetBytes
  <1>3. CASE what.kind = "flow_mod"
    <2>1. Shaped(27, FlowModStarts, FlowModSizes) /\ written = 27 /\ Extent = 80
      BY <1>3, FlowModShaped DEF Shaped
    <2>2. \A k \in 1 .. 80 : \E j \in 1 .. 27 :
            FlowModStarts[j] < k /\ k <= FlowModStarts[j] + FlowModSizes[j]
      BY DEF FlowModStarts, FlowModSizes
    <2>3. ASSUME NEW k \in 1 .. 80 PROVE memory[k] # Unset
      BY <2>1, <2>2, ShapedUnset
    <2>4. {k \in DOMAIN memory : memory[k] = Unset} = {}
      BY <1>1, <2>1, <2>3
    <2> QED
      BY <1>3, <2>4, FS_EmptySet DEF UnsetBytes
  <1>4. CASE what.kind = "packet"
    <2>1. Shaped(21, PacketStarts, PacketSizes) /\ written = 21 /\ Extent = 54
      BY <1>4, PacketShaped DEF Shaped
    <2> DEFINE never == (Span(25, 26) \cup Span(35, 46)) \cup Span(49, 50)
    <2>2. \A k \in 1 .. 54 :
            (\E j \in 1 .. 21 : PacketStarts[j] < k /\ k <= PacketStarts[j] + PacketSizes[j])
              <=> k \notin never
      BY DEF PacketStarts, PacketSizes, Span
    <2>3. {k \in 1 .. 54 : memory[k] = Unset} = never
      <3> HIDE DEF never
      <3>1. \A k \in 1 .. 54 : memory[k] = Unset <=> k \in never
        BY <2>1, <2>2, ShapedUnset
      <3>2. never \subseteq 1 .. 54
        BY DEF never, Span
      <3> QED
        BY <3>1, <3>2
    <2>4. Cardinality(never) = 16
      <3>1. /\ IsFiniteSet(Span(25, 26)) /\ IsFiniteSet(Span(35, 46))
            /\ IsFiniteSet(Span(49, 50))
        BY SpanSize
      <3>2. Cardinality(Span(25, 26)) = 2
        BY SpanSize
      <3>3. Cardinality(Span(35, 46)) = 12
        BY SpanSize
      <3>4. Cardinality(Span(49, 50)) = 2
        BY SpanSize
      <3> DEFINE two == Span(25, 26) \cup Span(35, 46)
      <3>5. Span(25, 26) \cap Span(35, 46) = {} /\ two \cap Span(49, 50) = {}
        BY DEF Span
      <3>6. IsFiniteSet(two) /\ Cardinality(two) = 14
        BY <3>1, <3>5, <3>2, <3>3, SizeOfTwo
      <3> HIDE DEF two
      <3>7. IsFiniteSet(two \cup Span(49, 50)) /\ Cardinality(two \cup Span(49, 50)) = 16
        BY <3>1, <3>5, <3>6, <3>4, SizeOfTwo
      <3> QED
        BY <3>7 DEF two
    <2> QED
      BY <1>1, <1>4, <2>1, <2>3, <2>4 DEF UnsetBytes
  <1> QED
    BY <1>2, <1>3, <1>4 DEF Known

-----------------------------------------------------------------------------
(* The reader. *)

\* Where the reader is, and where the instruction it is in ends, after each item.
Cursors ==
  CASE what.kind = "hello" -> <<0, 8>>
    [] what.kind = "flow_mod" -> <<0, 8, 48, 56, 64, 80>>
    [] what.kind = "packet" -> <<0, 14, 34, 54>>

Ends ==
  CASE what.kind = "hello" -> <<0, 0>>
    [] what.kind = "flow_mod" -> <<0, 0, 0, 0, 80, 0>>
    [] what.kind = "packet" -> <<0, 0, 0, 0>>

Items == CASE what.kind = "hello" -> 1 [] what.kind = "flow_mod" -> 5 [] what.kind = "packet" -> 3

First(n) == [i \in 1 .. n |-> Meant[i]]

\* The reader has read the first n items, as they were meant.
HasRead(n) ==
  /\ n \in 0 .. Items
  /\ read = First(n) /\ cursor = Cursors[n + 1] /\ inside = Ends[n + 1]
  /\ n = 0 \/ written = Len(Table)

ReaderInv == \E n \in Nat : HasRead(n)

\* How many items there are to read.
LEMMA ItemsMeant ==
  ASSUME Known
  PROVE  Items \in Nat /\ Meant = First(Items) /\ Len(Meant) = Items
  <1>1. what.kind = "hello" => Items = 1 /\ Meant = First(1) /\ Len(Meant) = 1
    BY DEF Items, Meant, First
  <1>2. what.kind = "flow_mod" => Items = 5 /\ Meant = First(5) /\ Len(Meant) = 5
    <2>1. ASSUME what.kind = "flow_mod", NEW a, NEW b, NEW c, NEW d, NEW e, Meant = <<a, b, c, d, e>>
          PROVE  Meant = First(5) /\ Len(Meant) = 5
      BY <2>1 DEF First
    <2> QED
      BY <2>1 DEF Items, Meant
  <1>3. what.kind = "packet" => Items = 3 /\ Meant = First(3) /\ Len(Meant) = 3
    <2> DEFINE dhost == <<0, 0, 12>> \o Tail(what.dst)
               shost == <<0, 2, 179>> \o Tail(what.src)
               a == <<dhost, shost, <<8, 0>>>>
               b == <<Stored(Uint16(1440)), <<6>>, <<10, 0, 0, 1>>, <<10, 0, 0, 2>>, <<Unset, Unset>>>>
               c == <<<<16>>, <<Unset, Unset>>>>
    <2>1. what.kind = "packet" => Meant = <<a, b, c>>
      BY DEF Meant
    <2> HIDE DEF a, b, c
    <2> QED
      BY <2>1 DEF Items, First
  <1>4. what.kind = "hello" \/ what.kind = "flow_mod" \/ what.kind = "packet"
    BY DEF Known
  <1> DEFINE fine(n) == Items = n /\ Meant = First(n) /\ Len(Meant) = n
  <1>5. (what.kind = "hello" => fine(1)) /\ (what.kind = "flow_mod" => fine(5)) /\ (what.kind = "packet" => fine(3))
    BY <1>1, <1>2, <1>3
  <1>6. \A n : fine(n) => fine(Items)
    OBVIOUS
  <1>7. \A n \in Nat : fine(n) => Items \in Nat
    OBVIOUS
  <1> HIDE DEF fine
  <1>8. fine(Items) /\ Items \in Nat
    BY <1>4, <1>5, <1>6, <1>7
  <1> QED
    BY <1>8 DEF fine

\* One more item.
LEMMA OneMore ==
  ASSUME NEW n \in Nat
  PROVE  Len(First(n)) = n /\ Append(First(n), Meant[n + 1]) = First(n + 1)
  <1> DEFINE S == {Meant[i] : i \in Nat}
             f == First(n)
             v == Meant[n + 1]
  <1>1. f \in Seq(S) /\ Len(f) = n /\ \A i \in 1 .. n : f[i] = Meant[i]
    <2>1. f \in [1 .. n -> S]
      BY DEF First
    <2>2. f \in Seq(S) /\ Len(f) = n
      BY <2>1, SeqDef
    <2> QED
      BY <2>2 DEF First
  <1>2. v \in S
    OBVIOUS
  <1> HIDE DEF S, f, v
  <1>3. /\ Append(f, v) \in Seq(S) /\ Len(Append(f, v)) = n + 1
        /\ \A i \in 1 .. n : Append(f, v)[i] = f[i]
        /\ Append(f, v)[n + 1] = v
    BY <1>1, <1>2, AppendProperties
  <1>4. Append(f, v) = [i \in 1 .. n + 1 |-> Meant[i]]
    BY <1>1, <1>3 DEF v
  <1> QED
    BY <1>1, <1>4 DEF First, f, v

\* A reader's step, by its item and the places it leaves the reader at.
LEMMA ReadsNext ==
  ASSUME Known, NEW n \in Nat, HasRead(n), n + 1 <= Items, NEW item, NEW next, NEW end,
         Reads(item, next, end), item = Meant[n + 1], next = Cursors[n + 2], end = Ends[n + 2]
  PROVE  ReaderInv'
  <1>1. Items' = Items /\ Meant' = Meant /\ Cursors' = Cursors /\ Ends' = Ends /\ Table' = Table
    BY DEF Reads, Items, Meant, Cursors, Ends, Table, HelloTable, FlowModTable, PacketTable, Stored
  <1>2. First(n + 1)' = First(n + 1)
    BY <1>1 DEF First
  <1>3. read' = First(n + 1)
    BY OneMore DEF Reads, HasRead
  <1>4. written' = Len(Table)
    BY Tabled DEF Reads, Sent
  <1>5. n + 1 \in 0 .. Items /\ (n + 1) + 1 = n + 2 /\ n + 1 \in Nat
    BY ItemsMeant
  <1>6. cursor' = Cursors[n + 2] /\ inside' = Ends[n + 2]
    BY DEF Reads
  <1>7. HasRead(n + 1)'
    BY <1>1, <1>2, <1>3, <1>4, <1>5, <1>6 DEF HasRead
  <1> QED
    BY <1>5, <1>7 DEF ReaderInv

\* The items of a message that is only a header, and where they end.
LEMMA HelloMeant ==
  ASSUME what.kind = "hello"
  PROVE  /\ Items = 1 /\ Cursors = <<0, 8>> /\ Ends = <<0, 0>>
         /\ Meant[1] = <<<<4>>, <<what.type[4]>>, 8, what.xid>>
  BY DEF Items, Cursors, Ends, Meant, OFP_VERSION, Uint8

\* Those of a FLOW_MOD.
LEMMA FlowModMeant ==
  ASSUME what.kind = "flow_mod"
  PROVE  /\ Items = 5 /\ Cursors = <<0, 8, 48, 56, 64, 80>> /\ Ends = <<0, 0, 0, 0, 80, 0>>
         /\ Meant[1] = <<<<4>>, <<14>>, 80, <<18, 52, 86, 120>>>>
         /\ Meant[2] = <<<<0>>, Zeros(1), COOKIE_SWITCH, 1, Ones(4), Ones(4)>>
         /\ Meant[3] = <<1, 0>> /\ Meant[4] = <<4>> /\ Meant[5] = <<0, what.port, Ones(2)>>
  <1>1. Zeros(1) = <<0>>
    BY DEF Zeros
  <1> QED
    BY <1>1 DEF Items, Cursors, Ends, Meant, OFP_VERSION, OFPT_FLOW_MOD, OFPFC_ADD, Uint8,
      OFP_NO_BUFFER, OFPP_ANY, OFPCML_NO_BUFFER

\* Those of a packet.
LEMMA PacketMeant ==
  ASSUME what.kind = "packet"
  PROVE  /\ Items = 3 /\ Cursors = <<0, 14, 34, 54>> /\ Ends = <<0, 0, 0, 0>>
         /\ Meant[1] = <<<<0, 0, 12>> \o Tail(what.dst), <<0, 2, 179>> \o Tail(what.src), Uint16(2048)>>
         /\ Meant[2] = <<Stored(Uint16(1440)), <<6>>, <<10, 0, 0, 1>>, <<10, 0, 0, 2>>, <<Unset, Unset>>>>
         /\ Meant[3] = <<<<16>>, <<Unset, Unset>>>>
  <1>1. Items = 3 /\ Cursors = <<0, 14, 34, 54>> /\ Ends = <<0, 0, 0, 0>>
    BY DEF Items, Cursors, Ends
  <1>2. Uint16(2048) = <<8, 0>>
    BY DEF Uint16
  <1> DEFINE dhost == <<0, 0, 12>> \o Tail(what.dst)
             shost == <<0, 2, 179>> \o Tail(what.src)
             a == <<dhost, shost, <<8, 0>>>>
             b == <<Stored(Uint16(1440)), <<6>>, <<10, 0, 0, 1>>, <<10, 0, 0, 2>>, <<Unset, Unset>>>>
             c == <<<<16>>, <<Unset, Unset>>>>
  <1>3. Meant = <<a, b, c>>
    BY DEF Meant
  <1> HIDE DEF a, b, c
  <1>4. Meant[1] = a /\ Meant[2] = b /\ Meant[3] = c
    BY <1>3
  <1> QED
    BY <1>1, <1>2, <1>4 DEF a, b, c

\* How far the reader has come, from how much it has read.
LEMMA ReadSoFar ==
  ASSUME Known, ReaderInv
  PROVE  /\ Len(read) \in 0 .. Items /\ HasRead(Len(read))
         /\ cursor = Cursors[Len(read) + 1] /\ inside = Ends[Len(read) + 1]
         /\ \A i \in 1 .. Len(read) : read[i] = Meant[i]
  <1>1. PICK n \in Nat : HasRead(n)
    BY DEF ReaderInv
  <1>2. Len(read) = n
    BY <1>1, OneMore DEF HasRead
  <1> QED
    BY <1>1, <1>2 DEF HasRead, First

\* What is sent has been written.
LEMMA SentWritten ==
  ASSUME Known, NEW item, NEW next, NEW end, Reads(item, next, end)
  PROVE  written = Len(Table)
  BY Tabled DEF Reads, Sent

\* One lemma for each of the reader's actions: it reads what was meant, and
\* goes on where the next item is.
LEMMA HeaderRead ==
  ASSUME Known, MemoryInv, ReaderInv, read_header
  PROVE  ReaderInv'
  <1> DEFINE header(name) == Get(0, ofp_header, name)
             item == <<header("version"), header("type"), Number(header("length")), header("xid")>>
  <1>1. Reads(item, Sizeof(ofp_header), 0) /\ Len(read) = 0 /\ HasRead(0)
        /\ (what.kind = "hello" \/ what.kind = "flow_mod")
    BY ReadSoFar DEF read_header, Here
  <1>2. written = Len(Table)
    BY <1>1, SentWritten
  <1>3. Sizeof(ofp_header) = 8
    BY In_ofp_header DEF Known
  <1>4. Number(Uint16(8)) = 8 /\ Number(Uint16(80)) = 80
    BY Uint16s, SomeShorts
  <1>5. CASE what.kind = "hello"
    <2>1. item = Meant[1]
      BY <1>2, <1>4, <1>5, HelloFields, HelloMeant
    <2> HIDE DEF item
    <2>2. Cursors[2] = 8 /\ Ends[2] = 0 /\ 1 <= Items
      BY <1>5, HelloMeant
    <2> QED
      BY <1>1, <1>3, <2>1, <2>2, ReadsNext
  <1>6. CASE what.kind = "flow_mod"
    <2>1. item = Meant[1]
      BY <1>2, <1>4, <1>6, FlowModFields, FlowModMeant
    <2> HIDE DEF item
    <2>2. Cursors[2] = 8 /\ Ends[2] = 0 /\ 1 <= Items
      BY <1>6, FlowModMeant
    <2> QED
      BY <1>1, <1>3, <2>1, <2>2, ReadsNext
  <1> QED
    BY <1>1, <1>5, <1>6

\* The rest of the FLOW_MOD.
LEMMA FlowModRead ==
  ASSUME Known, MemoryInv, ReaderInv, read_flow_mod
  PROVE  ReaderInv'
  <1> DEFINE flow_mod(name) == Get(0, ofp_flow_mod, name)
             item == <<flow_mod("command"), flow_mod("table_id"), flow_mod("cookie"),
                       Number(flow_mod("priority")), flow_mod("buffer_id"), flow_mod("out_port")>>
  <1>1. Reads(item, MatchAt, 0) /\ HasRead(1) /\ what.kind = "flow_mod"
    BY ReadSoFar DEF read_flow_mod, Here
  <1>2. written = Len(Table)
    BY <1>1, SentWritten
  <1>3. MatchAt = 48
    BY In_ofp_flow_mod DEF Known, MatchAt
  <1>4. Number(Uint16(1)) = 1
    BY Uint16s, SomeShorts
  <1>5. item = Meant[2]
    BY <1>1, <1>2, <1>4, FlowModFields, FlowModMeant
  <1> HIDE DEF item
  <1>6. Cursors[3] = 48 /\ Ends[3] = 0 /\ 2 <= Items
    BY <1>1, FlowModMeant
  <1> QED
    BY <1>1, <1>3, <1>5, <1>6, ReadsNext

\* Its match, whose length leaves out the padding.
LEMMA MatchRead ==
  ASSUME Known, MemoryInv, ReaderInv, read_match
  PROVE  ReaderInv'
  <1> DEFINE length == Number(Get(cursor, ofp_match, "length"))
             item == <<Number(Get(cursor, ofp_match, "type")), length - 4>>
  <1>1. Reads(item, cursor + AlignUp(length, 8), 0) /\ HasRead(2) /\ what.kind = "flow_mod"
    BY ReadSoFar DEF read_match, Here
  <1>2. written = Len(Table)
    BY <1>1, SentWritten
  <1>3. Cursors[3] = 48 /\ Cursors[4] = 56 /\ Ends[4] = 0 /\ 3 <= Items /\ Meant[3] = <<1, 0>>
    BY <1>1, FlowModMeant
  <1>4. cursor = 48
    BY <1>1, <1>3 DEF HasRead
  <1>5. Number(Uint16(1)) = 1 /\ Number(Uint16(4)) = 4
    BY Uint16s, SomeShorts
  <1>6. length = 4 /\ item = Meant[3]
    BY <1>1, <1>2, <1>3, <1>4, <1>5, FlowModFields
  <1> HIDE DEF item, length
  <1>7. cursor + AlignUp(length, 8) = 56
    BY <1>4, <1>6 DEF AlignUp
  <1> QED
    BY <1>1, <1>3, <1>6, <1>7, ReadsNext

\* Its instruction.
LEMMA InstructionRead ==
  ASSUME Known, MemoryInv, ReaderInv, read_instruction
  PROVE  ReaderInv'
  <1> DEFINE item == <<Number(Get(cursor, ofp_instruction_actions, "type"))>>
             next == cursor + Sizeof(ofp_instruction_actions)
             end == cursor + Number(Get(cursor, ofp_instruction_actions, "len"))
  <1>1. /\ Reads(item, next, end) /\ what.kind = "flow_mod" /\ Len(read) >= 3
        /\ inside = 0 /\ cursor < read[1][3]
    BY DEF read_instruction
  <1>2. /\ Cursors = <<0, 8, 48, 56, 64, 80>> /\ Ends = <<0, 0, 0, 0, 80, 0>>
        /\ Meant[1][3] = 80 /\ Meant[4] = <<4>> /\ Items = 5
    BY <1>1, FlowModMeant
  <1>3. /\ Len(read) \in 0 .. Items /\ HasRead(Len(read)) /\ (\A i \in 1 .. Len(read) : read[i] = Meant[i])
        /\ cursor = Cursors[Len(read) + 1] /\ inside = Ends[Len(read) + 1]
    BY ReadSoFar
  <1>4. Len(read) = 3 /\ cursor = 56
    <2> DEFINE n == Len(read)
    <2>1. n \in 0 .. 5 /\ n >= 3 /\ 1 \in 1 .. n
      BY <1>1, <1>2, <1>3
    <2>2. cursor < 80 /\ inside = 0
      BY <1>1, <1>2, <1>3, <2>1
    <2>3. cursor = Cursors[n + 1] /\ inside = Ends[n + 1]
      BY <1>3
    <2> HIDE DEF n
    <2>4. n = 3 \/ n = 4 \/ n = 5
      BY <2>1
    <2>5. n # 4
      BY <1>2, <2>2, <2>3
    <2>6. n # 5
      BY <1>2, <2>2, <2>3
    <2>7. n = 3 /\ cursor = 56
      BY <1>2, <2>3, <2>4, <2>5, <2>6
    <2> QED
      BY <2>7 DEF n
  <1>5. written = Len(Table)
    BY <1>1, SentWritten
  <1>6. Number(Uint16(4)) = 4 /\ Number(Uint16(24)) = 24
    BY Uint16s, SomeShorts
  <1>7. item = Meant[4] /\ end = 80
    BY <1>1, <1>2, <1>4, <1>5, <1>6, FlowModFields
  <1>8. next = 64
    BY <1>4, In_ofp_instruction_actions DEF Known
  <1> HIDE DEF item, next, end
  <1>9. Cursors[5] = 64 /\ Ends[5] = 80 /\ 4 <= Items /\ HasRead(3)
    <2>1. HasRead(3)
      BY <1>3, <1>4
    <2> QED
      BY <1>2, <2>1
  <1> QED
    BY <1>1, <1>7, <1>8, <1>9, ReadsNext

\* The action within it.
LEMMA ActionRead ==
  ASSUME Known, MemoryInv, ReaderInv, read_action
  PROVE  ReaderInv'
  <1> DEFINE action(name) == Get(cursor, ofp_action_output, name)
             item == <<Number(action("type")), action("port"), action("max_len")>>
             next == cursor + Number(action("len"))
             end == IF next = inside THEN 0 ELSE inside
  <1>1. Reads(item, next, end) /\ cursor < inside
    BY DEF read_action
  <1>2. /\ Len(read) \in 0 .. Items /\ HasRead(Len(read))
        /\ cursor = Cursors[Len(read) + 1] /\ inside = Ends[Len(read) + 1]
    BY ReadSoFar
  <1>3. what.kind # "hello"
    BY <1>1, <1>2, HelloMeant
  <1>4. what.kind # "packet"
    BY <1>1, <1>2, PacketMeant
  <1>5. what.kind = "flow_mod"
    BY <1>3, <1>4 DEF Known
  <1>6. /\ Cursors = <<0, 8, 48, 56, 64, 80>> /\ Ends = <<0, 0, 0, 0, 80, 0>>
        /\ Meant[5] = <<0, what.port, Ones(2)>> /\ Items = 5
    BY <1>5, FlowModMeant
  <1>7. Len(read) = 4 /\ cursor = 64 /\ inside = 80
    <2> DEFINE n == Len(read)
    <2>1. n \in 0 .. 5
      BY <1>2, <1>6
    <2>2. cursor = Cursors[n + 1] /\ inside = Ends[n + 1]
      BY <1>2
    <2> HIDE DEF n
    <2>3. n = 0 \/ n = 1 \/ n = 2 \/ n = 3 \/ n = 4 \/ n = 5
      BY <2>1
    <2>4. n # 4 => inside = 0 /\ cursor \in Nat
      BY <1>6, <2>2, <2>3
    <2>5. n = 4 /\ cursor = 64 /\ inside = 80
      BY <1>1, <1>6, <2>2, <2>4
    <2> QED
      BY <2>5 DEF n
  <1>8. written = Len(Table)
    BY <1>1, SentWritten
  <1>9. Number(Uint16(0)) = 0 /\ Number(Uint16(16)) = 16
    BY Uint16s, SomeShorts
  <1>10. item = Meant[5] /\ next = 80
    BY <1>5, <1>6, <1>7, <1>8, <1>9, FlowModFields
  <1>11. end = 0
    BY <1>7, <1>10
  <1> HIDE DEF item, next, end
  <1>12. Cursors[6] = 80 /\ Ends[6] = 0 /\ 5 <= Items /\ HasRead(4)
    BY <1>2, <1>6, <1>7
  <1> QED
    BY <1>1, <1>10, <1>11, <1>12, ReadsNext

\* The Ethernet header.
LEMMA EthernetRead ==
  ASSUME Known, MemoryInv, ReaderInv, read_ethernet
  PROVE  ReaderInv'
  <1> DEFINE eth(name) == Get(0, sniff_ethernet, name)
             item == <<eth("ether_dhost"), eth("ether_shost"), eth("ether_type")>>
  <1>1. Reads(item, IpAt, 0) /\ HasRead(0) /\ what.kind = "packet"
    BY ReadSoFar DEF read_ethernet, Here
  <1>2. written = Len(Table)
    BY <1>1, SentWritten
  <1>3. IpAt = 14
    BY PacketPlaces DEF Known
  <1> DEFINE dhost == <<0, 0, 12>> \o Tail(what.dst)
             shost == <<0, 2, 179>> \o Tail(what.src)
  <1>4. eth("ether_dhost") = dhost /\ eth("ether_shost") = shost /\ eth("ether_type") = Uint16(2048)
    <2>1. eth("ether_type") = Uint16(2048)
      BY <1>1, <1>2, PacketFields
    <2>2. what.kind = "packet"
      BY <1>1
    <2>3. Get(0, sniff_ethernet, "ether_dhost") = dhost
      BY <1>2, <2>2, PacketBytes
    <2>4. Get(0, sniff_ethernet, "ether_shost") = shost
      BY <1>2, <2>2, PacketBytes
    <2> QED
      BY <2>1, <2>3, <2>4
  <1>5. Meant[1] = <<dhost, shost, Uint16(2048)>>
    BY <1>1, PacketMeant
  <1> HIDE DEF eth, dhost, shost
  <1>6. item = Meant[1]
    BY <1>4, <1>5
  <1> HIDE DEF item
  <1>7. Cursors[2] = 14 /\ Ends[2] = 0 /\ 1 <= Items
    BY <1>1, PacketMeant
  <1> QED
    BY <1>1, <1>3, <1>6, <1>7, ReadsNext

\* The IP header, by its length field.
LEMMA IpRead ==
  ASSUME Known, MemoryInv, ReaderInv, read_ip
  PROVE  ReaderInv'
  <1> DEFINE ip(name) == Get(cursor, sniff_ip, name)
             item == <<ip("ip_len"), ip("ip_p"), ip("ip_src"), ip("ip_dst"), ip("ip_sum")>>
             next == cursor + 4 * (ip("ip_vhl")[1] % 16)
  <1>1. Reads(item, next, 0) /\ HasRead(1) /\ what.kind = "packet"
    BY ReadSoFar DEF read_ip, Here
  <1>2. written = Len(Table)
    BY <1>1, SentWritten
  <1>3. /\ Cursors[2] = 14 /\ Cursors[3] = 34 /\ Ends[3] = 0 /\ 2 <= Items
        /\ Meant[2] = <<Stored(Uint16(1440)), <<6>>, <<10, 0, 0, 1>>, <<10, 0, 0, 2>>, <<Unset, Unset>>>>
    BY <1>1, PacketMeant
  <1>4. cursor = 14
    BY <1>1, <1>3 DEF HasRead
  <1>5. /\ ip("ip_len") = Stored(Uint16(1440)) /\ ip("ip_p") = <<6>> /\ ip("ip_src") = <<10, 0, 0, 1>>
        /\ ip("ip_dst") = <<10, 0, 0, 2>> /\ ip("ip_sum") = <<Unset, Unset>> /\ ip("ip_vhl") = <<69>>
    BY <1>1, <1>2, <1>4, PacketFields, PacketBytes
  <1>6. next = 34
    BY <1>4, <1>5
  <1> HIDE DEF ip
  <1>7. item = Meant[2]
    BY <1>3, <1>5
  <1> HIDE DEF item, next
  <1> QED
    BY <1>1, <1>3, <1>6, <1>7, ReadsNext

\* The TCP header.
LEMMA TcpRead ==
  ASSUME Known, MemoryInv, ReaderInv, read_tcp
  PROVE  ReaderInv'
  <1> DEFINE tcp(name) == Get(cursor, sniff_tcp, name)
             item == <<tcp("th_flags"), tcp("th_dport")>>
             next == cursor + 4 * (tcp("th_offx2")[1] \div 16)
  <1>1. Reads(item, next, 0) /\ HasRead(2) /\ what.kind = "packet"
    BY ReadSoFar DEF read_tcp, Here
  <1>2. written = Len(Table)
    BY <1>1, SentWritten
  <1>3. /\ Cursors[3] = 34 /\ Cursors[4] = 54 /\ Ends[4] = 0 /\ 3 <= Items
        /\ Meant[3] = <<<<16>>, <<Unset, Unset>>>>
    BY <1>1, PacketMeant
  <1>4. cursor = 34
    BY <1>1, <1>3 DEF HasRead
  <1>5. tcp("th_flags") = <<16>> /\ tcp("th_dport") = <<Unset, Unset>> /\ tcp("th_offx2") = <<80>>
    BY <1>1, <1>2, <1>4, PacketFields, PacketBytes
  <1>6. next = 54
    BY <1>4, <1>5
  <1> HIDE DEF tcp
  <1>7. item = Meant[3]
    BY <1>3, <1>5
  <1> HIDE DEF item, next
  <1> QED
    BY <1>1, <1>3, <1>6, <1>7, ReadsNext

-----------------------------------------------------------------------------
(* The inductive invariant, and what follows from it. *)

Inv == Known /\ MemoryInv /\ ReaderInv

\* It holds at first.
LEMMA InitInv ==
  ASSUME Init
  PROVE  Inv
  <1>1. Known
    BY DEF Init, Known
  <1>2. memory = [k \in 1 .. Extent |-> Unset] /\ written = 0
    BY <1>1, Tabled DEF Init
  <1>3. MemoryInv
    <2>1. \A j \in 1 .. written : FALSE
      BY <1>2
    <2>2. Len(Table) \in Nat
      BY <1>1, TableBytes
    <2> QED
      BY <1>2, <2>1, <2>2 DEF MemoryInv
  <1>4. HasRead(0)
    <2>1. 0 \in 0 .. Items
      BY <1>1, ItemsMeant
    <2>2. First(0) = <<>>
      BY DEF First
    <2>3. Cursors[1] = 0 /\ Ends[1] = 0
      BY <1>1 DEF Known, Cursors, Ends
    <2> QED
      BY <2>1, <2>2, <2>3 DEF HasRead, Init
  <1> QED
    BY <1>1, <1>3, <1>4 DEF Inv, ReaderInv

\* The reader leaves the memory alone, and nothing is written once it reads.
LEMMA ReaderWrites ==
  ASSUME Known, MemoryInv, UNCHANGED <<host, what, memory, written>>
  PROVE  MemoryInv'
  <1>1. Table' = Table /\ Extent' = Extent
    BY DEF Table, Extent, HelloTable, FlowModTable, PacketTable, Stored
  <1>2. \A j, k : Covers(j, k)' <=> Covers(j, k)
    BY <1>1 DEF Covers
  <1> QED
    BY <1>1, <1>2 DEF MemoryInv

\* Nor does anything but reading move the reader.
LEMMA ReaderStays ==
  ASSUME Known, ReaderInv, UNCHANGED <<host, what, cursor, inside, read>>,
         written < Len(Table) \/ written' = written
  PROVE  ReaderInv'
  <1>1. Items' = Items /\ Meant' = Meant /\ Cursors' = Cursors /\ Ends' = Ends /\ Table' = Table
    BY DEF Items, Meant, Cursors, Ends, Table, HelloTable, FlowModTable, PacketTable, Stored
  <1>2. PICK n \in Nat : HasRead(n)
    BY DEF ReaderInv
  <1>3. First(n)' = First(n)
    BY <1>1 DEF First
  <1>4. n = 0 \/ written' = Len(Table)
    <2>1. n = 0 \/ written = Len(Table)
      BY <1>2 DEF HasRead
    <2>2. Len(Table) \in Nat
      BY TableBytes
    <2> QED
      BY <2>1, <2>2
  <1>5. HasRead(n)'
    BY <1>1, <1>2, <1>3, <1>4 DEF HasRead
  <1> QED
    BY <1>5 DEF ReaderInv

\* Every step keeps it.
LEMMA NextInv ==
  ASSUME Inv, [Next]_vars
  PROVE  Inv'
  <1>1. Known /\ MemoryInv /\ ReaderInv
    BY DEF Inv
  <1>2. CASE assign
    <2>1. Known'
      BY <1>1, <1>2 DEF Known, assign
    <2>2. written < Len(Table)
      BY <1>1, <1>2, Tabled DEF assign
    <2>3. ReaderInv'
      BY <1>1, <1>2, <2>2, ReaderStays DEF assign
    <2> QED
      BY <1>1, <1>2, <2>1, <2>3, MemoryStep DEF Inv
  <1>3. CASE reader
    <2>1. UNCHANGED <<host, what, memory, written>>
      BY <1>3 DEF reader, read_header, read_flow_mod, read_match, read_instruction, read_action,
        read_ethernet, read_ip, read_tcp, Reads
    <2>2. Known'
      BY <1>1, <2>1 DEF Known
    <2>3. MemoryInv'
      BY <1>1, <2>1, ReaderWrites
    <2>4. ReaderInv'
      BY <1>1, <1>3, HeaderRead, FlowModRead, MatchRead, InstructionRead, ActionRead,
        EthernetRead, IpRead, TcpRead DEF reader
    <2> QED
      BY <2>2, <2>3, <2>4 DEF Inv
  <1>4. CASE rest \/ UNCHANGED vars
    <2>1. UNCHANGED <<host, what, memory, written, cursor, inside, read>>
      BY <1>4 DEF rest, vars
    <2>2. Known'
      BY <1>1, <2>1 DEF Known
    <2>3. MemoryInv'
      BY <1>1, <2>1, ReaderWrites
    <2>4. ReaderInv'
      BY <1>1, <2>1, ReaderStays
    <2> QED
      BY <2>2, <2>3, <2>4 DEF Inv
  <1> QED
    BY <1>2, <1>3, <1>4 DEF Next

\* Every state the program reaches satisfies the inductive invariant.
THEOREM Invariance == Spec => []Inv
  <1>1. Init => Inv
    BY InitInv
  <1>2. Inv /\ [Next]_vars => Inv'
    BY NextInv
  <1> QED
    BY <1>1, <1>2, PTL DEF Spec

\* No write goes beyond the buffer, and the reader stays within it: the memory of
\* send_header, prepare_switch and make_pkt is always bytes or unset.
THEOREM TypeCorrect == Spec => []TypeOK
  <1>1. ASSUME Inv PROVE TypeOK
    <2>1. Known /\ MemoryInv /\ ReaderInv
      BY <1>1 DEF Inv
    <2>2. Assignments = Table /\ Size = Extent
      BY <2>1, Tabled
    <2>3. memory \in [1 .. Size -> Byte \cup {Unset}]
      BY <2>1, <2>2, MemoryTyped
    <2>4. written \in 0 .. Len(Assignments)
      BY <2>1, <2>2 DEF MemoryInv
    <2>5. /\ Len(read) \in 0 .. Items
          /\ cursor = Cursors[Len(read) + 1] /\ inside = Ends[Len(read) + 1]
      BY <2>1, ReadSoFar
    <2>6. cursor \in 0 .. Extent /\ inside \in {0} \cup cursor + 1 .. Extent
      <3> DEFINE n == Len(read)
      <3>1. n \in 0 .. Items /\ cursor = Cursors[n + 1] /\ inside = Ends[n + 1]
        BY <2>5
      <3> HIDE DEF n
      <3>2. CASE what.kind = "hello"
        <4>1. Items = 1 /\ Cursors = <<0, 8>> /\ Ends = <<0, 0>> /\ Extent = 8
          BY <3>2, HelloMeant DEF Extent
        <4>2. n = 0 \/ n = 1
          BY <3>1, <4>1
        <4> QED
          BY <3>1, <4>1, <4>2
      <3>3. CASE what.kind = "flow_mod"
        <4>1. /\ Items = 5 /\ Cursors = <<0, 8, 48, 56, 64, 80>> /\ Ends = <<0, 0, 0, 0, 80, 0>>
              /\ Extent = 80
          BY <3>3, FlowModMeant DEF Extent
        <4>2. n = 0 \/ n = 1 \/ n = 2 \/ n = 3 \/ n = 4 \/ n = 5
          BY <3>1, <4>1
        <4> QED
          BY <3>1, <4>1, <4>2
      <3>4. CASE what.kind = "packet"
        <4>1. Items = 3 /\ Cursors = <<0, 14, 34, 54>> /\ Ends = <<0, 0, 0, 0>> /\ Extent = 54
          BY <3>4, PacketMeant DEF Extent
        <4>2. n = 0 \/ n = 1 \/ n = 2 \/ n = 3
          BY <3>1, <4>1
        <4> QED
          BY <3>1, <4>1, <4>2
      <3> QED
        BY <2>1, <3>2, <3>3, <3>4 DEF Known
    <2> QED
      BY <2>2, <2>3, <2>4, <2>6 DEF TypeOK, Byte
  <1> QED
    BY <1>1, Invariance, PTL

\* On either machine every struct of openflow.h has the size its OFP_ASSERT states
\* and no gap before a field, whatever the message.
THEOREM LaidOut == Spec => []LayoutAsAsserted
  <1>1. ASSUME Inv PROVE LayoutAsAsserted
    BY <1>1, EveryStruct DEF Inv, Known, LayoutAsAsserted
  <1> QED
    BY <1>1, Invariance, PTL

\* When the reader has come to the end it has read what the program meant, whatever
\* the byte order, the layout, the xid, the port and the counters; of a control
\* message every byte was assigned, of a packet (make_pkt) all but 16.
THEOREM ReadRight == Spec => []ReadAsMeant
  <1>1. ASSUME Inv PROVE ReadAsMeant
    <2>1. Known /\ MemoryInv /\ ReaderInv
      BY <1>1 DEF Inv
    <2> SUFFICES ASSUME Finished
                 PROVE  /\ read = Meant
                        /\ UnsetBytes = IF what.kind = "packet" THEN 16 ELSE 0
      BY DEF ReadAsMeant
    <2>2. Assignments = Table /\ Size = Extent
      BY <2>1, Tabled
    <2>3. written = Len(Table) /\ cursor = Extent /\ inside = 0
      BY <2>2 DEF Finished, Sent
    <2>4. PICK n \in Nat : HasRead(n)
      BY <2>1 DEF ReaderInv
    <2>5. n \in 0 .. Items /\ cursor = Cursors[n + 1] /\ inside = Ends[n + 1] /\ read = First(n)
      BY <2>4 DEF HasRead
    <2>6. n = Items
      <3>1. CASE what.kind = "hello"
        <4>1. Items = 1 /\ Cursors = <<0, 8>> /\ Extent = 8
          BY <3>1, HelloMeant DEF Extent
        <4>2. n = 0 \/ n = 1
          BY <2>5, <4>1
        <4>3. cursor = 8 /\ cursor = Cursors[n + 1]
          BY <2>3, <2>5, <4>1
        <4>4. n = 1
          BY <4>1, <4>2, <4>3
        <4> QED
          BY <4>1, <4>4
      <3>2. CASE what.kind = "flow_mod"
        <4>1. Items = 5 /\ Cursors = <<0, 8, 48, 56, 64, 80>> /\ Extent = 80
          BY <3>2, FlowModMeant DEF Extent
        <4>2. n = 0 \/ n = 1 \/ n = 2 \/ n = 3 \/ n = 4 \/ n = 5
          BY <2>5, <4>1
        <4>3. cursor = 80 /\ cursor = Cursors[n + 1]
          BY <2>3, <2>5, <4>1
        <4>4. n = 5
          BY <4>1, <4>2, <4>3
        <4> QED
          BY <4>1, <4>4
      <3>3. CASE what.kind = "packet"
        <4>1. Items = 3 /\ Cursors = <<0, 14, 34, 54>> /\ Extent = 54
          BY <3>3, PacketMeant DEF Extent
        <4>2. n = 0 \/ n = 1 \/ n = 2 \/ n = 3
          BY <2>5, <4>1
        <4>3. cursor = 54 /\ cursor = Cursors[n + 1]
          BY <2>3, <2>5, <4>1
        <4>4. n = 3
          BY <4>1, <4>2, <4>3
        <4> QED
          BY <4>1, <4>4
      <3> QED
        BY <2>1, <3>1, <3>2, <3>3 DEF Known
    <2>7. read = Meant
      BY <2>1, <2>5, <2>6, ItemsMeant
    <2> QED
      BY <2>1, <2>3, <2>7, HowManyUnset
  <1> QED
    BY <1>1, Invariance, PTL
=============================================================================
