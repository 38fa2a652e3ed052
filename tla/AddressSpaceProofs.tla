------------------------- MODULE AddressSpaceProofs -------------------------
(***************************************************************************)
(* Theorems of AddressSpace, for any number of frames, entries of a table, *)
(* processes and words, and any program.                                   *)
(*                                                                         *)
(* The frames are tables and pages of trees.  The proofs give each frame a *)
(* place: the root of its tree, its level below it, and the indices that   *)
(* lead to it.  An entry leads to the place below it in the same tree, or, *)
(* in a root table and outside the part of programs, into the tree of the  *)
(* kernel.  That is all that keeps processes apart: two frames with        *)
(* different roots are different.                                          *)
(***************************************************************************)
EXTENDS AddressSpace, FiniteSetTheorems, WellFoundedInduction, TLAPS

-----------------------------------------------------------------------------
(* Places, and what holds of frames m whose places are ps. *)

Places == [root : Nat, level : 0 .. 3, first : Nat, second : Nat, third : Nat]

Root(f) == [root |-> f, level |-> 0, first |-> 0, second |-> 0, third |-> 0]

Below(g, i) ==
  [root   |-> g.root,
   level  |-> g.level + 1,
   first  |-> IF g.level = 0 THEN i ELSE g.first,
   second |-> IF g.level = 1 THEN i ELSE g.second,
   third  |-> IF g.level = 2 THEN i ELSE g.third]

(* Entry e may be the one with index i of frame f: it leads to a table, to *)
(* a page, or to a device.                                                 *)
ToTable(e, ps, f, i) ==
  /\ e.kind = "table"
  /\ ps[f].level < 2
  /\ e.to \in 1 .. Len(ps)
  /\ \/ ps[e.to] = Below(ps[f], i)
     \/ ps[f].level = 0 /\ i # USER /\ ps[e.to] = Below(ps[1], i)

ToPage(e, ps, f, i) ==
  /\ ps[f].level = 2
  /\ e.to \in 1 .. Len(ps)
  /\ ps[e.to] = Below(ps[f], i)
  /\ \/ e.kind = "user" /\ ps[f].first \in {LOW, USER}
     \/ e.kind = "kernel" /\ ps[f].first = KERN

ToDevice(e, ps, f, i) ==
  /\ ps[f].level = 2
  /\ ps[f].first = LOW
  /\ e = KernelPage(DEVICE)

Points(e, ps, f, i) ==
  e = Invalid \/ ToTable(e, ps, f, i) \/ ToPage(e, ps, f, i) \/ ToDevice(e, ps, f, i)

Frames == [table : [Indices -> Entries], word : Words \cup {0, ImageWord}]

Good(m, ps) ==
  /\ m \in Seq(Frames)
  /\ ps \in Seq(Places)
  /\ Len(ps) = Len(m)
  /\ 1 <= Len(m)
  /\ ps[1] = Root(1)
  /\ \A f \in 1 .. Len(m) : ps[f].level = 0 => ps[f] = Root(f)
  /\ \A f \in 1 .. Len(m) : \A i \in Indices : Points(m[f].table[i], ps, f, i)

(* The kernel's own tables, and the root tables R that share them.         *)
Kern(m, R) ==
  /\ m[1].table[LOW].kind = "table"
  /\ m[1].table[KERN].kind = "table"
  /\ m[1].table[USER] = Invalid
  /\ \A r \in R : /\ m[r].table[LOW].kind = "table"
                  /\ \A i \in Indices \ {LOW, USER} : m[r].table[i] = m[1].table[i]
                  /\ Lookup(m, r, DeviceVA) = KernelPage(DEVICE)

(* The frames m are trees below the roots R, the kernel's among them.      *)
Sound(m, R) ==
  /\ 1 \in R
  /\ \E ps : /\ Good(m, ps)
             /\ \A r \in R : r \in 1 .. Len(m) /\ ps[r].level = 0
             /\ Kern(m, R)

(* What is found at va below root. *)
Seen(m, root, va) ==
  IF Lookup(m, root, va) = Invalid THEN 0 ELSE m[Lookup(m, root, va).to].word

-----------------------------------------------------------------------------
(* Entries, addresses and places. *)

LEMMA EntryIs ==
  /\ Invalid \in Entries
  /\ \A f \in Nat : Table(f) \in Entries /\ KernelPage(f) \in Entries
  /\ KernelPage(DEVICE) \in Entries
  /\ \A f : Table(f).to = f /\ Table(f).kind = "table" /\ Table(f) # Invalid
  /\ \A f : KernelPage(f).to = f /\ KernelPage(f).kind = "kernel" /\ KernelPage(f) # Invalid
  /\ Invalid.kind = "none" /\ Invalid.to = 0
BY DEF Entries, Invalid, Table, KernelPage, DEVICE

LEMMA IndexIs ==
  /\ LOW \in Indices /\ USER \in Indices /\ KERN \in Indices
  /\ LOW # USER /\ LOW # KERN /\ USER # KERN
  /\ Indices \subseteq Nat
BY IndicesAssumption DEF LOW, USER, KERN

LEMMA AddressIs ==
  ASSUME NEW va \in VAs
  PROVE  va[1] \in Indices /\ va[2] \in Indices /\ va[3] \in Indices /\ va = <<va[1], va[2], va[3]>>
BY DEF VAs

LEMMA ClearIs ==
  ASSUME NEW w \in Words \cup {0, ImageWord}
  PROVE  /\ Clear \in Frames
         /\ [Clear EXCEPT !.word = w] \in Frames
         /\ [Clear EXCEPT !.word = w].word = w
         /\ \A i \in Indices : Clear.table[i] = Invalid /\ [Clear EXCEPT !.word = w].table[i] = Invalid
BY EntryIs DEF Clear, Frames

LEMMA FrameIs ==
  ASSUME NEW x \in Frames
  PROVE  /\ x.word \in Words \cup {0, ImageWord}
         /\ \A i \in Indices : x.table[i] \in Entries
BY DEF Frames

LEMMA RootIs ==
  ASSUME NEW f \in Nat
  PROVE  Root(f) \in Places /\ Root(f).level = 0 /\ Root(f).root = f
BY DEF Root, Places

LEMMA BelowIs ==
  ASSUME NEW g \in Places, NEW i \in Indices, g.level < 3
  PROVE  /\ Below(g, i) \in Places
         /\ Below(g, i).root = g.root
         /\ Below(g, i).level = g.level + 1
         /\ Below(g, i).first = IF g.level = 0 THEN i ELSE g.first
         /\ Below(g, i).second = IF g.level = 1 THEN i ELSE g.second
         /\ Below(g, i).third = IF g.level = 2 THEN i ELSE g.third
<1>1. i \in Nat
  BY IndexIs
<1>2. g.root \in Nat /\ g.level \in 0 .. 2 /\ g.first \in Nat /\ g.second \in Nat /\ g.third \in Nat
  BY DEF Places
<1>3. g.level + 1 \in 0 .. 3
  BY <1>2
<1> QED BY <1>1, <1>2, <1>3 DEF Below, Places

(* What Good says of one frame. *)
LEMMA GoodFrame ==
  ASSUME NEW m, NEW ps, Good(m, ps), NEW f \in 1 .. Len(m)
  PROVE  /\ m[f] \in Frames
         /\ ps[f] \in Places
         /\ f \in Nat
         /\ \A i \in Indices : m[f].table[i] \in Entries /\ Points(m[f].table[i], ps, f, i)
<1>1. m \in Seq(Frames) /\ ps \in Seq(Places) /\ Len(ps) = Len(m)
  BY DEF Good
<1>2. m[f] \in Frames /\ ps[f] \in Places /\ f \in Nat
  BY <1>1
<1> QED BY <1>2, FrameIs DEF Good

(* Entries go on pointing where they did when frames are added.            *)
LEMMA PointsOn ==
  ASSUME NEW ps, NEW qs, Len(ps) \in Nat, Len(qs) \in Nat, 1 <= Len(ps), Len(ps) <= Len(qs),
         \A f \in 1 .. Len(ps) : qs[f] = ps[f],
         NEW f \in 1 .. Len(ps), NEW i, NEW e, Points(e, ps, f, i)
  PROVE  Points(e, qs, f, i)
<1>1. qs[f] = ps[f] /\ qs[1] = ps[1]
  OBVIOUS
<1>2. e.to \in 1 .. Len(ps) => e.to \in 1 .. Len(qs) /\ qs[e.to] = ps[e.to]
  OBVIOUS
<1> QED BY <1>1, <1>2 DEF Points, ToTable, ToPage, ToDevice

(* Where an entry of a frame leads. *)
LEMMA FromRoot ==
  ASSUME NEW m, NEW ps, Good(m, ps), NEW r \in 1 .. Len(m), ps[r].level = 0, NEW i \in Indices,
         m[r].table[i] # Invalid
  PROVE  LET t == m[r].table[i].to
         IN /\ m[r].table[i].kind = "table"
            /\ t \in 1 .. Len(m)
            /\ ps[t].level = 1
            /\ ps[t].first = i
            /\ \/ ps[t].root = r /\ ps[t] = Below(Root(r), i)
               \/ i # USER /\ ps[t].root = 1 /\ ps[t] = Below(Root(1), i)
            /\ ps[t] = Below(Root(ps[t].root), i)
<1> DEFINE e == m[r].table[i]
<1>1. Points(e, ps, r, i) /\ Len(ps) = Len(m) /\ ps[1] = Root(1) /\ ps[r] = Root(r)
  BY GoodFrame DEF Good
<1>2. ToTable(e, ps, r, i)
  BY <1>1 DEF Points, ToPage, ToDevice
<1>3. /\ Below(Root(r), i).level = 1 /\ Below(Root(r), i).first = i /\ Below(Root(r), i).root = r
      /\ Below(Root(1), i).level = 1 /\ Below(Root(1), i).first = i /\ Below(Root(1), i).root = 1
  BY RootIs, BelowIs
<1> QED BY <1>1, <1>2, <1>3 DEF ToTable

LEMMA FromUpper ==
  ASSUME NEW m, NEW ps, Good(m, ps), NEW t \in 1 .. Len(m), ps[t].level = 1, NEW i \in Indices,
         m[t].table[i] # Invalid
  PROVE  LET u == m[t].table[i].to
         IN /\ m[t].table[i].kind = "table"
            /\ u \in 1 .. Len(m)
            /\ ps[u] = Below(ps[t], i)
            /\ ps[u].level = 2
            /\ ps[u].first = ps[t].first
            /\ ps[u].second = i
            /\ ps[u].root = ps[t].root
<1> DEFINE e == m[t].table[i]
<1>1. Points(e, ps, t, i) /\ Len(ps) = Len(m) /\ ps[t] \in Places
  BY GoodFrame DEF Good
<1>2. ToTable(e, ps, t, i)
  BY <1>1 DEF Points, ToPage, ToDevice
<1> QED BY <1>1, <1>2, BelowIs DEF ToTable

LEMMA FromLower ==
  ASSUME NEW m, NEW ps, Good(m, ps), NEW t \in 1 .. Len(m), ps[t].level = 2, NEW i \in Indices,
         m[t].table[i] # Invalid
  PROVE  LET e == m[t].table[i]
         IN \/ ps[t].first = LOW /\ e = KernelPage(DEVICE)
            \/ /\ e.to \in 1 .. Len(m)
               /\ ps[e.to].level = 3
               /\ ps[e.to].first = ps[t].first
               /\ ps[e.to].second = ps[t].second
               /\ ps[e.to].third = i
               /\ ps[e.to].root = ps[t].root
               /\ \/ e.kind = "user" /\ ps[t].first \in {LOW, USER}
                  \/ e.kind = "kernel" /\ ps[t].first = KERN
<1> DEFINE e == m[t].table[i]
<1>1. Points(e, ps, t, i) /\ Len(ps) = Len(m) /\ ps[t] \in Places
  BY GoodFrame DEF Good
<1>2. ToPage(e, ps, t, i) \/ ToDevice(e, ps, t, i)
  BY <1>1 DEF Points, ToTable
<1> QED BY <1>1, <1>2, BelowIs DEF ToPage, ToDevice

-----------------------------------------------------------------------------
(* One more frame, or one entry replaced. *)

(* n has the frames of m and more, with the same words, at the same places. *)
Longer(m, ps, n, qs) ==
  /\ Len(m) <= Len(n)
  /\ \A f \in 1 .. Len(m) : qs[f] = ps[f] /\ n[f].word = m[f].word

(* The root tables of m find the same in n. *)
SameLookups(m, ps, n) ==
  \A r \in 1 .. Len(m) : ps[r].level = 0 => \A va \in VAs : Lookup(n, r, va) = Lookup(m, r, va)

(* m with e for entry i of table t. *)
Put(m, t, i, e) == [m EXCEPT ![t].table[i] = e]

LEMMA SetEntry ==
  ASSUME NEW m \in Seq(Frames), NEW t \in 1 .. Len(m), NEW i \in Indices, NEW e \in Entries
  PROVE  /\ Put(m, t, i, e) \in Seq(Frames)
         /\ Len(Put(m, t, i, e)) = Len(m)
         /\ \A f \in 1 .. Len(m) :
              /\ Put(m, t, i, e)[f].word = m[f].word
              /\ \A j \in Indices :
                   Put(m, t, i, e)[f].table[j] = IF f = t /\ j = i THEN e ELSE m[f].table[j]
<1> DEFINE n == Put(m, t, i, e)
<1> DEFINE tab == [m[t].table EXCEPT ![i] = e]
           fr == [m[t] EXCEPT !.table = tab]
<1>1. m[t] \in Frames
  OBVIOUS
<1>2. tab \in [Indices -> Entries] /\ \A j \in Indices : tab[j] = IF j = i THEN e ELSE m[t].table[j]
  BY <1>1 DEF Frames
<1>3. n = [m EXCEPT ![t] = fr]
  BY DEF fr, tab, Put
<1> HIDE DEF tab, n
<1>4. fr \in Frames /\ fr.table = tab /\ fr.word = m[t].word
  BY <1>1, <1>2 DEF Frames
<1> HIDE DEF fr
<1>5. /\ n \in Seq(Frames) /\ Len(n) = Len(m)
      /\ \A f \in 1 .. Len(m) : n[f] = IF f = t THEN fr ELSE m[f]
  BY <1>3, <1>4
<1>6. ASSUME NEW f \in 1 .. Len(m)
      PROVE  /\ n[f].word = m[f].word
             /\ \A j \in Indices : n[f].table[j] = IF f = t /\ j = i THEN e ELSE m[f].table[j]
  <2>1. n[f] = IF f = t THEN fr ELSE m[f]
    BY <1>5
  <2> QED BY ONLY <2>1, <1>2, <1>4
<1> QED BY <1>5, <1>6 DEF n

PutAndAdd(m, t, i, e) == Append(Put(m, t, i, e), Clear)

LEMMA SetEntryAndAdd ==
  ASSUME NEW m \in Seq(Frames), NEW t \in 1 .. Len(m), NEW i \in Indices, NEW e \in Entries
  PROVE  LET n == PutAndAdd(m, t, i, e) IN
         /\ n \in Seq(Frames)
         /\ Len(n) = Len(m) + 1
         /\ \A f \in 1 .. Len(m) :
              /\ n[f].word = m[f].word
              /\ \A j \in Indices : n[f].table[j] = IF f = t /\ j = i THEN e ELSE m[f].table[j]
         /\ \A j \in Indices : n[Len(m) + 1].table[j] = Invalid
<1> DEFINE n == PutAndAdd(m, t, i, e)
           m1 == Put(m, t, i, e)
<1>1. /\ m1 \in Seq(Frames)
      /\ Len(m1) = Len(m)
      /\ \A f \in 1 .. Len(m) :
           /\ m1[f].word = m[f].word
           /\ \A j \in Indices : m1[f].table[j] = IF f = t /\ j = i THEN e ELSE m[f].table[j]
  BY SetEntry
<1>2. Clear \in Frames /\ \A j \in Indices : Clear.table[j] = Invalid
  BY ClearIs
<1> HIDE DEF m1
<1>3. n = Append(m1, Clear)
  BY DEF PutAndAdd, m1
<1> HIDE DEF n
<1>4. /\ n \in Seq(Frames) /\ Len(n) = Len(m) + 1 /\ n[Len(m) + 1] = Clear
      /\ \A f \in 1 .. Len(m) : n[f] = m1[f]
  BY <1>1, <1>2, <1>3
<1>5. /\ n \in Seq(Frames)
      /\ Len(n) = Len(m) + 1
      /\ \A f \in 1 .. Len(m) :
           /\ n[f].word = m[f].word
           /\ \A j \in Indices : n[f].table[j] = IF f = t /\ j = i THEN e ELSE m[f].table[j]
      /\ \A j \in Indices : n[Len(m) + 1].table[j] = Invalid
  BY ONLY <1>1, <1>2, <1>4
<1> QED BY <1>5 DEF n

(* A root table of m finds the same in n if the walk reads the same.       *)
LEMMA LookupKept ==
  ASSUME NEW m, NEW ps, Good(m, ps), NEW r \in 1 .. Len(m), ps[r].level = 0, NEW va \in VAs, NEW n,
         n[r].table[va[1]] = m[r].table[va[1]],
         \A t \in 1 .. Len(m) : ps[t].level = 1 => n[t].table[va[2]] = m[t].table[va[2]],
         \A u \in 1 .. Len(m) :
           /\ ps[u].level = 2 /\ ps[u].first = va[1] /\ ps[u].second = va[2]
           /\ va[1] = USER => ps[u].root = r
           => n[u].table[va[3]] = m[u].table[va[3]]
  PROVE  Lookup(n, r, va) = Lookup(m, r, va)
<1>1. va[1] \in Indices /\ va[2] \in Indices
  BY ONLY va \in VAs, AddressIs
<1>2. PICK t : m[r].table[va[1]].to = t
  OBVIOUS
<1>3. PICK u : m[t].table[va[2]].to = u
  OBVIOUS
<1>4. CASE m[r].table[va[1]] = Invalid
  BY ONLY <1>4, n[r].table[va[1]] = m[r].table[va[1]], Zenon DEF Lookup
<1>5. CASE m[r].table[va[1]] # Invalid
  <2>1. t \in 1 .. Len(m) /\ ps[t].level = 1 /\ ps[t].first = va[1] /\ (va[1] = USER => ps[t].root = r)
    BY ONLY Good(m, ps), r \in 1 .. Len(m), ps[r].level = 0, <1>1, <1>2, <1>5, FromRoot
  <2>2. n[t].table[va[2]] = m[t].table[va[2]]
    BY <2>1
  <2>3. CASE m[t].table[va[2]] = Invalid
    BY ONLY <1>2, <1>5, <2>2, <2>3, n[r].table[va[1]] = m[r].table[va[1]], Zenon DEF Lookup
  <2>4. CASE m[t].table[va[2]] # Invalid
    <3>1. /\ u \in 1 .. Len(m)
          /\ ps[u].level = 2 /\ ps[u].first = ps[t].first /\ ps[u].second = va[2]
          /\ ps[u].root = ps[t].root
      BY ONLY Good(m, ps), <1>1, <1>3, <2>1, <2>4, FromUpper
    <3>2. n[u].table[va[3]] = m[u].table[va[3]]
      BY <2>1, <3>1
    <3> QED BY ONLY <1>2, <1>3, <1>5, <2>2, <2>4, <3>2, n[r].table[va[1]] = m[r].table[va[1]],
                    ZenonT(40) DEF Lookup
  <2> QED BY ONLY <2>3, <2>4
<1> QED BY ONLY <1>4, <1>5

(* Root tables find the same if the frames are as they were.               *)
LEMMA LookupsKept ==
  ASSUME NEW m, NEW ps, Good(m, ps), NEW n, \A f \in 1 .. Len(m) : n[f] = m[f]
  PROVE  SameLookups(m, ps, n)
<1>1. ASSUME NEW r \in 1 .. Len(m), ps[r].level = 0, NEW va \in VAs
      PROVE  Lookup(n, r, va) = Lookup(m, r, va)
  BY <1>1, LookupKept
<1> QED BY <1>1 DEF SameLookups

(* A frame added at a place of its own: its entries point somewhere.       *)
LEMMA AddFrame ==
  ASSUME NEW m, NEW ps, Good(m, ps), NEW x \in Frames, NEW g \in Places,
         g.level = 0 => g = Root(Len(m) + 1),
         \A i \in Indices : Points(x.table[i], Append(ps, g), Len(m) + 1, i)
  PROVE  LET n == Append(m, x)
             qs == Append(ps, g)
         IN /\ Good(n, qs)
            /\ Longer(m, ps, n, qs)
            /\ Len(n) = Len(m) + 1
            /\ qs[Len(m) + 1] = g
            /\ n[Len(m) + 1] = x
            /\ \A f \in 1 .. Len(m) : n[f] = m[f]
            /\ SameLookups(m, ps, n)
<1> DEFINE n == Append(m, x)
           qs == Append(ps, g)
<1>1. m \in Seq(Frames) /\ ps \in Seq(Places) /\ Len(ps) = Len(m) /\ 1 <= Len(m) /\ ps[1] = Root(1)
  BY DEF Good
<1>2. /\ n \in Seq(Frames) /\ Len(n) = Len(m) + 1
      /\ n[Len(m) + 1] = x
      /\ \A f \in 1 .. Len(m) : n[f] = m[f]
  BY <1>1
<1>3. /\ qs \in Seq(Places) /\ Len(qs) = Len(m) + 1
      /\ qs[Len(m) + 1] = g
      /\ \A f \in 1 .. Len(m) : qs[f] = ps[f]
  BY <1>1
<1>4. Len(m) \in Nat
  BY <1>1
<1> HIDE DEF n, qs
<1>5. ASSUME NEW f \in 1 .. Len(n)
      PROVE  /\ qs[f].level = 0 => qs[f] = Root(f)
             /\ \A i \in Indices : Points(n[f].table[i], qs, f, i)
  <2>1. CASE f = Len(m) + 1
    BY <2>1, <1>2, <1>3 DEF qs
  <2>2. CASE f # Len(m) + 1
    <3>1. f \in 1 .. Len(m)
      BY <2>2, <1>2, <1>4
    <3>2. \A i \in Indices : Points(m[f].table[i], ps, f, i)
      BY <3>1 DEF Good
    <3>3. \A i \in Indices : Points(m[f].table[i], qs, f, i)
      <4>1. SUFFICES ASSUME NEW i \in Indices
                     PROVE  Points(m[f].table[i], qs, f, i)
        OBVIOUS
      <4>2. Points(m[f].table[i], ps, f, i)
        BY <3>2
      <4>3. f \in 1 .. Len(ps) /\ Len(ps) \in Nat /\ Len(qs) \in Nat /\ 1 <= Len(ps) /\ Len(ps) <= Len(qs)
        BY <3>1, <1>1, <1>3, <1>4
      <4>4. \A h \in 1 .. Len(ps) : qs[h] = ps[h]
        BY <1>1, <1>3
      <4> QED BY ONLY <4>2, <4>3, <4>4, PointsOn
    <3> QED BY <3>1, <3>3, <1>2, <1>3 DEF Good
  <2> QED BY <2>1, <2>2
<1>6. Good(n, qs)
  BY <1>1, <1>2, <1>3, <1>4, <1>5 DEF Good
<1>7. SameLookups(m, ps, n)
  BY <1>2, LookupsKept
<1> QED BY <1>1, <1>2, <1>3, <1>4, <1>6, <1>7 DEF n, qs, Longer

(* A new page, at any place. *)
LEMMA AddPage ==
  ASSUME NEW m, NEW ps, Good(m, ps), NEW g \in Places, g.level # 0,
         NEW w \in Words \cup {0, ImageWord}
  PROVE  LET n == Append(m, [Clear EXCEPT !.word = w])
             qs == Append(ps, g)
         IN /\ Good(n, qs)
            /\ Longer(m, ps, n, qs)
            /\ Len(n) = Len(m) + 1
            /\ qs[Len(m) + 1] = g
            /\ n[Len(m) + 1].word = w
            /\ \A f \in 1 .. Len(m) : n[f] = m[f]
            /\ SameLookups(m, ps, n)
<1> DEFINE x == [Clear EXCEPT !.word = w]
<1>1. x \in Frames /\ x.word = w /\ \A i \in Indices : x.table[i] = Invalid
  BY ClearIs
<1> HIDE DEF x
<1>2. \A i \in Indices : Points(x.table[i], Append(ps, g), Len(m) + 1, i)
  BY <1>1 DEF Points
<1>3. LET n == Append(m, x)
          qs == Append(ps, g)
      IN /\ Good(n, qs)
         /\ Longer(m, ps, n, qs)
         /\ Len(n) = Len(m) + 1
         /\ qs[Len(m) + 1] = g
         /\ n[Len(m) + 1] = x
         /\ \A f \in 1 .. Len(m) : n[f] = m[f]
         /\ SameLookups(m, ps, n)
  BY <1>1, <1>2, AddFrame
<1> QED BY <1>1, <1>3 DEF x

-----------------------------------------------------------------------------
(* vmm_map_page(): the tables on the way to a page, then its entry.        *)

LEMMA WithTableGood ==
  ASSUME NEW m, NEW ps, Good(m, ps), NEW t \in 1 .. Len(m), ps[t].level < 2, NEW i \in Indices,
         NEW n, n = WithTable(m, t, i)
  PROVE  \E qs :
           /\ Good(n, qs)
           /\ Longer(m, ps, n, qs)
           /\ Len(n) <= Len(m) + 1
           /\ n[t].table[i].kind = "table"
           /\ m[t].table[i] = Invalid => /\ n[t].table[i].to \in 1 .. Len(n)
                                         /\ qs[n[t].table[i].to] = Below(ps[t], i)
           /\ \A f \in 1 .. Len(m) : \A j \in Indices :
                f # t \/ j # i \/ m[t].table[i] # Invalid => n[f].table[j] = m[f].table[j]
           /\ SameLookups(m, ps, n)
<1>1. /\ m \in Seq(Frames) /\ ps \in Seq(Places) /\ Len(ps) = Len(m) /\ 1 <= Len(m) /\ ps[1] = Root(1)
      /\ Len(m) \in Nat
  BY DEF Good
<1>2. CASE m[t].table[i] # Invalid
  <2>1. n = m
    BY <1>2 DEF WithTable
  <2>2. m[t].table[i].kind = "table"
    <3>1. Points(m[t].table[i], ps, t, i)
      BY GoodFrame
    <3> QED BY <1>2, <3>1 DEF Points, ToTable, ToPage, ToDevice
  <2>3. Longer(m, ps, m, ps) /\ SameLookups(m, ps, m)
    BY <1>1 DEF Longer, SameLookups
  <2> QED BY <1>1, <1>2, <2>1, <2>2, <2>3
<1>3. CASE m[t].table[i] = Invalid
  <2> DEFINE N == Len(m) + 1
             g == Below(ps[t], i)
             qs == Append(ps, g)
  <2>1. Table(N) \in Entries /\ Table(N).to = N /\ Table(N).kind = "table" /\ N \in Nat
    BY <1>1, EntryIs
  <2>6. /\ n \in Seq(Frames) /\ Len(n) = N
        /\ \A f \in 1 .. Len(m) :
             /\ n[f].word = m[f].word
             /\ \A j \in Indices : n[f].table[j] = IF f = t /\ j = i THEN Table(N) ELSE m[f].table[j]
        /\ \A j \in Indices : n[N].table[j] = Invalid
    <3>1. n = PutAndAdd(m, t, i, Table(N))
      BY <1>3 DEF WithTable, Put, PutAndAdd
    <3>2. m \in Seq(Frames) /\ Table(N) \in Entries
      BY <1>1, <2>1
    <3> QED BY ONLY <3>1, <3>2, t \in 1 .. Len(m), i \in Indices, SetEntryAndAdd
  <2>7. ps[t] \in Places /\ ps[t].level \in 0 .. 1
    <3>1. ps[t] \in Places
      BY GoodFrame
    <3> QED BY <3>1 DEF Places
  <2>8. g \in Places /\ g.level # 0 /\ g.level = ps[t].level + 1
    BY <2>7, BelowIs
  <2> HIDE DEF g
  <2>9. /\ qs \in Seq(Places) /\ Len(qs) = N /\ qs[N] = g
        /\ \A f \in 1 .. Len(m) : qs[f] = ps[f]
    BY <1>1, <2>8
  <2> HIDE DEF qs
  <2>10. t \in 1 .. N /\ N # t /\ (\A f \in 1 .. Len(m) : f \in 1 .. N /\ f # N)
         /\ \A f \in 1 .. N : f # N => f \in 1 .. Len(m)
    BY <1>1, <2>1
  <2>11. ASSUME NEW f \in 1 .. N, NEW j \in Indices
         PROVE  Points(n[f].table[j], qs, f, j)
    <3>1. CASE f = N
      BY <3>1, <2>6 DEF Points
    <3>2. CASE f = t /\ j = i
      <4>1. n[f].table[j] = Table(N) /\ qs[f] = ps[t]
        BY <3>2, <2>6, <2>9
      <4>2. ToTable(Table(N), qs, f, j)
        BY <3>2, <4>1, <2>1, <2>9, <2>10 DEF ToTable, g
      <4> QED BY <4>1, <4>2 DEF Points
    <3>3. CASE f # N /\ ~ (f = t /\ j = i)
      <4>1. f \in 1 .. Len(m)
        BY <3>3, <2>10
      <4>2. n[f].table[j] = m[f].table[j]
        BY <3>3, <4>1, <2>6
      <4>3. Points(m[f].table[j], ps, f, j)
        BY <4>1, GoodFrame
      <4>4. /\ f \in 1 .. Len(ps) /\ Len(ps) \in Nat /\ Len(qs) \in Nat
            /\ 1 <= Len(ps) /\ Len(ps) <= Len(qs)
            /\ \A h \in 1 .. Len(ps) : qs[h] = ps[h]
        BY <4>1, <1>1, <2>1, <2>9
      <4>5. Points(m[f].table[j], qs, f, j)
        BY ONLY <4>3, <4>4, PointsOn
      <4> QED BY <4>2, <4>5
    <3> QED BY <3>1, <3>2, <3>3
  <2>12. ASSUME NEW f \in 1 .. N
         PROVE  qs[f].level = 0 => qs[f] = Root(f)
    <3>1. CASE f = N
      BY <3>1, <2>8, <2>9
    <3>2. CASE f # N
      BY <3>2, <2>9, <2>10 DEF Good
    <3> QED BY <3>1, <3>2
  <2>13. Good(n, qs)
    <3>1. qs[1] = Root(1)
      BY <1>1, <2>9
    <3> QED BY <1>1, <2>1, <2>6, <2>9, <2>11, <2>12, <3>1 DEF Good
  <2>14. ASSUME NEW r \in 1 .. Len(m), ps[r].level = 0, NEW va \in VAs
         PROVE  Lookup(n, r, va) = Lookup(m, r, va)
    <3>1. va[1] \in Indices /\ va[2] \in Indices /\ va[3] \in Indices
      BY ONLY va \in VAs, AddressIs
    <3>2. PICK t1 : m[r].table[va[1]].to = t1
      OBVIOUS
    <3>3. m[r].table[va[1]] # Invalid => t1 \in 1 .. Len(m) /\ ps[t1].level = 1
      BY ONLY Good(m, ps), r \in 1 .. Len(m), <2>14, <3>1, <3>2, FromRoot
    <3>4. Table(N) # Invalid /\ Table(N).to = N
      BY ONLY EntryIs
    <3>5. CASE r = t /\ va[1] = i
      <4>1. n[r].table[va[1]] = Table(N) /\ n[N].table[va[2]] = Invalid
        BY ONLY <3>1, <3>5, <2>6, t \in 1 .. Len(m)
      <4>2. Lookup(n, r, va) = Invalid
        BY ONLY <3>4, <4>1, Zenon DEF Lookup
      <4> QED BY ONLY <1>3, <3>5, <4>2, Zenon DEF Lookup
    <3>6. CASE ~ (r = t /\ va[1] = i) /\ m[r].table[va[1]] # Invalid /\ t1 = t /\ va[2] = i
      <4>1. Lookup(m, r, va) = Invalid
        BY ONLY <1>3, <3>2, <3>6, Zenon DEF Lookup
      <4>2. n[r].table[va[1]] = m[r].table[va[1]]
        BY ONLY <3>1, <3>6, <2>6, r \in 1 .. Len(m)
      <4>3. n[t1].table[va[2]] = Table(N) /\ n[N].table[va[3]] = Invalid
        BY ONLY <3>1, <3>6, <2>6, t \in 1 .. Len(m)
      <4>4. Lookup(n, r, va) = Invalid
        BY ONLY <3>2, <3>4, <3>6, <4>2, <4>3, Zenon DEF Lookup
      <4> QED BY ONLY <4>1, <4>4
    <3>7. CASE /\ ~ (r = t /\ va[1] = i)
               /\ ~ (m[r].table[va[1]] # Invalid /\ t1 = t /\ va[2] = i)
      <4>1. n[r].table[va[1]] = m[r].table[va[1]]
        BY ONLY <3>1, <3>7, <2>6, r \in 1 .. Len(m)
      <4>2. CASE m[r].table[va[1]] = Invalid
        BY ONLY <4>1, <4>2, Zenon DEF Lookup
      <4>3. CASE m[r].table[va[1]] # Invalid
        <5>1. n[t1].table[va[2]] = m[t1].table[va[2]]
          BY ONLY <3>1, <3>3, <3>7, <4>3, <2>6
        <5>2. PICK t2 : m[t1].table[va[2]].to = t2
          OBVIOUS
        <5>3. CASE m[t1].table[va[2]] = Invalid
          BY ONLY <3>2, <4>1, <4>3, <5>1, <5>3, Zenon DEF Lookup
        <5>4. CASE m[t1].table[va[2]] # Invalid
          <6>1. t2 \in 1 .. Len(m) /\ ps[t2].level = 2
            BY ONLY Good(m, ps), <3>1, <3>3, <4>3, <5>2, <5>4, FromUpper
          <6>2. t2 # t
            BY ONLY <6>1, ps[t].level < 2
          <6>3. n[t2].table[va[3]] = m[t2].table[va[3]]
            BY ONLY <3>1, <6>1, <6>2, <2>6
          <6> QED BY ONLY <3>2, <4>1, <4>3, <5>1, <5>2, <5>4, <6>3, Zenon DEF Lookup
        <5> QED BY ONLY <5>3, <5>4
      <4> QED BY ONLY <4>2, <4>3
    <3> QED BY ONLY <3>5, <3>6, <3>7
  <2>15. Longer(m, ps, n, qs) /\ SameLookups(m, ps, n)
    BY <1>1, <2>1, <2>6, <2>9, <2>14 DEF Longer, SameLookups
  <2>16. n[t].table[i] = Table(N) /\ N \in 1 .. Len(n)
    BY <1>1, <2>6
  <2>17. /\ n[t].table[i].kind = "table"
         /\ n[t].table[i].to \in 1 .. Len(n) /\ qs[n[t].table[i].to] = Below(ps[t], i)
    BY <2>1, <2>9, <2>16 DEF g
  <2>18. \A f \in 1 .. Len(m) : \A j \in Indices :
           f # t \/ j # i \/ m[t].table[i] # Invalid => n[f].table[j] = m[f].table[j]
    BY <1>3, <2>6
  <2>19. Len(n) <= Len(m) + 1
    BY <1>1, <2>6
  <2> QED BY <2>13, <2>15, <2>17, <2>18, <2>19
<1> QED BY <1>2, <1>3

(* Where the tables below root r lead for va: to a table of the lowest     *)
(* level at the place that va names, in the tree of r for a program's va.  *)
LEMMA Walk ==
  ASSUME NEW m, NEW ps, Good(m, ps), NEW r \in 1 .. Len(m), ps[r].level = 0, NEW va \in VAs
  PROVE  \/ Lookup(m, r, va) = Invalid
         \/ \E t \in 1 .. Len(m), u \in 1 .. Len(m) :
              /\ m[r].table[va[1]] # Invalid /\ m[r].table[va[1]].to = t
              /\ m[t].table[va[2]] # Invalid /\ m[t].table[va[2]].to = u
              /\ Lookup(m, r, va) = m[u].table[va[3]]
              /\ ps[t].level = 1
              /\ ps[u].level = 2 /\ ps[u].first = va[1] /\ ps[u].second = va[2]
              /\ va[1] = USER => ps[u].root = r
<1>1. va[1] \in Indices /\ va[2] \in Indices /\ va[3] \in Indices
  BY AddressIs
<1>2. CASE m[r].table[va[1]] = Invalid
  BY <1>2 DEF Lookup
<1>3. CASE m[r].table[va[1]] # Invalid
  <2>1. PICK t \in 1 .. Len(m) : m[r].table[va[1]].to = t
    BY <1>1, <1>3, FromRoot
  <2>2. ps[t].level = 1 /\ ps[t].first = va[1] /\ (va[1] = USER => ps[t].root = r)
    BY ONLY Good(m, ps), r \in 1 .. Len(m), ps[r].level = 0, <1>1, <1>3, <2>1, FromRoot
  <2>3. CASE m[t].table[va[2]] = Invalid
    BY ONLY <1>3, <2>1, <2>3, Zenon DEF Lookup
  <2>4. CASE m[t].table[va[2]] # Invalid
    <3>1. PICK u \in 1 .. Len(m) : m[t].table[va[2]].to = u
      BY ONLY Good(m, ps), t \in 1 .. Len(m), <1>1, <2>2, <2>4, FromUpper
    <3>2. /\ ps[u].level = 2 /\ ps[u].first = ps[t].first /\ ps[u].second = va[2]
          /\ ps[u].root = ps[t].root
      BY ONLY Good(m, ps), t \in 1 .. Len(m), <1>1, <2>2, <2>4, <3>1, FromUpper
    <3>3. Lookup(m, r, va) = m[u].table[va[3]]
      BY ONLY <1>3, <2>1, <2>4, <3>1, Zenon DEF Lookup
    <3> QED BY <1>3, <2>1, <2>2, <2>4, <3>1, <3>2, <3>3
  <2> QED BY <2>3, <2>4
<1> QED BY <1>2, <1>3

(* A new entry in a table of the lowest level is found through that table  *)
(* and at that index, and nowhere else.                                    *)
LeafSet(m, ps, t, i, e, n) ==
  /\ Good(n, ps)
  /\ Len(n) = Len(m)
  /\ Longer(m, ps, n, ps)
  /\ \A f \in 1 .. Len(m) : \A j \in Indices : f # t => n[f].table[j] = m[f].table[j]
  /\ \A r \in 1 .. Len(m) : \A va \in VAs :
       ps[r].level = 0 =>
       \/ Lookup(n, r, va) = Lookup(m, r, va)
       \/ /\ va[1] = ps[t].first /\ va[2] = ps[t].second /\ va[3] = i
          /\ va[1] = USER => r = ps[t].root
  /\ \A r \in 1 .. Len(m) : \A va \in VAs :
       \/ Lookup(n, r, va) = e
       \/ ps[r].level # 0
       \/ m[r].table[va[1]] = Invalid
       \/ m[m[r].table[va[1]].to].table[va[2]] = Invalid
       \/ m[m[r].table[va[1]].to].table[va[2]].to # t
       \/ va[3] # i

LEMMA SetLeaf ==
  ASSUME NEW m, NEW ps, Good(m, ps), NEW t \in 1 .. Len(m), ps[t].level = 2, NEW i \in Indices,
         NEW e \in Entries, Points(e, ps, t, i)
  PROVE  LeafSet(m, ps, t, i, e, Put(m, t, i, e))
<1> DEFINE n == Put(m, t, i, e)
<1>1. /\ m \in Seq(Frames) /\ ps \in Seq(Places) /\ Len(ps) = Len(m) /\ 1 <= Len(m) /\ ps[1] = Root(1)
      /\ Len(m) \in Nat
  BY DEF Good
<1>2. /\ n \in Seq(Frames)
      /\ Len(n) = Len(m)
      /\ \A f \in 1 .. Len(m) :
           /\ n[f].word = m[f].word
           /\ \A j \in Indices : n[f].table[j] = IF f = t /\ j = i THEN e ELSE m[f].table[j]
  <2>1. m \in Seq(Frames)
    BY <1>1
  <2> QED BY ONLY <2>1, t \in 1 .. Len(m), i \in Indices, e \in Entries, SetEntry
<1> HIDE DEF n
<1>3. ASSUME NEW f \in 1 .. Len(m), NEW j \in Indices
      PROVE  Points(n[f].table[j], ps, f, j)
  <2>1. Points(m[f].table[j], ps, f, j)
    BY GoodFrame
  <2>2. n[f].table[j] = IF f = t /\ j = i THEN e ELSE m[f].table[j]
    BY <1>2
  <2> QED BY ONLY <2>1, <2>2, Points(e, ps, t, i)
<1>4. Good(n, ps)
  BY <1>1, <1>2, <1>3 DEF Good
<1>5. Longer(m, ps, n, ps)
  BY <1>1, <1>2 DEF Longer
<1>6. ASSUME NEW r \in 1 .. Len(m), NEW va \in VAs, ps[r].level = 0,
             \/ va[1] # ps[t].first \/ va[2] # ps[t].second \/ va[3] # i
             \/ va[1] = USER /\ r # ps[t].root
      PROVE  Lookup(n, r, va) = Lookup(m, r, va)
  <2>1. va[1] \in Indices /\ va[2] \in Indices /\ va[3] \in Indices
    BY AddressIs
  <2>2. r # t /\ n[r].table[va[1]] = m[r].table[va[1]]
    BY ONLY <1>2, <1>6, <2>1, ps[t].level = 2, r \in 1 .. Len(m)
  <2>3. ASSUME NEW t1 \in 1 .. Len(m), ps[t1].level = 1
        PROVE  n[t1].table[va[2]] = m[t1].table[va[2]]
    BY ONLY <1>2, <2>1, <2>3, ps[t].level = 2, t1 \in 1 .. Len(m)
  <2>4. ASSUME NEW t2 \in 1 .. Len(m), ps[t2].level = 2,
               ps[t2].first = va[1], ps[t2].second = va[2], va[1] = USER => ps[t2].root = r
        PROVE  n[t2].table[va[3]] = m[t2].table[va[3]]
    <3>1. t2 # t \/ va[3] # i
      BY ONLY <1>6, <2>4
    <3> QED BY ONLY <1>2, <2>1, <3>1, t2 \in 1 .. Len(m)
  <2> QED BY ONLY Good(m, ps), r \in 1 .. Len(m), <1>6, va \in VAs, <2>2, <2>3, <2>4, LookupKept
<1>7. ASSUME NEW r \in 1 .. Len(m), NEW va \in VAs, ps[r].level = 0,
             m[r].table[va[1]] # Invalid,
             m[m[r].table[va[1]].to].table[va[2]] # Invalid,
             m[m[r].table[va[1]].to].table[va[2]].to = t,
             va[3] = i
      PROVE  Lookup(n, r, va) = e
  <2>1. va[1] \in Indices /\ va[2] \in Indices /\ va[3] \in Indices
    BY AddressIs
  <2>2. m[r].table[va[1]] # Invalid
    BY ONLY <1>7
  <2>3. PICK t1 : m[r].table[va[1]].to = t1
    OBVIOUS
  <2>4. t1 \in 1 .. Len(m) /\ ps[t1].level = 1
    BY ONLY Good(m, ps), r \in 1 .. Len(m), ps[r].level = 0, <2>1, <2>2, <2>3, FromRoot
  <2>5. m[t1].table[va[2]] # Invalid /\ m[t1].table[va[2]].to = t
    BY ONLY <1>7, <2>3
  <2>6. r # t /\ t1 # t
    BY ONLY <2>4, ps[r].level = 0, ps[t].level = 2
  <2>7. n[r].table[va[1]] = m[r].table[va[1]]
    BY ONLY <1>2, <2>1, <2>6, r \in 1 .. Len(m)
  <2>8. n[t1].table[va[2]] = m[t1].table[va[2]]
    BY ONLY <1>2, <2>1, <2>4, <2>6
  <2>9. n[t].table[va[3]] = e
    BY ONLY <1>2, va[3] = i, t \in 1 .. Len(m), i \in Indices
  <2>10. /\ n[r].table[va[1]] # Invalid /\ n[r].table[va[1]].to = t1
         /\ n[t1].table[va[2]] # Invalid /\ n[t1].table[va[2]].to = t
    BY ONLY <2>2, <2>3, <2>5, <2>7, <2>8
  <2>11. Lookup(n, r, va) = n[t].table[va[3]]
    BY ONLY <2>10, ZenonT(40) DEF Lookup
  <2> QED BY ONLY <2>9, <2>11
<1>8. \A r \in 1 .. Len(m) : \A va \in VAs :
        ps[r].level = 0 =>
        \/ Lookup(n, r, va) = Lookup(m, r, va)
        \/ /\ va[1] = ps[t].first /\ va[2] = ps[t].second /\ va[3] = i
           /\ va[1] = USER => r = ps[t].root
  BY <1>6, Zenon
<1>9. \A r \in 1 .. Len(m) : \A va \in VAs :
        \/ Lookup(n, r, va) = e
        \/ ps[r].level # 0
        \/ m[r].table[va[1]] = Invalid
        \/ m[m[r].table[va[1]].to].table[va[2]] = Invalid
        \/ m[m[r].table[va[1]].to].table[va[2]].to # t
        \/ va[3] # i
  BY <1>7
<1>10. \A f \in 1 .. Len(m) : \A j \in Indices : f # t => n[f].table[j] = m[f].table[j]
  BY <1>2
<1> QED BY ONLY <1>2, <1>4, <1>5, <1>8, <1>9, <1>10, Zenon DEF n, LeafSet

(* The tree that a page mapped at va below root becomes part of, and its   *)
(* place in it.                                                            *)
Owner(m, ps, root, i) ==
  IF m[root].table[i] = Invalid THEN root ELSE ps[m[root].table[i].to].root

Spot(o, va) == Below(Below(Below(Root(o), va[1]), va[2]), va[3])

(* An entry fit to be mapped at va below root.                             *)
FitsAt(m, ps, root, va, entry) ==
  \/ va[1] = LOW /\ entry = KernelPage(DEVICE)
  \/ /\ entry.to \in 1 .. Len(m)
     /\ ps[entry.to] = Spot(Owner(m, ps, root, va[1]), va)
     /\ \/ entry.kind = "user" /\ va[1] \in {LOW, USER}
        \/ entry.kind = "kernel" /\ va[1] = KERN

(* What mapping it changes: what is found at va, but not what other trees  *)
(* have there if va is a program's.                                        *)
Mapped(m, ps, root, va, entry, n, qs) ==
  /\ Good(n, qs)
  /\ Longer(m, ps, n, qs)
  /\ Len(n) <= Len(m) + 2
  /\ Lookup(n, root, va) = entry
  /\ n[root].table[va[1]].kind = "table"
  /\ \A r \in 1 .. Len(m) : \A j \in Indices :
       \/ n[r].table[j] = m[r].table[j]
       \/ ps[r].level # 0
       \/ r = root /\ j = va[1] /\ m[root].table[j] = Invalid
  /\ \A r \in 1 .. Len(m) : \A x \in VAs :
       \/ Lookup(n, r, x) = Lookup(m, r, x)
       \/ ps[r].level # 0
       \/ x = va /\ (va[1] = USER => r = root)

LEMMA SpotIs ==
  ASSUME NEW o \in Nat, NEW va \in VAs
  PROVE  /\ Below(Root(o), va[1]) \in Places
         /\ Below(Root(o), va[1]).level = 1
         /\ Below(Root(o), va[1]).root = o
         /\ Below(Root(o), va[1]).first = va[1]
         /\ Below(Below(Root(o), va[1]), va[2]) \in Places
         /\ Below(Below(Root(o), va[1]), va[2]).level = 2
         /\ Below(Below(Root(o), va[1]), va[2]).root = o
         /\ Below(Below(Root(o), va[1]), va[2]).first = va[1]
         /\ Below(Below(Root(o), va[1]), va[2]).second = va[2]
         /\ Spot(o, va) \in Places
         /\ Spot(o, va).level = 3
<1>1. va[1] \in Indices /\ va[2] \in Indices /\ va[3] \in Indices
  BY AddressIs
<1> DEFINE a == Root(o)
           b == Below(a, va[1])
           c == Below(b, va[2])
           d == Below(c, va[3])
<1>2. a \in Places /\ a.level = 0 /\ a.root = o
  BY RootIs
<1> HIDE DEF a
<1>3. b \in Places /\ b.level = 1 /\ b.root = o /\ b.first = va[1]
  BY <1>1, <1>2, BelowIs
<1> HIDE DEF b
<1>4. c \in Places /\ c.level = 2 /\ c.root = o /\ c.first = va[1] /\ c.second = va[2]
  BY <1>1, <1>3, BelowIs
<1> HIDE DEF c
<1>5. d \in Places /\ d.level = 3
  BY <1>1, <1>4, BelowIs
<1> QED BY <1>3, <1>4, <1>5 DEF a, b, c, Spot

LEMMA MapPageGood ==
  ASSUME NEW m, NEW ps, Good(m, ps), NEW root \in 1 .. Len(m), ps[root].level = 0,
         NEW va \in VAs, NEW entry \in Entries, FitsAt(m, ps, root, va, entry)
  PROVE  \E qs : Mapped(m, ps, root, va, entry, MapPage(m, root, va, entry), qs)
<1>1. va[1] \in Indices /\ va[2] \in Indices /\ va[3] \in Indices
  BY AddressIs
<1>2. /\ ps[root] = Root(root) /\ Len(m) \in Nat /\ ps \in Seq(Places) /\ Len(ps) = Len(m)
      /\ root \in Nat
  BY DEF Good
<1> DEFINE o == Owner(m, ps, root, va[1])
           m1 == WithTable(m, root, va[1])
<1>3. PICK qs1 :
        /\ Good(m1, qs1)
        /\ Longer(m, ps, m1, qs1)
        /\ Len(m1) <= Len(m) + 1
        /\ m1[root].table[va[1]].kind = "table"
        /\ m[root].table[va[1]] = Invalid => /\ m1[root].table[va[1]].to \in 1 .. Len(m1)
                                             /\ qs1[m1[root].table[va[1]].to] = Below(ps[root], va[1])
        /\ \A f \in 1 .. Len(m) : \A j \in Indices :
             f # root \/ j # va[1] \/ m[root].table[va[1]] # Invalid => m1[f].table[j] = m[f].table[j]
        /\ SameLookups(m, ps, m1)
  <2>1. Good(m, ps) /\ root \in 1 .. Len(m) /\ ps[root].level < 2 /\ va[1] \in Indices
    BY <1>1
  <2> QED BY ONLY <2>1, WithTableGood
<1> HIDE DEF m1
<1>4. PICK t1 : t1 = m1[root].table[va[1]].to
  OBVIOUS
<1>5. Len(m1) \in Nat /\ \A f \in 1 .. Len(m) : f \in 1 .. Len(m1) /\ qs1[f] = ps[f]
  BY <1>2, <1>3 DEF Good, Longer
<1>6. t1 \in 1 .. Len(m1) /\ qs1[t1] = Below(Root(o), va[1]) /\ o \in Nat
  <2>1. CASE m[root].table[va[1]] = Invalid
    BY <1>2, <1>3, <1>4, <2>1 DEF Owner
  <2>2. CASE m[root].table[va[1]] # Invalid
    <3>1. m1[root].table[va[1]] = m[root].table[va[1]]
      BY <1>1, <1>3, <2>2
    <3>2. t1 \in 1 .. Len(m) /\ ps[t1] = Below(Root(ps[t1].root), va[1])
      BY <1>1, <1>4, <2>2, <3>1, FromRoot
    <3>3. o = ps[t1].root
      BY <1>4, <2>2, <3>1 DEF Owner
    <3>4. ps[t1] \in Places
      BY <1>2, <3>2
    <3>5. o \in Nat
      BY <3>3, <3>4 DEF Places
    <3> HIDE DEF o
    <3> QED BY <1>5, <3>2, <3>3, <3>5
  <2> QED BY <2>1, <2>2
<1> HIDE DEF o
<1>7. qs1[t1].level = 1 /\ qs1[t1] \in Places
  BY <1>6, SpotIs
<1> DEFINE m2 == WithTable(m1, t1, va[2])
<1>8. PICK qs2 :
        /\ Good(m2, qs2)
        /\ Longer(m1, qs1, m2, qs2)
        /\ Len(m2) <= Len(m1) + 1
        /\ m2[t1].table[va[2]].kind = "table"
        /\ m1[t1].table[va[2]] = Invalid => /\ m2[t1].table[va[2]].to \in 1 .. Len(m2)
                                            /\ qs2[m2[t1].table[va[2]].to] = Below(qs1[t1], va[2])
        /\ \A f \in 1 .. Len(m1) : \A j \in Indices :
             f # t1 \/ j # va[2] \/ m1[t1].table[va[2]] # Invalid => m2[f].table[j] = m1[f].table[j]
        /\ SameLookups(m1, qs1, m2)
  <2>1. /\ Good(m1, qs1) /\ t1 \in 1 .. Len(m1) /\ qs1[t1].level < 2 /\ va[2] \in Indices
    BY <1>1, <1>3, <1>6, <1>7
  <2> QED BY ONLY <2>1, WithTableGood
<1> HIDE DEF m2
<1>9. PICK t2 : t2 = m2[t1].table[va[2]].to
  OBVIOUS
<1>10. Len(m2) \in Nat /\ \A f \in 1 .. Len(m1) : f \in 1 .. Len(m2) /\ qs2[f] = qs1[f]
  BY <1>5, <1>8 DEF Good, Longer
<1>11. t2 \in 1 .. Len(m2) /\ qs2[t2] = Below(Below(Root(o), va[1]), va[2])
  <2>1. CASE m1[t1].table[va[2]] = Invalid
    BY <1>6, <1>8, <1>9, <2>1
  <2>2. CASE m1[t1].table[va[2]] # Invalid
    <3>1. m2[t1].table[va[2]] = m1[t1].table[va[2]]
      BY <1>1, <1>6, <1>8, <2>2
    <3>2. t2 \in 1 .. Len(m1) /\ qs1[t2] = Below(qs1[t1], va[2])
      BY <1>1, <1>3, <1>6, <1>7, <1>9, <2>2, <3>1, FromUpper
    <3> QED BY <1>6, <1>10, <3>2
  <2> QED BY <2>1, <2>2
<1>12. qs2[t2].level = 2 /\ qs2[t2].root = o /\ qs2[t2].first = va[1] /\ qs2[t2].second = va[2]
  BY <1>6, <1>11, SpotIs
<1>13. \A f \in 1 .. Len(m) : f \in 1 .. Len(m2) /\ qs2[f] = ps[f] /\ m2[f].word = m[f].word
  BY <1>3, <1>5, <1>8, <1>10 DEF Longer
<1>14. Points(entry, qs2, t2, va[3])
  <2>1. CASE va[1] = LOW /\ entry = KernelPage(DEVICE)
    BY <2>1, <1>12 DEF Points, ToDevice
  <2>2. CASE ~ (va[1] = LOW /\ entry = KernelPage(DEVICE))
    <3>1. /\ entry.to \in 1 .. Len(m)
          /\ ps[entry.to] = Spot(o, va)
          /\ \/ entry.kind = "user" /\ va[1] \in {LOW, USER}
             \/ entry.kind = "kernel" /\ va[1] = KERN
      BY <2>2 DEF FitsAt, o
    <3>2. qs2[entry.to] = Below(qs2[t2], va[3])
      BY ONLY <3>1, <1>11, <1>13 DEF Spot
    <3>3. entry.to \in 1 .. Len(qs2)
      BY ONLY <3>1, <1>8, <1>13 DEF Good
    <3> QED BY ONLY <3>1, <3>2, <3>3, <1>12 DEF Points, ToPage
  <2> QED BY <2>1, <2>2
<1> DEFINE n == Put(m2, t2, va[3], entry)
<1>15. /\ Good(n, qs2)
       /\ Len(n) = Len(m2)
       /\ Longer(m2, qs2, n, qs2)
       /\ \A f \in 1 .. Len(m2) : \A j \in Indices : f # t2 => n[f].table[j] = m2[f].table[j]
       /\ \A r \in 1 .. Len(m2) : \A x \in VAs :
            qs2[r].level = 0 =>
            \/ Lookup(n, r, x) = Lookup(m2, r, x)
            \/ /\ x[1] = qs2[t2].first /\ x[2] = qs2[t2].second /\ x[3] = va[3]
               /\ x[1] = USER => r = qs2[t2].root
       /\ \A r \in 1 .. Len(m2) : \A x \in VAs :
            \/ Lookup(n, r, x) = entry
            \/ qs2[r].level # 0
            \/ m2[r].table[x[1]] = Invalid
            \/ m2[m2[r].table[x[1]].to].table[x[2]] = Invalid
            \/ m2[m2[r].table[x[1]].to].table[x[2]].to # t2
            \/ x[3] # va[3]
  <2>1. /\ Good(m2, qs2) /\ t2 \in 1 .. Len(m2) /\ qs2[t2].level = 2 /\ va[3] \in Indices
        /\ entry \in Entries /\ Points(entry, qs2, t2, va[3])
    BY <1>1, <1>8, <1>11, <1>12, <1>14
  <2>2. LeafSet(m2, qs2, t2, va[3], entry, n)
    BY ONLY <2>1, SetLeaf, SMTT(30)
  <2> HIDE DEF n
  <2> QED BY ONLY <2>2, Zenon DEF LeafSet
<1>16. MapPage(m, root, va, entry) = n
  BY <1>4, <1>9 DEF MapPage, m1, m2, Put
<1> HIDE DEF n
<1>17. root \in 1 .. Len(m2) /\ root \in 1 .. Len(m1) /\ root # t1 /\ root # t2 /\ qs2[root].level = 0
  BY ONLY <1>5, <1>7, <1>12, <1>13, root \in 1 .. Len(m), ps[root].level = 0
<1>18. /\ m2[root].table[va[1]] = m1[root].table[va[1]]
       /\ n[root].table[va[1]] = m1[root].table[va[1]]
  <2>1. m2[root].table[va[1]] = m1[root].table[va[1]]
    BY ONLY <1>1, <1>8, <1>17, SMTT(30)
  <2>2. n[root].table[va[1]] = m2[root].table[va[1]]
    BY ONLY <1>1, <1>15, <1>17
  <2> QED BY ONLY <2>1, <2>2
<1>19. Lookup(n, root, va) = entry
  <2>1. m2[root].table[va[1]] # Invalid /\ m2[root].table[va[1]].to = t1
    BY <1>3, <1>4, <1>18, EntryIs
  <2>2. m2[t1].table[va[2]] # Invalid /\ m2[t1].table[va[2]].to = t2
    BY ONLY <1>8, <1>9, EntryIs
  <2> QED BY ONLY <2>1, <2>2, <1>15, <1>17, va \in VAs, Zenon
<1>20. ASSUME NEW r \in 1 .. Len(m), NEW j \in Indices, ps[r].level = 0,
              ~ (r = root /\ j = va[1] /\ m[root].table[j] = Invalid)
       PROVE  n[r].table[j] = m[r].table[j]
  <2>1. r \in 1 .. Len(m1) /\ r \in 1 .. Len(m2) /\ qs1[r].level = 0 /\ qs2[r].level = 0
    BY ONLY <1>5, <1>13, <1>20, r \in 1 .. Len(m)
  <2>2. r # t1 /\ r # t2
    BY ONLY <1>7, <1>12, <2>1
  <2>3. m1[r].table[j] = m[r].table[j]
    <3>1. r # root \/ j # va[1] \/ m[root].table[va[1]] # Invalid
      BY ONLY <1>20
    <3> QED BY ONLY <1>3, <3>1, r \in 1 .. Len(m), j \in Indices
  <2>4. m2[r].table[j] = m1[r].table[j]
    BY ONLY <1>8, <2>1, <2>2, j \in Indices, SMTT(30)
  <2>5. n[r].table[j] = m2[r].table[j]
    BY ONLY <1>15, <2>1, <2>2, j \in Indices
  <2> QED BY ONLY <2>3, <2>4, <2>5
<1>21. ASSUME NEW r \in 1 .. Len(m), NEW x \in VAs, ps[r].level = 0,
              ~ (x = va /\ (va[1] = USER => r = root))
       PROVE  Lookup(n, r, x) = Lookup(m, r, x)
  <2>1. Lookup(m1, r, x) = Lookup(m, r, x)
    BY ONLY <1>3, <1>21, r \in 1 .. Len(m), x \in VAs, Zenon DEF SameLookups
  <2>2. r \in 1 .. Len(m1) /\ qs1[r].level = 0
    BY ONLY <1>5, <1>21, r \in 1 .. Len(m)
  <2>3. Lookup(m2, r, x) = Lookup(m1, r, x)
    BY ONLY <1>8, <2>2, x \in VAs, Zenon DEF SameLookups
  <2>4. r \in 1 .. Len(m2) /\ qs2[r].level = 0
    BY ONLY <1>13, <1>21, r \in 1 .. Len(m)
  <2>5. \/ x[1] # qs2[t2].first \/ x[2] # qs2[t2].second \/ x[3] # va[3]
        \/ x[1] = USER /\ r # qs2[t2].root
    <3>1. CASE x = va
      <4>1. va[1] = USER /\ r # root
        BY ONLY <1>21, <3>1
      <4>2. o = root
        <5>1. CASE m[root].table[va[1]] = Invalid
          BY ONLY <5>1 DEF o, Owner
        <5>2. CASE m[root].table[va[1]] # Invalid
          <6>1. ps[m[root].table[va[1]].to].root = root
            BY ONLY Good(m, ps), root \in 1 .. Len(m), ps[root].level = 0, <1>1, <4>1, <5>2, FromRoot
          <6> QED BY ONLY <5>2, <6>1 DEF o, Owner
        <5> QED BY ONLY <5>1, <5>2
      <4> QED BY ONLY <1>12, <3>1, <4>1, <4>2
    <3>2. CASE x # va
      <4>1. x = <<x[1], x[2], x[3]>> /\ va = <<va[1], va[2], va[3]>>
        BY ONLY x \in VAs, va \in VAs, AddressIs
      <4>2. x[1] # va[1] \/ x[2] # va[2] \/ x[3] # va[3]
        BY ONLY <3>2, <4>1, Zenon
      <4> QED BY ONLY <1>12, <4>2
    <3> QED BY ONLY <3>1, <3>2
  <2>6. Lookup(n, r, x) = Lookup(m2, r, x)
    BY ONLY <1>15, <2>4, <2>5, x \in VAs, Zenon
  <2> QED BY ONLY <2>1, <2>3, <2>6
<1>22. Longer(m, ps, n, qs2) /\ Len(n) <= Len(m) + 2
  <2>1. /\ Len(m) <= Len(m1) /\ Len(m1) <= Len(m) + 1
        /\ Len(m1) <= Len(m2) /\ Len(m2) <= Len(m1) + 1
        /\ Len(n) = Len(m2)
        /\ Len(m) \in Nat /\ Len(m1) \in Nat /\ Len(m2) \in Nat
    BY ONLY <1>2, <1>3, <1>5, <1>8, <1>10, <1>15, Zenon DEF Longer
  <2>2. Len(m) <= Len(n) /\ Len(n) <= Len(m) + 2
    BY ONLY <2>1
  <2>3. ASSUME NEW f \in 1 .. Len(m)
        PROVE  qs2[f] = ps[f] /\ n[f].word = m[f].word
    <3>1. f \in 1 .. Len(m2) /\ qs2[f] = ps[f] /\ m2[f].word = m[f].word
      BY ONLY <1>13, f \in 1 .. Len(m)
    <3>2. n[f].word = m2[f].word
      <4>1. \A h \in 1 .. Len(m2) : n[h].word = m2[h].word
        BY ONLY <1>15, ZenonT(40) DEF Longer
      <4> QED BY ONLY <3>1, <4>1
    <3> QED BY ONLY <3>1, <3>2
  <2> QED BY ONLY <2>2, <2>3 DEF Longer
<1>23. n[root].table[va[1]].kind = "table"
  <2>1. m1[root].table[va[1]].kind = "table"
    BY ONLY <1>3, Zenon
  <2> QED BY ONLY <1>18, <2>1
<1>24. Mapped(m, ps, root, va, entry, n, qs2)
  BY <1>15, <1>19, <1>20, <1>21, <1>22, <1>23 DEF Mapped
<1> QED BY <1>16, <1>24

-----------------------------------------------------------------------------
(* What is found at an address. *)

LEMMA LookupIs ==
  ASSUME NEW m, NEW ps, Good(m, ps), NEW r \in 1 .. Len(m), ps[r].level = 0, NEW va \in VAs,
         Lookup(m, r, va) # Invalid
  PROVE  LET e == Lookup(m, r, va)
         IN \/ va[1] = LOW /\ e = KernelPage(DEVICE)
            \/ /\ e.to \in 1 .. Len(m)
               /\ ps[e.to].level = 3
               /\ ps[e.to].first = va[1] /\ ps[e.to].second = va[2] /\ ps[e.to].third = va[3]
               /\ va[1] = USER => ps[e.to].root = r
               /\ \/ e.kind = "user" /\ va[1] \in {LOW, USER}
                  \/ e.kind = "kernel" /\ va[1] = KERN
<1>1. PICK t \in 1 .. Len(m), u \in 1 .. Len(m) :
        /\ Lookup(m, r, va) = m[u].table[va[3]]
        /\ ps[u].level = 2 /\ ps[u].first = va[1] /\ ps[u].second = va[2]
        /\ va[1] = USER => ps[u].root = r
  BY Walk
<1>2. va[3] \in Indices
  BY AddressIs
<1>3. m[u].table[va[3]] # Invalid
  BY ONLY <1>1, Lookup(m, r, va) # Invalid
<1>4. PICK e : e = Lookup(m, r, va) /\ e = m[u].table[va[3]]
  BY ONLY <1>1
<1>5. \/ ps[u].first = LOW /\ e = KernelPage(DEVICE)
      \/ /\ e.to \in 1 .. Len(m)
         /\ ps[e.to].level = 3
         /\ ps[e.to].first = ps[u].first /\ ps[e.to].second = ps[u].second
         /\ ps[e.to].third = va[3] /\ ps[e.to].root = ps[u].root
         /\ \/ e.kind = "user" /\ ps[u].first \in {LOW, USER}
            \/ e.kind = "kernel" /\ ps[u].first = KERN
  BY ONLY Good(m, ps), u \in 1 .. Len(m), <1>1, <1>2, <1>3, <1>4, FromLower
<1>6. \/ va[1] = LOW /\ e = KernelPage(DEVICE)
      \/ /\ e.to \in 1 .. Len(m)
         /\ ps[e.to].level = 3
         /\ ps[e.to].first = va[1] /\ ps[e.to].second = va[2] /\ ps[e.to].third = va[3]
         /\ va[1] = USER => ps[e.to].root = r
         /\ \/ e.kind = "user" /\ va[1] \in {LOW, USER}
            \/ e.kind = "kernel" /\ va[1] = KERN
  <2>1. /\ ps[u].first = va[1] /\ ps[u].second = va[2]
        /\ va[1] = USER => ps[u].root = r
    BY ONLY <1>1
  <2> QED BY ONLY <1>5, <2>1
<1> QED BY ONLY <1>4, <1>6

(* What programs see at the addresses that are theirs, in n for the roots  *)
(* R: w at the places P that were mapped, and elsewhere what they did in m.*)
SeenAfter(m, n, R, P, w) ==
  \A r \in R : \A x \in VAs :
    x[1] = USER => Seen(n, r, x) = IF <<r, x>> \in P THEN w ELSE Seen(m, r, x)

Mappable(root, va, kind) ==
  /\ va \in VAs
  /\ va # DeviceVA
  /\ \/ kind = "user" /\ va[1] \in {LOW, USER} /\ root # 1
     \/ kind = "kernel" /\ va[1] = KERN /\ root = 1

(* A page is found as before if its entry and its word are as before.      *)
LEMMA SeenSame ==
  ASSUME NEW m, NEW ps, Good(m, ps), NEW r \in 1 .. Len(m), ps[r].level = 0,
         NEW x \in VAs, x[1] = USER, NEW n,
         Lookup(n, r, x) = Lookup(m, r, x),
         \A f \in 1 .. Len(m) : n[f].word = m[f].word
  PROVE  Seen(n, r, x) = Seen(m, r, x)
<1>1. Lookup(m, r, x) # Invalid => Lookup(m, r, x).to \in 1 .. Len(m)
  BY LookupIs, IndexIs
<1> QED BY <1>1 DEF Seen

(* A new page, mapped: the first half, for any place that fits. *)
NewlyMapped(m, ps, root, va, w, kind, n, qs) ==
  /\ Good(n, qs)
  /\ Longer(m, ps, n, qs)
  /\ Len(n) <= Len(m) + 3
  /\ Lookup(n, root, va) = [to |-> Len(m) + 1, kind |-> kind]
  /\ n[Len(m) + 1].word = w
  /\ n[root].table[va[1]].kind = "table"
  /\ \A r \in 1 .. Len(m) : \A j \in Indices :
       \/ n[r].table[j] = m[r].table[j]
       \/ ps[r].level # 0
       \/ r = root /\ j = va[1] /\ m[root].table[j] = Invalid
  /\ \A r \in 1 .. Len(m) : \A x \in VAs :
       \/ Lookup(n, r, x) = Lookup(m, r, x)
       \/ ps[r].level # 0
       \/ x = va /\ (va[1] = USER => r = root)

LEMMA MapNewGood ==
  ASSUME NEW m, NEW ps, Good(m, ps), NEW root \in 1 .. Len(m), ps[root].level = 0,
         NEW va \in VAs, NEW w \in Words \cup {0, ImageWord}, NEW kind,
         \/ kind = "user" /\ va[1] \in {LOW, USER}
         \/ kind = "kernel" /\ va[1] = KERN
  PROVE  \E qs : NewlyMapped(m, ps, root, va, w, kind, MapNew(m, root, va, w, kind), qs)
<1> DEFINE N == Len(m) + 1
           o == Owner(m, ps, root, va[1])
           g == Spot(o, va)
           m0 == Append(m, [Clear EXCEPT !.word = w])
           ps0 == Append(ps, g)
           entry == [to |-> N, kind |-> kind]
           n == MapNew(m, root, va, w, kind)
<1>1. /\ Len(m) \in Nat /\ ps \in Seq(Places) /\ Len(ps) = Len(m) /\ root \in Nat
  BY DEF Good
<1>2. va[1] \in Indices
  BY AddressIs
<1>3. m[root].table[va[1]] # Invalid =>
        /\ m[root].table[va[1]].to \in 1 .. Len(m)
        /\ o = ps[m[root].table[va[1]].to].root
  BY <1>2, FromRoot DEF Owner
<1>4. o \in Nat
  <2>1. CASE m[root].table[va[1]] = Invalid
    BY <1>1, <2>1 DEF Owner
  <2>2. CASE m[root].table[va[1]] # Invalid
    <3>1. ps[m[root].table[va[1]].to] \in Places
      BY <1>1, <1>3, <2>2
    <3> QED BY <1>3, <2>2, <3>1 DEF Places
  <2> QED BY <2>1, <2>2
<1>5. g \in Places /\ g.level # 0
  BY <1>4, SpotIs
<1> HIDE DEF g
<1>6. /\ Good(m0, ps0)
      /\ Longer(m, ps, m0, ps0)
      /\ Len(m0) = N
      /\ ps0[N] = g
      /\ m0[N].word = w
      /\ \A f \in 1 .. Len(m) : m0[f] = m[f]
      /\ SameLookups(m, ps, m0)
  BY <1>5, AddPage, ZenonT(60)
<1>7. n = MapPage(m0, root, va, entry)
  BY DEF MapNew
<1> HIDE DEF m0, ps0, n
<1>8. root \in 1 .. Len(m0) /\ ps0[root].level = 0 /\ N \in 1 .. Len(m0)
      /\ \A f \in 1 .. Len(m) : f \in 1 .. Len(m0) /\ ps0[f] = ps[f]
  BY <1>1, <1>6 DEF Longer
<1>9. Owner(m0, ps0, root, va[1]) = o
  BY <1>3, <1>6, <1>8 DEF Owner
<1> HIDE DEF o
<1>10. entry \in Entries /\ entry.to = N /\ entry.kind = kind
  BY <1>1 DEF Entries
<1> HIDE DEF entry
<1>11. FitsAt(m0, ps0, root, va, entry)
  BY <1>6, <1>8, <1>9, <1>10 DEF FitsAt, g
<1>12. PICK qs : Mapped(m0, ps0, root, va, entry, n, qs)
  BY <1>6, <1>7, <1>8, <1>10, <1>11, MapPageGood
<1>13. Longer(m, ps, n, qs) /\ Len(n) <= Len(m) + 3
  <2>1. Len(m0) = Len(m) + 1 /\ Len(m0) <= Len(n) /\ Len(n) <= Len(m0) + 2 /\ Len(n) \in Nat
    BY <1>6, <1>12 DEF Mapped, Longer, Good
  <2>2. \A f \in 1 .. Len(m) : qs[f] = ps[f] /\ n[f].word = m[f].word
    BY <1>6, <1>8, <1>12 DEF Mapped, Longer
  <2> QED BY <1>1, <2>1, <2>2 DEF Longer
<1>14. n[Len(m) + 1].word = w
  BY <1>6, <1>8, <1>12 DEF Mapped, Longer
<1>15. ASSUME NEW r \in 1 .. Len(m), NEW j \in Indices
       PROVE  \/ n[r].table[j] = m[r].table[j]
              \/ ps[r].level # 0
              \/ r = root /\ j = va[1] /\ m[root].table[j] = Invalid
  BY <1>6, <1>8, <1>12 DEF Mapped
<1>16. ASSUME NEW r \in 1 .. Len(m), NEW x \in VAs
       PROVE  \/ Lookup(n, r, x) = Lookup(m, r, x)
              \/ ps[r].level # 0
              \/ x = va /\ (va[1] = USER => r = root)
  BY <1>6, <1>8, <1>12 DEF Mapped, SameLookups
<1>17. Good(n, qs) /\ Lookup(n, root, va) = entry /\ n[root].table[va[1]].kind = "table"
  BY <1>12 DEF Mapped
<1>18. NewlyMapped(m, ps, root, va, w, kind, n, qs)
  BY <1>13, <1>14, <1>15, <1>16, <1>17 DEF entry, NewlyMapped
<1> QED BY <1>18 DEF n

(* The second half: the trees below R stay what they are.                  *)
LEMMA MapNewSound ==
  ASSUME NEW m, NEW R, Sound(m, R), NEW root \in R, NEW va, NEW w \in Words \cup {0, ImageWord},
         NEW kind, Mappable(root, va, kind)
  PROVE  /\ Sound(MapNew(m, root, va, w, kind), R)
         /\ SeenAfter(m, MapNew(m, root, va, w, kind), R, {<<root, va>>}, w)
<1> DEFINE n == MapNew(m, root, va, w, kind)
           entry == [to |-> Len(m) + 1, kind |-> kind]
<1>1. PICK ps : /\ Good(m, ps)
                /\ \A r \in R : r \in 1 .. Len(m) /\ ps[r].level = 0
                /\ Kern(m, R)
  BY DEF Sound
<1>2. /\ va \in VAs /\ va # DeviceVA
      /\ \/ kind = "user" /\ va[1] \in {LOW, USER} /\ root # 1
         \/ kind = "kernel" /\ va[1] = KERN /\ root = 1
  BY DEF Mappable
<1>3. PICK qs :
        /\ Good(n, qs)
        /\ Longer(m, ps, n, qs)
        /\ Len(n) <= Len(m) + 3
        /\ Lookup(n, root, va) = entry
        /\ n[Len(m) + 1].word = w
        /\ n[root].table[va[1]].kind = "table"
        /\ \A r \in 1 .. Len(m) : \A j \in Indices :
             \/ n[r].table[j] = m[r].table[j]
             \/ ps[r].level # 0
             \/ r = root /\ j = va[1] /\ m[root].table[j] = Invalid
        /\ \A r \in 1 .. Len(m) : \A x \in VAs :
             \/ Lookup(n, r, x) = Lookup(m, r, x)
             \/ ps[r].level # 0
             \/ x = va /\ (va[1] = USER => r = root)
  <2>1. /\ Good(m, ps) /\ root \in 1 .. Len(m) /\ ps[root].level = 0
        /\ va \in VAs
        /\ \/ kind = "user" /\ va[1] \in {LOW, USER}
           \/ kind = "kernel" /\ va[1] = KERN
    BY <1>1, <1>2
  <2>2. \E qs : NewlyMapped(m, ps, root, va, w, kind, n, qs)
    BY ONLY <2>1, w \in Words \cup {0, ImageWord}, MapNewGood
  <2> HIDE DEF n
  <2> QED BY <2>2 DEF NewlyMapped
<1> HIDE DEF n
<1>4. entry.to = Len(m) + 1 /\ entry # Invalid
  BY <1>2 DEF Invalid
<1> HIDE DEF entry
<1>5. 1 \in R /\ 1 \in 1 .. Len(m)
  BY <1>1 DEF Sound
<1>6. ASSUME NEW r \in R
      PROVE  /\ r \in 1 .. Len(n) /\ qs[r].level = 0
             /\ n[r].table[LOW] = m[r].table[LOW]
             /\ \A i \in Indices \ {LOW, USER} : n[r].table[i] = m[r].table[i]
             /\ Lookup(n, r, DeviceVA) = Lookup(m, r, DeviceVA)
  <2>1. r \in 1 .. Len(m) /\ ps[r].level = 0 /\ Len(m) \in Nat /\ Len(n) \in Nat
    BY <1>1, <1>3 DEF Good
  <2>2. r \in 1 .. Len(n) /\ qs[r].level = 0
    BY <1>3, <2>1 DEF Longer
  <2>3. n[r].table[LOW] = m[r].table[LOW]
    BY <1>1, <1>3, <2>1, IndexIs, EntryIs DEF Kern
  <2>4. ASSUME NEW i \in Indices \ {LOW, USER}
        PROVE  n[r].table[i] = m[r].table[i]
    BY <1>1, <1>2, <1>3, <2>1, <2>4, IndexIs, EntryIs DEF Kern
  <2>5. Lookup(n, r, DeviceVA) = Lookup(m, r, DeviceVA)
    BY <1>2, <1>3, <2>1, KernelAssumption
  <2> QED BY <2>2, <2>3, <2>4, <2>5
<1>7. n[1].table[USER] = Invalid
  <2>1. ps[1].level = 0
    BY <1>1, <1>5
  <2> QED BY <1>1, <1>2, <1>3, <1>5, <2>1, IndexIs DEF Kern
<1>8. Kern(n, R)
  BY <1>1, <1>5, <1>6, <1>7, IndexIs DEF Kern
<1>9. Sound(n, R)
  BY <1>3, <1>5, <1>6, <1>8 DEF Sound
<1>10. ASSUME NEW r \in R, NEW x \in VAs, x[1] = USER
       PROVE  Seen(n, r, x) = IF <<r, x>> \in {<<root, va>>} THEN w ELSE Seen(m, r, x)
  <2>1. r \in 1 .. Len(m) /\ ps[r].level = 0
    BY <1>1
  <2>2. CASE r = root /\ x = va
    BY <1>3, <1>4, <2>2 DEF Seen
  <2>3. CASE ~ (r = root /\ x = va)
    <3>1. Lookup(n, r, x) = Lookup(m, r, x)
      BY <1>3, <1>10, <2>1, <2>3
    <3>2. Seen(n, r, x) = Seen(m, r, x)
      BY <1>1, <1>3, <1>10, <2>1, <3>1, SeenSame DEF Longer
    <3> QED BY <2>3, <3>2
  <2> QED BY <2>2, <2>3
<1> QED BY <1>9, <1>10 DEF n, SeenAfter

-----------------------------------------------------------------------------
(* Many pages, one after the other: by induction over how many. *)

LEMMA LessWellFounded == IsWellFoundedOn({xy \in Nat \X Nat : xy[1] < xy[2]}, Nat)
BY NatLessThanWellFounded DEF OpToRel

LEMMA Least ==
  ASSUME NEW S \in SUBSET Nat, S # {}
  PROVE  \E k \in S : \A m \in S : k <= m
<1> DEFINE Less == {xy \in Nat \X Nat : xy[1] < xy[2]}
<1>1. PICK k \in S : \A m \in S : <<m, k>> \notin Less
  <2>1. IsWellFoundedOn(Less, Nat) /\ S \subseteq Nat
    BY LessWellFounded
  <2> HIDE DEF Less
  <2> QED BY <2>1, WFMin
<1>2. \A m \in S : ~ (m < k)
  BY <1>1
<1>3. \A m \in S : m \in Int /\ k \in Int
  OBVIOUS
<1> QED BY <1>2, <1>3

IsMapping(m, root, vas, w, kind, n, f) ==
  f = [k \in 0 .. n |-> IF k = 0 THEN m ELSE MapNew(f[k - 1], root, vas[k], w, kind)]

LEMMA MappingExists ==
  ASSUME NEW m, NEW root, NEW vas, NEW w, NEW kind, NEW n \in Nat
  PROVE  \E f : IsMapping(m, root, vas, w, kind, n, f)
<1> DEFINE Bad == {k \in Nat : ~ \E f : IsMapping(m, root, vas, w, kind, k, f)}
<1> SUFFICES ASSUME Bad # {} PROVE FALSE
  OBVIOUS
<1>1. PICK k \in Bad : \A l \in Bad : k <= l
  <2>1. Bad \in SUBSET Nat
    OBVIOUS
  <2> HIDE DEF Bad
  <2> QED BY <2>1, Least
<1>2. CASE k = 0
  <2>1. IsMapping(m, root, vas, w, kind, 0, [l \in 0 .. 0 |-> m])
    BY DEF IsMapping
  <2> QED BY <1>1, <1>2, <2>1
<1>3. CASE k # 0
  <2>1. k - 1 \in Nat /\ k - 1 \notin Bad
    BY <1>1, <1>3
  <2>2. PICK f : IsMapping(m, root, vas, w, kind, k - 1, f)
    BY <2>1
  <2> DEFINE g == [l \in 0 .. k |-> IF l = k THEN MapNew(f[k - 1], root, vas[k], w, kind) ELSE f[l]]
  <2>3. \A l \in 0 .. k - 1 : f[l] = IF l = 0 THEN m ELSE MapNew(f[l - 1], root, vas[l], w, kind)
    BY <2>2 DEF IsMapping
  <2>4. ASSUME NEW l \in 0 .. k
        PROVE  g[l] = IF l = 0 THEN m ELSE MapNew(g[l - 1], root, vas[l], w, kind)
    <3>1. CASE l = k
      <4>1. g[l - 1] = f[k - 1]
        BY <1>1, <1>3, <3>1
      <4> QED BY <1>3, <3>1, <4>1
    <3>2. CASE l = 0
      BY <1>3, <2>3, <3>2, <2>1
    <3>3. CASE l # 0 /\ l # k
      <4>1. l \in 0 .. k - 1 /\ l - 1 \in 0 .. k /\ l - 1 # k
        BY <1>1, <3>3
      <4>2. g[l] = f[l] /\ g[l - 1] = f[l - 1]
        BY <3>3, <4>1
      <4> QED BY <2>3, <3>3, <4>1, <4>2
    <3> QED BY <3>1, <3>2, <3>3
  <2>5. g = [l \in 0 .. k |-> g[l]]
    OBVIOUS
  <2> HIDE DEF g
  <2>6. IsMapping(m, root, vas, w, kind, k, g)
    BY <2>4, <2>5 DEF IsMapping
  <2> QED BY <1>1, <2>6
<1> QED BY <1>2, <1>3

LEMMA MapAllSound ==
  ASSUME NEW m, NEW R, Sound(m, R), NEW root \in R, NEW vas \in Seq(VAs),
         NEW w \in Words \cup {0, ImageWord}, NEW kind,
         \A j \in 1 .. Len(vas) : Mappable(root, vas[j], kind)
  PROVE  LET n == MapAll(m, root, vas, w, kind)
         IN /\ Sound(n, R)
            /\ SeenAfter(m, n, R, {root} \X {vas[j] : j \in 1 .. Len(vas)}, w)
<1> DEFINE f == CHOOSE g : IsMapping(m, root, vas, w, kind, Len(vas), g)
           P(k) == {root} \X {vas[j] : j \in 1 .. k}
           Fine(k) == Sound(f[k], R) /\ SeenAfter(m, f[k], R, P(k), w)
           Bad == {k \in 0 .. Len(vas) : ~ Fine(k)}
<1>1. MapAll(m, root, vas, w, kind) = f[Len(vas)]
  BY DEF MapAll, IsMapping
<1>2. Len(vas) \in Nat
  OBVIOUS
<1>3. \A k \in 0 .. Len(vas) : f[k] = IF k = 0 THEN m ELSE MapNew(f[k - 1], root, vas[k], w, kind)
  <2>1. IsMapping(m, root, vas, w, kind, Len(vas), f)
    BY <1>2, MappingExists
  <2> HIDE DEF f
  <2> QED BY <2>1 DEF IsMapping
<1> HIDE DEF f
<1>4. ASSUME Bad # {} PROVE FALSE
  <2>1. PICK k \in Bad : \A l \in Bad : k <= l
    <3>1. Bad \in SUBSET Nat
      BY <1>2
    <3> HIDE DEF Bad
    <3> QED BY <1>4, <3>1, Least
  <2>2. k \in 0 .. Len(vas) /\ ~ Fine(k)
    OBVIOUS
  <2>3. CASE k = 0
    <3>1. f[k] = m
      BY <1>2, <1>3, <2>3
    <3>2. P(k) = {}
      BY <2>3
    <3> HIDE DEF P
    <3>3. SeenAfter(m, m, R, P(k), w)
      BY <3>2 DEF SeenAfter
    <3> QED BY <2>2, <3>1, <3>3
  <2>4. CASE k # 0
    <3>1. k - 1 \in 0 .. Len(vas) /\ k \in 1 .. Len(vas)
      BY <1>2, <2>2, <2>4
    <3>2. ~ (k <= k - 1)
      BY <1>2, <2>2
    <3>3. Sound(f[k - 1], R) /\ SeenAfter(m, f[k - 1], R, P(k - 1), w)
      BY <2>1, <3>1, <3>2
    <3>4. f[k] = MapNew(f[k - 1], root, vas[k], w, kind)
      BY <1>3, <2>2, <2>4
    <3>5. Mappable(root, vas[k], kind)
      BY <3>1
    <3>6. Sound(f[k], R) /\ SeenAfter(f[k - 1], f[k], R, {<<root, vas[k]>>}, w)
      BY ONLY <3>3, <3>4, <3>5, root \in R, w \in Words \cup {0, ImageWord}, MapNewSound
    <3>7. P(k) = P(k - 1) \cup {<<root, vas[k]>>}
      <4>1. 1 .. k = (1 .. k - 1) \cup {k}
        BY <2>2, <2>4
      <4> QED BY <4>1
    <3> HIDE DEF P
    <3>8. SeenAfter(m, f[k], R, P(k), w)
      BY <3>3, <3>6, <3>7 DEF SeenAfter
    <3> QED BY <2>2, <3>6, <3>8
  <2> QED BY <2>3, <2>4
<1>5. Fine(Len(vas))
  <2>1. Len(vas) \in 0 .. Len(vas)
    BY <1>2
  <2> QED BY <1>4, <2>1
<1> QED BY <1>1, <1>5

-----------------------------------------------------------------------------
(* A root table that shares all of the kernel's. *)

LEMMA WithRootSound ==
  ASSUME NEW m, NEW R, Sound(m, R)
  PROVE  LET n == WithRoot(m)
         IN /\ Sound(n, R \cup {Len(m) + 1})
            /\ Len(m) + 1 \notin R
            /\ SeenAfter(m, n, R, {}, 0)
            /\ \A x \in VAs : x[1] = USER => Seen(n, Len(m) + 1, x) = 0
<1> DEFINE N == Len(m) + 1
           n == Append(m, m[1])
<1>1. PICK ps : /\ Good(m, ps)
                /\ \A r \in R : r \in 1 .. Len(m) /\ ps[r].level = 0
                /\ Kern(m, R)
  BY DEF Sound
<1> DEFINE qs == Append(ps, Root(N))
<1>2. /\ 1 \in R /\ 1 \in 1 .. Len(m) /\ ps[1].level = 0 /\ ps[1] = Root(1) /\ Len(m) \in Nat
      /\ ps \in Seq(Places) /\ Len(ps) = Len(m)
  BY <1>1 DEF Sound, Good
<1>3. m[1] \in Frames /\ Root(N) \in Places /\ Root(N).level = 0
  BY <1>1, <1>2, GoodFrame, RootIs
<1>4. ASSUME NEW i \in Indices
      PROVE  Points(m[1].table[i], qs, N, i)
  <2> DEFINE e == m[1].table[i]
  <2>1. CASE e = Invalid
    BY <2>1 DEF Points
  <2>2. CASE e # Invalid
    <3>1. /\ e.kind = "table" /\ e.to \in 1 .. Len(m)
          /\ ps[e.to] = Below(Root(1), i)
      BY <1>1, <1>2, <2>2, FromRoot
    <3>2. i # USER
      BY <1>1, <2>2 DEF Kern
    <3>3. /\ qs[N] = Root(N) /\ Len(qs) = N /\ e.to \in 1 .. Len(qs)
          /\ qs[e.to] = ps[e.to] /\ qs[1] = Root(1)
      BY <1>2, <1>3, <3>1
    <3> HIDE DEF e, qs
    <3> QED BY <1>3, <3>1, <3>2, <3>3 DEF Points, ToTable, e
  <2> QED BY <2>1, <2>2
<1>5. /\ Good(n, qs)
      /\ Longer(m, ps, n, qs)
      /\ Len(n) = N
      /\ qs[N] = Root(N)
      /\ n[N] = m[1]
      /\ \A f \in 1 .. Len(m) : n[f] = m[f]
      /\ SameLookups(m, ps, n)
  BY <1>1, <1>3, <1>4, AddFrame
<1> HIDE DEF n, qs
<1>6. N \notin R
  BY <1>1, <1>2
<1>7. \A x \in VAs : Lookup(n, N, x) = Lookup(m, 1, x)
  <2>1. n[N] = n[1]
    BY <1>2, <1>5
  <2>2. \A x \in VAs : Lookup(n, N, x) = Lookup(n, 1, x)
    BY <2>1 DEF Lookup
  <2> QED BY <1>2, <1>5, <2>2 DEF SameLookups
<1>8. Kern(n, R \cup {N})
  <2>1. ASSUME NEW r \in R
        PROVE  /\ n[r] = m[r]
               /\ Lookup(n, r, DeviceVA) = Lookup(m, r, DeviceVA)
    BY <1>1, <1>5, KernelAssumption DEF SameLookups
  <2>2. Lookup(n, N, DeviceVA) = Lookup(m, 1, DeviceVA)
    BY <1>7, KernelAssumption
  <2> QED BY <1>1, <1>2, <1>5, <2>1, <2>2 DEF Kern
<1>9. \A r \in R \cup {N} : r \in 1 .. Len(n) /\ qs[r].level = 0
  BY <1>1, <1>2, <1>3, <1>5 DEF Longer
<1>10. Sound(n, R \cup {N})
  BY <1>2, <1>5, <1>8, <1>9 DEF Sound
<1>11. ASSUME NEW r \in R, NEW x \in VAs, x[1] = USER
       PROVE  Seen(n, r, x) = Seen(m, r, x)
  <2>1. r \in 1 .. Len(m) /\ ps[r].level = 0
    BY ONLY <1>1, r \in R
  <2>2. Lookup(n, r, x) = Lookup(m, r, x) /\ \A f \in 1 .. Len(m) : n[f].word = m[f].word
    BY ONLY <1>5, <2>1, x \in VAs, Zenon DEF SameLookups
  <2> QED BY ONLY <1>1, <2>1, <2>2, x \in VAs, <1>11, SeenSame
<1>12. ASSUME NEW x \in VAs, x[1] = USER
       PROVE  Seen(n, N, x) = 0
  <2>1. Lookup(m, 1, x) = Invalid
    BY <1>1, <1>12, Zenon DEF Kern, Lookup
  <2> QED BY <1>7, <2>1 DEF Seen
<1>13. WithRoot(m) = n
  BY DEF WithRoot, kernel_pagetable, n
<1> QED BY <1>6, <1>10, <1>11, <1>12, <1>13 DEF SeenAfter

-----------------------------------------------------------------------------
(* A store through the page table of root. *)

PutWord(m, f, w) == [m EXCEPT ![f].word = w]

LEMMA SetWord ==
  ASSUME NEW m \in Seq(Frames), NEW f \in 1 .. Len(m), NEW w \in Words
  PROVE  /\ PutWord(m, f, w) \in Seq(Frames)
         /\ Len(PutWord(m, f, w)) = Len(m)
         /\ \A h \in 1 .. Len(m) :
              /\ PutWord(m, f, w)[h].table = m[h].table
              /\ PutWord(m, f, w)[h].word = IF h = f THEN w ELSE m[h].word
<1> DEFINE fr == [m[f] EXCEPT !.word = w]
           n == [m EXCEPT ![f] = fr]
<1>1. m[f] \in Frames
  OBVIOUS
<1>2. fr \in Frames /\ fr.table = m[f].table /\ fr.word = w
  BY <1>1 DEF Frames
<1> HIDE DEF fr
<1>3. /\ n \in Seq(Frames) /\ Len(n) = Len(m)
      /\ \A h \in 1 .. Len(m) : n[h] = IF h = f THEN fr ELSE m[h]
  BY <1>2
<1>4. PutWord(m, f, w) = n
  BY DEF PutWord, fr
<1> HIDE DEF n
<1> QED BY <1>2, <1>3, <1>4

LEMMA StoreSound ==
  ASSUME NEW m, NEW R, Sound(m, R), NEW root \in R, NEW va \in VAs,
         Lookup(m, root, va).kind = "user", NEW w \in Words
  PROVE  LET n == PutWord(m, Lookup(m, root, va).to, w)
         IN /\ Sound(n, R)
            /\ Len(n) = Len(m)
            /\ SeenAfter(m, n, R, {<<root, va>>}, w)
<1> DEFINE f == Lookup(m, root, va).to
           n == PutWord(m, f, w)
<1>1. PICK ps : /\ Good(m, ps)
                /\ \A r \in R : r \in 1 .. Len(m) /\ ps[r].level = 0
                /\ Kern(m, R)
  BY DEF Sound
<1>2. Lookup(m, root, va) # Invalid /\ Lookup(m, root, va) # KernelPage(DEVICE)
  BY EntryIs
<1>3. /\ f \in 1 .. Len(m)
      /\ ps[f].first = va[1] /\ ps[f].second = va[2] /\ ps[f].third = va[3]
      /\ va[1] = USER => ps[f].root = root
  BY <1>1, <1>2, LookupIs
<1>4. m \in Seq(Frames)
  BY <1>1 DEF Good
<1> HIDE DEF f
<1>5. /\ n \in Seq(Frames)
      /\ Len(n) = Len(m)
      /\ \A h \in 1 .. Len(m) :
           /\ n[h].table = m[h].table
           /\ n[h].word = IF h = f THEN w ELSE m[h].word
  BY <1>3, <1>4, SetWord
<1> HIDE DEF n
<1>6. Good(n, ps)
  BY <1>1, <1>5 DEF Good
<1>7. ASSUME NEW r \in R, NEW x \in VAs
      PROVE  Lookup(n, r, x) = Lookup(m, r, x)
  <2>1. r \in 1 .. Len(m) /\ ps[r].level = 0 /\ x[1] \in Indices /\ x[2] \in Indices /\ x[3] \in Indices
    BY <1>1, AddressIs
  <2>2. n[r].table = m[r].table
    BY <1>5, <2>1
  <2>3. \A t \in 1 .. Len(m) : n[t].table = m[t].table
    BY ONLY <1>5
  <2> QED BY ONLY <1>1, <2>1, <2>2, <2>3, x \in VAs, LookupKept
<1>8. Sound(n, R)
  <2>1. 1 \in R /\ 1 \in 1 .. Len(m)
    BY <1>1 DEF Sound
  <2>2. \A r \in R : n[r].table = m[r].table
    BY <1>1, <1>5
  <2>3. Kern(n, R)
    BY <1>1, <1>7, <2>1, <2>2, KernelAssumption DEF Kern
  <2> QED BY <1>1, <1>5, <1>6, <2>1, <2>3 DEF Sound
<1>9. ASSUME NEW r \in R, NEW x \in VAs, x[1] = USER
      PROVE  Seen(n, r, x) = IF <<r, x>> \in {<<root, va>>} THEN w ELSE Seen(m, r, x)
  <2>1. r \in 1 .. Len(m) /\ ps[r].level = 0
    BY <1>1
  <2>2. CASE r = root /\ x = va
    BY <1>2, <1>3, <1>5, <1>7, <2>2 DEF Seen, f
  <2>3. CASE ~ (r = root /\ x = va)
    <3>1. CASE Lookup(m, r, x) = Invalid
      BY <1>7, <2>3, <3>1 DEF Seen
    <3>2. CASE Lookup(m, r, x) # Invalid
      <4> DEFINE h == Lookup(m, r, x).to
      <4>1. /\ h \in 1 .. Len(m)
            /\ ps[h].first = x[1] /\ ps[h].second = x[2] /\ ps[h].third = x[3] /\ ps[h].root = r
        BY <1>1, <1>9, <2>1, <3>2, LookupIs, IndexIs
      <4>2. h # f
        <5>1. x = <<x[1], x[2], x[3]>> /\ va = <<va[1], va[2], va[3]>>
          BY AddressIs
        <5> HIDE DEF h
        <5> QED BY <1>3, <1>9, <2>3, <4>1, <5>1
      <4>3. Seen(n, r, x) = n[h].word /\ Seen(m, r, x) = m[h].word
        BY <1>7, <3>2 DEF Seen
      <4> HIDE DEF h
      <4> QED BY <1>5, <2>3, <4>1, <4>2, <4>3
    <3> QED BY <3>1, <3>2
  <2> QED BY <2>2, <2>3
<1> QED BY <1>5, <1>8, <1>9 DEF n, f, SeenAfter

-----------------------------------------------------------------------------
(* clone_user_pagetable(): the copies are numbered one by one. *)

LEMMA Ranks ==
  ASSUME NEW C \in SUBSET Nat, IsFiniteSet(C)
  PROVE  LET rank == [f \in C |-> Cardinality({g \in C : g <= f})]
         IN /\ Cardinality(C) \in Nat
            /\ \A f \in C : rank[f] \in 1 .. Cardinality(C)
            /\ \A f, h \in C : rank[f] = rank[h] => f = h
            /\ \A k \in 1 .. Cardinality(C) : \E f \in C : rank[f] = k
<1> DEFINE upto(f) == {g \in C : g <= f}
           rank == [f \in C |-> Cardinality(upto(f))]
           K == Cardinality(C)
<1>1. K \in Nat
  BY FS_CardinalityType
<1>2. ASSUME NEW f \in C
      PROVE  IsFiniteSet(upto(f)) /\ Cardinality(upto(f)) \in 1 .. K
  <2>1. upto(f) \in SUBSET C /\ f \in upto(f)
    OBVIOUS
  <2> HIDE DEF upto
  <2>2. IsFiniteSet(upto(f)) /\ Cardinality(upto(f)) <= K
    BY <2>1, FS_Subset
  <2>3. Cardinality(upto(f)) \in Nat /\ Cardinality(upto(f)) # 0
    BY <2>1, <2>2, FS_CardinalityType, FS_EmptySet
  <2> QED BY <1>1, <2>2, <2>3
<1>3. ASSUME NEW f \in C, NEW h \in C, f < h
      PROVE  Cardinality(upto(f)) # Cardinality(upto(h))
  <2>1. upto(f) \in SUBSET upto(h) /\ h \in upto(h) /\ h \notin upto(f)
    <3>1. f \in Nat /\ h \in Nat /\ C \subseteq Nat
      OBVIOUS
    <3>2. \A g \in Nat : g <= f => g <= h
      BY <1>3, <3>1
    <3>3. h <= h /\ ~ (h <= f)
      BY <1>3, <3>1
    <3> QED BY <3>1, <3>2, <3>3
  <2>2. IsFiniteSet(upto(h))
    BY <1>2
  <2> HIDE DEF upto
  <2> QED BY <2>1, <2>2, FS_Subset
<1> HIDE DEF upto
<1>4. \A f, h \in C : rank[f] = rank[h] => f = h
  <2> SUFFICES ASSUME NEW f \in C, NEW h \in C, f # h
               PROVE  rank[f] # rank[h]
    OBVIOUS
  <2>1. f < h \/ h < f
    OBVIOUS
  <2>2. rank[f] = Cardinality(upto(f)) /\ rank[h] = Cardinality(upto(h))
    OBVIOUS
  <2> HIDE DEF rank
  <2> QED BY <1>3, <2>1, <2>2
<1>5. \A f \in C : rank[f] \in 1 .. K
  BY <1>2
<1>6. rank \in [C -> 1 .. K]
  BY <1>2
<1> HIDE DEF rank
<1>7. rank \in Injection(C, 1 .. K)
  BY <1>4, <1>6 DEF Injection, IsInjective
<1>8. IsFiniteSet(1 .. K) /\ Cardinality(1 .. K) = K
  <2> HIDE DEF K
  <2>1. IsFiniteSet(1 .. K) /\ Cardinality(1 .. K) = IF 1 > K THEN 0 ELSE K - 1 + 1
    BY <1>1, FS_Interval
  <2> QED BY <1>1, <2>1
<1>9. rank \in Surjection(C, 1 .. K)
  <2> HIDE DEF K
  <2> QED BY <1>7, <1>8, FS_Injection DEF K
<1>10. \A k \in 1 .. K : \E f \in C : rank[f] = k
  BY <1>9 DEF Surjection
<1> QED BY <1>1, <1>4, <1>5, <1>10 DEF rank, upto

(* The frames that are copied: tables and pages below the first two        *)
(* entries of the root; entries of copied frames lead to copied frames, or *)
(* nowhere, or to a device.                                                *)
LEMMA ClonedIs ==
  ASSUME NEW ps, Good(mem, ps), NEW root \in 1 .. Len(mem), ps[root].level = 0
  PROVE  /\ \A f \in Cloned(root) :
              /\ f \in 1 .. Len(mem)
              /\ ps[f].level # 0
              /\ ps[f].first \in {LOW, USER}
         /\ \A i \in {LOW, USER} :
              \/ mem[root].table[i] = Invalid
              \/ mem[root].table[i].to \in Cloned(root)
         /\ \A f \in Cloned(root) : \A i \in Indices :
              \/ mem[f].table[i] = Invalid
              \/ mem[f].table[i].to \in Cloned(root)
              \/ mem[f].table[i] = KernelPage(DEVICE)
<1> DEFINE upper == Targets(root, {LOW, USER}, "table")
           lower == UNION {Targets(t, Indices, "table") : t \in upper}
           pages == UNION {Targets(t, Indices, "user") : t \in ClonedTables(root)}
<1>1. ClonedTables(root) = upper \cup lower /\ Cloned(root) = upper \cup lower \cup pages
  BY DEF Cloned, ClonedTables
<1>2. \A t, I, kind : Targets(t, I, kind) = {mem[t].table[i].to : i \in {j \in I : mem[t].table[j].kind = kind}}
  BY DEF Targets
<1>3. ASSUME NEW f \in upper
      PROVE  f \in 1 .. Len(mem) /\ ps[f].level = 1 /\ ps[f].first \in {LOW, USER}
  <2>1. PICK i \in {LOW, USER} : mem[root].table[i].kind = "table" /\ mem[root].table[i].to = f
    BY <1>2
  <2>2. mem[root].table[i] # Invalid /\ i \in Indices
    BY <2>1, EntryIs, IndexIs
  <2> QED BY <2>1, <2>2, FromRoot
<1>4. ASSUME NEW f \in lower
      PROVE  f \in 1 .. Len(mem) /\ ps[f].level = 2 /\ ps[f].first \in {LOW, USER}
  <2>1. PICK t \in upper, i \in Indices : mem[t].table[i].kind = "table" /\ mem[t].table[i].to = f
    BY <1>2
  <2>2. mem[t].table[i] # Invalid
    BY <2>1, EntryIs
  <2>3. t \in 1 .. Len(mem) /\ ps[t].level = 1 /\ ps[t].first \in {LOW, USER}
    BY <1>3
  <2> HIDE DEF upper
  <2> QED BY <2>1, <2>2, <2>3, FromUpper
<1>5. ASSUME NEW t \in upper, NEW i \in Indices, mem[t].table[i] # Invalid
      PROVE  mem[t].table[i].kind = "table" /\ mem[t].table[i].to \in lower
  <2>1. t \in 1 .. Len(mem) /\ ps[t].level = 1
    BY <1>3
  <2>2. mem[t].table[i].kind = "table"
    BY <1>5, <2>1, FromUpper
  <2>3. mem[t].table[i].to \in Targets(t, Indices, "table")
    BY <1>2, <2>2
  <2> HIDE DEF upper
  <2> QED BY <2>2, <2>3
<1>6. ASSUME NEW f \in pages
      PROVE  f \in 1 .. Len(mem) /\ ps[f].level = 3 /\ ps[f].first \in {LOW, USER}
  <2>1. PICK t \in ClonedTables(root), i \in Indices : mem[t].table[i].kind = "user" /\ mem[t].table[i].to = f
    BY <1>2
  <2>2. mem[t].table[i] # Invalid /\ mem[t].table[i] # KernelPage(DEVICE)
    BY <2>1, EntryIs
  <2>3. t \notin upper
    BY <1>5, <2>1, <2>2
  <2>4. t \in 1 .. Len(mem) /\ ps[t].level = 2 /\ ps[t].first \in {LOW, USER}
    BY <1>1, <1>4, <2>1, <2>3
  <2> QED BY <2>1, <2>2, <2>4, FromLower
<1>7. ASSUME NEW t \in lower, NEW i \in Indices,
             mem[t].table[i] # Invalid, mem[t].table[i] # KernelPage(DEVICE)
      PROVE  mem[t].table[i].to \in pages
  <2>1. t \in 1 .. Len(mem) /\ ps[t].level = 2 /\ ps[t].first \in {LOW, USER} /\ t \in ClonedTables(root)
    BY <1>1, <1>4
  <2>2. mem[t].table[i].kind = "user"
    BY <1>7, <2>1, FromLower, IndexIs
  <2>3. mem[t].table[i].to \in Targets(t, Indices, "user")
    BY <1>2, <2>2
  <2> HIDE DEF lower
  <2> QED BY <2>1, <2>3
<1>8. ASSUME NEW t \in pages, NEW i \in Indices
      PROVE  mem[t].table[i] = Invalid
  <2>1. t \in 1 .. Len(mem) /\ ps[t].level = 3
    BY <1>6
  <2>2. Points(mem[t].table[i], ps, t, i)
    BY <2>1, GoodFrame
  <2> QED BY <2>1, <2>2 DEF Points, ToTable, ToPage, ToDevice
<1>9. ASSUME NEW i \in {LOW, USER}, mem[root].table[i] # Invalid
      PROVE  mem[root].table[i].to \in upper
  <2>1. mem[root].table[i].kind = "table"
    BY <1>9, IndexIs, FromRoot
  <2> QED BY <1>2, <2>1
<1> HIDE DEF upper, lower, pages
<1>10. \A f \in Cloned(root) : f \in 1 .. Len(mem) /\ ps[f].level # 0 /\ ps[f].first \in {LOW, USER}
  BY <1>1, <1>3, <1>4, <1>6
<1>11. \A i \in {LOW, USER} : mem[root].table[i] = Invalid \/ mem[root].table[i].to \in Cloned(root)
  BY <1>1, <1>9
<1>12. ASSUME NEW f \in Cloned(root), NEW i \in Indices
       PROVE  \/ mem[f].table[i] = Invalid
              \/ mem[f].table[i].to \in Cloned(root)
              \/ mem[f].table[i] = KernelPage(DEVICE)
  BY <1>1, <1>5, <1>7, <1>8
<1> QED BY <1>10, <1>11, <1>12

(* The numbers of the copies, and what is in them. *)
CopyOf(root) ==
  [f \in Cloned(root) |-> Len(mem) + 1 + Cardinality({g \in Cloned(root) : g <= f})]

CopiedFrame(root, f) ==
  [table |-> [i \in Indices |-> IF f = root /\ i \notin {LOW, USER}
                                THEN mem[f].table[i]
                                ELSE ClonedEntry(mem[f].table[i], Cloned(root), CopyOf(root))],
   word |-> ClonedWord(f)]

Numbered(n, k) == n = [h \in 1 .. k |-> n[h]]

LEMMA CloneFrames ==
  ASSUME NEW ps, Good(mem, ps), NEW root \in 1 .. Len(mem), ps[root].level = 0
  PROVE  LET N == Len(mem)
             C == Cloned(root)
             K == Cardinality(C)
             copy == CopyOf(root)
             n == Clone(root)
         IN /\ K \in Nat
            /\ Numbered(n, N + K + 1)
            /\ \A f \in 1 .. N : n[f] = mem[f]
            /\ n[N + 1] = CopiedFrame(root, root)
            /\ \A f \in C : copy[f] \in N + 2 .. N + K + 1 /\ n[copy[f]] = CopiedFrame(root, f)
            /\ \A f, h \in C : copy[f] = copy[h] => f = h
            /\ \A h \in N + 2 .. N + K + 1 : \E f \in C : copy[f] = h
<1> DEFINE N == Len(mem)
           C == Cloned(root)
           K == Cardinality(C)
           copy == CopyOf(root)
           n == Clone(root)
           rank == [f \in C |-> Cardinality({g \in C : g <= f})]
           original(k) == IF k = 1 THEN root ELSE CHOOSE f \in C : copy[f] = N + k
           added == [k \in 1 .. K + 1 |-> CopiedFrame(root, original(k))]
<1>1. N \in Nat /\ mem \in Seq(Frames)
  BY DEF Good
<1>2. C \in SUBSET (1 .. N)
  BY ClonedIs
<1>3. C \in SUBSET Nat /\ IsFiniteSet(C)
  <2>1. IsFiniteSet(1 .. N)
    BY <1>1, FS_Interval
  <2>2. \A f \in 1 .. N : f \in Nat
    OBVIOUS
  <2> HIDE DEF C, N
  <2>3. IsFiniteSet(C)
    BY ONLY <1>2, <2>1, FS_Subset
  <2> QED BY ONLY <1>2, <2>2, <2>3
<1>4. /\ K \in Nat
      /\ \A f \in C : rank[f] \in 1 .. K
      /\ \A f, h \in C : rank[f] = rank[h] => f = h
      /\ \A k \in 1 .. K : \E f \in C : rank[f] = k
  <2> HIDE DEF C
  <2> QED BY <1>3, Ranks
<1>5. \A f \in C : copy[f] = N + 1 + rank[f]
  BY DEF CopyOf
<1>6. n = mem \o added
  BY DEF Clone, CopiedFrame, CopyOf
<1> HIDE DEF N, C, K, copy, n, rank
<1>7. /\ \A f \in C : copy[f] \in N + 2 .. N + K + 1
      /\ \A f, h \in C : copy[f] = copy[h] => f = h
      /\ \A h \in N + 2 .. N + K + 1 : \E f \in C : copy[f] = h
  <2>1. \A f \in C : rank[f] \in Nat /\ 1 <= rank[f] /\ rank[f] <= K
    BY <1>4
  <2>2. ASSUME NEW h \in N + 2 .. N + K + 1
        PROVE  \E f \in C : copy[f] = h
    <3>1. h - N - 1 \in 1 .. K
      BY <1>1, <1>4
    <3>2. PICK f \in C : rank[f] = h - N - 1
      BY <1>4, <3>1
    <3>3. copy[f] = N + 1 + (h - N - 1)
      BY <1>5, <3>2
    <3> QED BY <1>1, <3>3
  <2>3. ASSUME NEW f \in C, NEW h \in C, copy[f] = copy[h]
        PROVE  f = h
    <3>1. rank[f] = rank[h]
      BY <1>1, <1>5, <2>1, <2>3
    <3> QED BY <1>4, <3>1
  <2>4. ASSUME NEW f \in C
        PROVE  copy[f] \in N + 2 .. N + K + 1
    <3>1. copy[f] = N + 1 + rank[f] /\ rank[f] \in Nat /\ 1 <= rank[f] /\ rank[f] <= K
      BY <1>5, <2>1
    <3> QED BY <1>1, <1>4, <3>1
  <2> QED BY <2>2, <2>3, <2>4
<1>8. \A f \in C : original(copy[f] - N) = f /\ copy[f] - N \in 1 .. K + 1 /\ copy[f] \notin 1 .. N
  <2> TAKE f \in C
  <2>1. copy[f] \in Nat /\ N + 2 <= copy[f] /\ copy[f] <= N + K + 1
    BY <1>1, <1>4, <1>7
  <2>2. copy[f] - N # 1 /\ N + (copy[f] - N) = copy[f]
    BY <1>1, <2>1
  <2>3. (CHOOSE g \in C : copy[g] = N + (copy[f] - N)) = f
    BY <1>7, <2>2
  <2>4. copy[f] - N \in 1 .. K + 1 /\ copy[f] \notin 1 .. N
    BY <1>1, <1>4, <2>1
  <2> QED BY <2>2, <2>3, <2>4
<1>9. added[1] = CopiedFrame(root, root) /\ \A f \in C : added[copy[f] - N] = CopiedFrame(root, f)
  <2>1. 1 \in 1 .. K + 1 /\ original(1) = root
    BY <1>4
  <2>2. \A k \in 1 .. K + 1 : added[k] = CopiedFrame(root, original(k))
    OBVIOUS
  <2> HIDE DEF original, added
  <2> QED BY ONLY <1>8, <2>1, <2>2
<1>10. /\ n = [h \in 1 .. N + K + 1 |-> n[h]]
       /\ \A h \in 1 .. N + K + 1 : n[h] = IF h \in 1 .. N THEN mem[h] ELSE added[h - N]
  <2>1. Len(added) = K + 1 /\ added = [k \in 1 .. K + 1 |-> added[k]]
    BY <1>4
  <2> HIDE DEF added
  <2>2. added \in Seq(Range(added))
    BY <1>4, <2>1 DEF Range
  <2>3. mem \in Seq(Range(mem) \cup Range(added)) /\ added \in Seq(Range(mem) \cup Range(added))
    BY <1>1, <1>4, <2>1 DEF Range
  <2> QED BY <1>1, <1>4, <1>6, <2>1, <2>3 DEF N
<1> HIDE DEF added, original
<1>11. \A f \in 1 .. N : n[f] = mem[f]
  <2>1. \A f \in 1 .. N : f \in 1 .. N + K + 1
    BY <1>1, <1>4
  <2> QED BY <1>10, <2>1
<1>12. n[N + 1] = CopiedFrame(root, root)
  <2>1. PICK h : h = N + 1
    OBVIOUS
  <2>2. h \in 1 .. N + K + 1 /\ h \notin 1 .. N /\ h - N = 1
    BY <1>1, <1>4, <2>1
  <2>3. n[h] = added[h - N]
    BY ONLY <1>10, <2>2
  <2>4. n[h] = added[1]
    BY ONLY <2>2, <2>3
  <2> QED BY ONLY <1>9, <2>1, <2>4
<1>13. \A f \in C : n[copy[f]] = CopiedFrame(root, f)
  <2> TAKE f \in C
  <2>1. copy[f] \in 1 .. N + K + 1 /\ copy[f] \notin 1 .. N
    BY <1>1, <1>4, <1>7, <1>8
  <2> QED BY <1>9, <1>10, <2>1
<1>14. Numbered(n, N + K + 1)
  BY <1>10 DEF Numbered
<1> QED BY <1>4, <1>7, <1>11, <1>12, <1>13, <1>14 DEF N, C, K, copy, n

LEMMA ClonedEntryIs ==
  ASSUME NEW C \in SUBSET (Nat \ {0}), NEW copy, \A f \in C : copy[f] \in Nat, NEW e \in Entries
  PROVE  /\ ClonedEntry(e, C, copy) = IF e.to \in C THEN [to |-> copy[e.to], kind |-> e.kind] ELSE e
         /\ ClonedEntry(e, C, copy) \in Entries
         /\ ClonedEntry(e, C, copy).kind = e.kind
         /\ e = Invalid => ClonedEntry(e, C, copy) = Invalid
         /\ e = KernelPage(DEVICE) => ClonedEntry(e, C, copy) = KernelPage(DEVICE)
<1>1. e \in [to : Nat \cup {DEVICE}, kind : {"none", "table", "user", "kernel"}]
  BY DEF Entries
<1>2. [e EXCEPT !.to = copy[e.to]] = [to |-> copy[e.to], kind |-> e.kind]
  BY <1>1
<1>3. ClonedEntry(e, C, copy) = IF e.to \in C THEN [to |-> copy[e.to], kind |-> e.kind] ELSE e
  BY <1>2 DEF ClonedEntry
<1>4. e = Invalid => e.to \notin C
  BY EntryIs
<1>5. e = KernelPage(DEVICE) => e.to \notin C
  BY EntryIs DEF DEVICE
<1>6. e.to \in C => [to |-> copy[e.to], kind |-> e.kind] \in Entries
  BY <1>1 DEF Entries
<1> QED BY <1>3, <1>4, <1>5, <1>6

(* A place of a tree, in the tree of another root. *)
Moved(g, r) ==
  [root |-> r, level |-> g.level, first |-> g.first, second |-> g.second, third |-> g.third]

LEMMA MovedIs ==
  ASSUME NEW g \in Places, NEW i \in Indices, NEW r \in Nat
  PROVE  /\ Moved(g, r) \in Places
         /\ Moved(g, r).root = r /\ Moved(g, r).level = g.level /\ Moved(g, r).first = g.first
         /\ Moved(Below(g, i), r) = Below(Moved(g, r), i)
         /\ \A f : Moved(Below(Root(f), i), r) = Below(Root(r), i)
<1>1. g \in [root : Nat, level : 0 .. 3, first : Nat, second : Nat, third : Nat]
  BY DEF Places
<1>2. Moved(g, r) \in [root : Nat, level : 0 .. 3, first : Nat, second : Nat, third : Nat]
  BY <1>1 DEF Moved
<1>3. \A f : Moved(Root(f), r) = Root(r)
  BY DEF Moved, Root
<1>4. ASSUME NEW h
      PROVE  Moved(Below(h, i), r) = Below(Moved(h, r), i)
  BY DEF Moved, Below
<1>5. Moved(g, r).root = r /\ Moved(g, r).level = g.level /\ Moved(g, r).first = g.first
  BY DEF Moved
<1>6. \A f : Moved(Below(Root(f), i), r) = Below(Root(r), i)
  BY <1>3, <1>4
<1> QED BY <1>2, <1>4, <1>5, <1>6 DEF Places

(* The clone's frames are trees again: its own have the places of those    *)
(* they are copies of, in a tree of their own.                             *)
LEMMA CloneGood ==
  ASSUME NEW ps, Good(mem, ps), NEW root \in 1 .. Len(mem), ps[root].level = 0,
         \A i \in Indices \ {LOW, USER} : mem[root].table[i] = mem[1].table[i]
  PROVE  \E qs : /\ Good(Clone(root), qs)
                 /\ Longer(mem, ps, Clone(root), qs)
                 /\ qs[Len(mem) + 1] = Root(Len(mem) + 1)
                 /\ Len(mem) + 1 \in 1 .. Len(Clone(root))
<1> DEFINE N == Len(mem)
           C == Cloned(root)
           K == Cardinality(C)
           copy == CopyOf(root)
           n == Clone(root)
           source(h) == CHOOSE f \in C : copy[f] = h
           place(h) == IF h <= N THEN ps[h] ELSE IF h = N + 1 THEN Root(N + 1)
                       ELSE Moved(ps[source(h)], N + 1)
           qs == [h \in 1 .. N + K + 1 |-> place(h)]
<1>1. /\ N \in Nat /\ 1 <= N /\ mem \in Seq(Frames) /\ ps[1] = Root(1) /\ Len(ps) = N
      /\ \A f \in 1 .. N : mem[f] \in Frames /\ ps[f] \in Places
  BY DEF Good
<1>2. /\ \A f \in C : /\ f \in 1 .. N
                      /\ ps[f].level # 0
                      /\ ps[f].first \in {LOW, USER}
      /\ \A i \in {LOW, USER} : mem[root].table[i] = Invalid \/ mem[root].table[i].to \in C
      /\ \A f \in C : \A i \in Indices :
           \/ mem[f].table[i] = Invalid
           \/ mem[f].table[i].to \in C
           \/ mem[f].table[i] = KernelPage(DEVICE)
  BY ClonedIs
<1>3. /\ K \in Nat
      /\ Numbered(n, N + K + 1)
      /\ \A f \in 1 .. N : n[f] = mem[f]
      /\ n[N + 1] = CopiedFrame(root, root)
      /\ \A f \in C : copy[f] \in N + 2 .. N + K + 1 /\ n[copy[f]] = CopiedFrame(root, f)
      /\ \A f, h \in C : copy[f] = copy[h] => f = h
      /\ \A h \in N + 2 .. N + K + 1 : \E f \in C : copy[f] = h
  BY CloneFrames
<1>4. Root(N + 1) \in Places /\ Root(N + 1).level = 0 /\ N + 1 \in Nat
  BY <1>1, RootIs
<1>5. \A f \in C : source(copy[f]) = f
  <2> HIDE DEF C, copy
  <2> QED BY <1>3
<1>6. \A f \in 1 .. N : \A i \in Indices :
        CopiedFrame(root, f).table[i] =
          IF f = root /\ i \notin {LOW, USER} THEN mem[f].table[i]
          ELSE ClonedEntry(mem[f].table[i], C, copy)
  BY DEF CopiedFrame
<1>7. \A f \in 1 .. N : CopiedFrame(root, f).word = mem[f].word
  BY DEF CopiedFrame, ClonedWord
<1>8. C \in SUBSET (Nat \ {0}) /\ \A f \in C : copy[f] \in Nat
  <2> HIDE DEF C, copy, n, K
  <2> QED BY <1>1, <1>2, <1>3
<1>9. \A f \in 1 .. N : CopiedFrame(root, f) \in Frames
  <2> TAKE f \in 1 .. N
  <2>1. \A i \in Indices : mem[f].table[i] \in Entries
    BY <1>1, FrameIs
  <2>2. \A i \in Indices : ClonedEntry(mem[f].table[i], C, copy) \in Entries
    <3> TAKE i \in Indices
    <3> HIDE DEF C, copy
    <3> QED BY ONLY <1>8, <2>1, ClonedEntryIs
  <2>3. mem[f].word \in Words \cup {0, ImageWord}
    BY <1>1, FrameIs
  <2> HIDE DEF C, copy, n
  <2>4. [i \in Indices |-> IF f = root /\ i \notin {LOW, USER} THEN mem[f].table[i]
                           ELSE ClonedEntry(mem[f].table[i], C, copy)]
          \in [Indices -> Entries]
    BY <2>1, <2>2
  <2> QED BY <2>3, <2>4 DEF CopiedFrame, Frames, C, copy, ClonedWord
<1> HIDE DEF N, C, K, copy, n, source
<1>10. \A h \in 1 .. N + K + 1 :
          h \in 1 .. N \/ h = N + 1 \/ \E f \in C : h = copy[f]
  <2> TAKE h \in 1 .. N + K + 1
  <2>1. h \in 1 .. N \/ h = N + 1 \/ h \in N + 2 .. N + K + 1
    BY <1>1, <1>3
  <2> QED BY <1>3, <2>1
<1>11. /\ \A f \in 1 .. N : f \in 1 .. N + K + 1 /\ qs[f] = ps[f]
       /\ N + 1 \in 1 .. N + K + 1 /\ qs[N + 1] = Root(N + 1)
       /\ \A f \in C : copy[f] \in 1 .. N + K + 1 /\ qs[copy[f]] = Moved(ps[f], N + 1)
  <2>1. ASSUME NEW f \in 1 .. N
        PROVE  f \in 1 .. N + K + 1 /\ f <= N
    BY <1>1, <1>3
  <2>2. N + 1 \in 1 .. N + K + 1 /\ ~ (N + 1 <= N)
    BY <1>1, <1>3
  <2>3. ASSUME NEW f \in C
        PROVE  copy[f] \in 1 .. N + K + 1 /\ ~ (copy[f] <= N) /\ copy[f] # N + 1
    BY <1>1, <1>3
  <2> HIDE DEF qs
  <2>4. \A h \in 1 .. N + K + 1 : qs[h] = place(h)
    BY DEF qs
  <2>5. \A f \in 1 .. N : qs[f] = ps[f]
    BY <2>1, <2>4
  <2>6. qs[N + 1] = Root(N + 1)
    BY <2>2, <2>4
  <2>7. \A f \in C : qs[copy[f]] = Moved(ps[f], N + 1)
    BY <1>5, <2>3, <2>4
  <2> QED BY <2>1, <2>2, <2>3, <2>5, <2>6, <2>7
<1>12. Len(qs) = N + K + 1
  BY <1>1, <1>3
<1> HIDE DEF qs
<1>13. \A h \in 1 .. N + K + 1 : n[h] \in Frames /\ qs[h] \in Places
  <2>1. \A f \in C : Moved(ps[f], N + 1) \in Places
    BY <1>1, <1>2, <1>4, MovedIs, IndexIs
  <2> TAKE h \in 1 .. N + K + 1
  <2>2. CASE h \in 1 .. N
    BY <1>1, <1>3, <1>11, <2>2
  <2>3. CASE h = N + 1
    BY <1>3, <1>4, <1>9, <1>11, <2>3 DEF N
  <2>4. CASE \E f \in C : h = copy[f]
    BY <1>2, <1>3, <1>9, <1>11, <2>1, <2>4
  <2> QED BY <1>10, <2>2, <2>3, <2>4
<1>14. ASSUME NEW f \in 1 .. N, NEW i \in Indices
       PROVE  Points(n[f].table[i], qs, f, i)
  <2>1. Points(mem[f].table[i], ps, f, i)
    BY GoodFrame DEF N
  <2>2. /\ f \in 1 .. Len(ps) /\ Len(ps) \in Nat /\ Len(qs) \in Nat /\ 1 <= Len(ps) /\ Len(ps) <= Len(qs)
        /\ \A h \in 1 .. Len(ps) : qs[h] = ps[h]
    BY <1>1, <1>3, <1>11, <1>12
  <2>3. Points(mem[f].table[i], qs, f, i)
    BY ONLY <2>1, <2>2, PointsOn
  <2> QED BY <1>3, <2>3
<1>15. ASSUME NEW i \in Indices
       PROVE  Points(n[N + 1].table[i], qs, N + 1, i)
  <2> DEFINE e == mem[root].table[i]
  <2>1. n[N + 1].table[i] = IF i \notin {LOW, USER} THEN e ELSE ClonedEntry(e, C, copy)
    BY <1>3, <1>6 DEF N
  <2>2. e \in Entries
    BY GoodFrame
  <2>3. qs[N + 1] = Root(N + 1) /\ Root(N + 1).level = 0 /\ qs[1] = Root(1)
    BY <1>1, <1>4, <1>11
  <2>4. CASE i \notin {LOW, USER}
    <3>1. n[N + 1].table[i] = e /\ e = mem[1].table[i] /\ i # USER
      BY <2>1, <2>4
    <3>2. CASE e # Invalid
      <4>1. 1 \in 1 .. Len(mem) /\ ps[1].level = 0 /\ ps[1] = Root(1) /\ Root(1).root = 1
        BY <1>1, RootIs DEF N
      <4>2. e.kind = "table" /\ e.to \in 1 .. N /\ ps[e.to] = Below(Root(1), i)
        BY <3>1, <3>2, <4>1, FromRoot DEF N
      <4>3. qs[e.to] = ps[e.to] /\ e.to \in 1 .. Len(qs)
        BY <1>11, <1>12, <4>2
      <4> HIDE DEF e
      <4> QED BY <2>3, <3>1, <4>2, <4>3 DEF Points, ToTable
    <3> QED BY <3>1, <3>2 DEF Points
  <2>5. CASE i \in {LOW, USER}
    <3>1. n[N + 1].table[i] = ClonedEntry(e, C, copy)
      BY <2>1, <2>5
    <3>2. CASE e = Invalid
      <4> HIDE DEF e
      <4>1. ClonedEntry(e, C, copy) = Invalid
        BY ONLY <1>8, <2>2, <3>2, ClonedEntryIs
      <4> QED BY <3>1, <4>1 DEF Points
    <3>3. CASE e # Invalid
      <4>1. /\ e.kind = "table" /\ e.to \in C
            /\ ps[e.to] = Below(Root(ps[e.to].root), i)
        BY <1>2, <2>5, <3>3, FromRoot
      <4> HIDE DEF e
      <4>2. ClonedEntry(e, C, copy) = [to |-> copy[e.to], kind |-> "table"]
        BY ONLY <1>8, <2>2, <4>1, ClonedEntryIs
      <4>3. copy[e.to] \in 1 .. Len(qs) /\ qs[copy[e.to]] = Moved(ps[e.to], N + 1)
        BY <1>11, <1>12, <4>1
      <4>4. qs[copy[e.to]] = Below(Root(N + 1), i)
        BY <1>4, <4>1, <4>3, RootIs, MovedIs
      <4> QED BY <2>3, <3>1, <4>2, <4>3, <4>4 DEF Points, ToTable
    <3> QED BY <3>2, <3>3
  <2> QED BY <2>4, <2>5
<1>16. ASSUME NEW f \in C, NEW i \in Indices
       PROVE  Points(n[copy[f]].table[i], qs, copy[f], i)
  <2> DEFINE e == mem[f].table[i]
  <2>1. f \in 1 .. Len(mem) /\ ps[f].level # 0 /\ f # root /\ ps[f] \in Places
    BY <1>1, <1>2 DEF N
  <2>2. n[copy[f]].table[i] = ClonedEntry(e, C, copy) /\ e \in Entries /\ Points(e, ps, f, i)
    BY <1>3, <1>6, <2>1, GoodFrame DEF N
  <2>3. qs[copy[f]] = Moved(ps[f], N + 1) /\ Moved(ps[f], N + 1).level = ps[f].level
        /\ Moved(ps[f], N + 1).first = ps[f].first
        /\ Moved(Below(ps[f], i), N + 1) = Below(Moved(ps[f], N + 1), i)
    BY <1>4, <1>11, <2>1, MovedIs, ZenonT(60)
  <2>4. e = Invalid \/ e.to \in C \/ e = KernelPage(DEVICE)
    BY <1>2
  <2> HIDE DEF e
  <2>5. CASE e = Invalid
    <3>1. ClonedEntry(e, C, copy) = Invalid
      BY ONLY <1>8, <2>2, <2>5, ClonedEntryIs
    <3> QED BY <2>2, <3>1 DEF Points
  <2>6. CASE e = KernelPage(DEVICE)
    <3>1. ClonedEntry(e, C, copy) = e
      BY ONLY <1>8, <2>2, <2>6, ClonedEntryIs
    <3>2. ToDevice(e, ps, f, i)
      BY <1>1, <2>2, <2>6, EntryIs DEF Points, ToTable, ToPage, DEVICE
    <3> QED BY <2>2, <2>3, <3>1, <3>2 DEF Points, ToDevice
  <2>7. CASE e # Invalid /\ e # KernelPage(DEVICE)
    <3>1. e.to \in C /\ ClonedEntry(e, C, copy) = [to |-> copy[e.to], kind |-> e.kind]
      <4>1. e.to \in C
        BY <2>4, <2>7
      <4> QED BY ONLY <1>8, <2>2, <4>1, ClonedEntryIs
    <3>2. copy[e.to] \in 1 .. Len(qs) /\ qs[copy[e.to]] = Moved(ps[e.to], N + 1)
      BY <1>11, <1>12, <3>1
    <3>3. ToTable(e, ps, f, i) \/ ToPage(e, ps, f, i)
      BY <2>2, <2>7 DEF Points, ToDevice
    <3>4. ps[e.to] = Below(ps[f], i)
      BY <2>1, <3>3 DEF ToTable, ToPage
    <3>5. qs[copy[e.to]] = Below(qs[copy[f]], i)
      BY <2>3, <3>2, <3>4
    <3> DEFINE c == [to |-> copy[e.to], kind |-> e.kind]
    <3>6. c.to = copy[e.to] /\ c.kind = e.kind
      OBVIOUS
    <3>7. n[copy[f]].table[i] = c
      BY <2>2, <3>1
    <3> HIDE DEF c
    <3>8. ToTable(c, qs, copy[f], i) \/ ToPage(c, qs, copy[f], i)
      BY <2>3, <3>2, <3>3, <3>5, <3>6 DEF ToTable, ToPage
    <3> QED BY <3>7, <3>8 DEF Points
  <2> QED BY <2>5, <2>6, <2>7
<1>17. ASSUME NEW h \in 1 .. N + K + 1
       PROVE  /\ qs[h].level = 0 => qs[h] = Root(h)
              /\ \A i \in Indices : Points(n[h].table[i], qs, h, i)
  <2>1. CASE h \in 1 .. N
    <3>1. ps[h].level = 0 => ps[h] = Root(h)
      BY <2>1 DEF Good, N
    <3> QED BY <1>11, <1>14, <2>1, <3>1
  <2>2. CASE h = N + 1
    BY <1>11, <1>15, <2>2
  <2>3. ASSUME NEW f \in C, h = copy[f]
        PROVE  /\ qs[h].level = 0 => qs[h] = Root(h)
               /\ \A i \in Indices : Points(n[h].table[i], qs, h, i)
    <3>1. qs[h].level = ps[f].level
      <4>1. qs[h] = Moved(ps[f], N + 1)
        BY ONLY <1>11, <2>3
      <4>2. Moved(ps[f], N + 1).level = ps[f].level
        BY DEF Moved
      <4> QED BY ONLY <4>1, <4>2
    <3>2. \A i \in Indices : Points(n[copy[f]].table[i], qs, copy[f], i)
      BY <1>16
    <3>3. ps[f].level # 0
      BY <1>2
    <3> QED BY ONLY <2>3, <3>1, <3>2, <3>3
  <2> QED BY <1>10, <2>1, <2>2, <2>3
<1>18. n \in Seq(Frames) /\ qs \in Seq(Places) /\ Len(n) = N + K + 1
  <2>4. qs = [h \in 1 .. N + K + 1 |-> qs[h]]
    BY DEF qs
  <2>5. N + K + 1 \in Nat
    BY <1>1, <1>3
  <2>6. n = [h \in 1 .. N + K + 1 |-> n[h]]
    BY <1>3 DEF Numbered
  <2> QED BY <1>13, <2>4, <2>5, <2>6
<1>19. Good(n, qs)
  <2>1. qs[1] = Root(1)
    BY <1>1, <1>11
  <2> QED BY <1>1, <1>3, <1>12, <1>17, <1>18, <2>1 DEF Good
<1>20. Longer(mem, ps, n, qs)
  <2>1. N <= N + K + 1
    BY <1>1, <1>3
  <2>2. \A f \in 1 .. N : qs[f] = ps[f] /\ n[f] = mem[f]
    BY <1>3, <1>11
  <2> QED BY <1>18, <2>1, <2>2 DEF Longer, N
<1> QED BY <1>11, <1>18, <1>19, <1>20 DEF N, n

(* What the page table of a clone finds: the copy of what the original one *)
(* finds, where the programs' part is; elsewhere the same.                 *)
LEMMA CloneLookup ==
  ASSUME NEW ps, Good(mem, ps), NEW root \in 1 .. Len(mem), ps[root].level = 0, NEW x \in VAs,
         x[1] \in {LOW, USER}
  PROVE  LET e == Lookup(mem, root, x)
         IN /\ Lookup(Clone(root), Len(mem) + 1, x) = ClonedEntry(e, Cloned(root), CopyOf(root))
            /\ e = Invalid \/ e = KernelPage(DEVICE) \/ e.to \in Cloned(root)
            /\ e \in Entries
            /\ Cloned(root) \in SUBSET (Nat \ {0})
            /\ \A f \in Cloned(root) : /\ CopyOf(root)[f] \in Nat
                                       /\ f \in 1 .. Len(mem)
                                       /\ Clone(root)[CopyOf(root)[f]].word = mem[f].word
<1> DEFINE N == Len(mem)
           C == Cloned(root)
           K == Cardinality(C)
           copy == CopyOf(root)
           n == Clone(root)
           e1 == mem[root].table[x[1]]
           e2 == mem[e1.to].table[x[2]]
           e3 == mem[e2.to].table[x[3]]
           c(e) == ClonedEntry(e, C, copy)
<1>1. N \in Nat /\ 1 <= N
  BY DEF Good
<1>2. x[1] \in Indices /\ x[2] \in Indices /\ x[3] \in Indices
  BY AddressIs
<1>3. /\ \A f \in C : f \in 1 .. N /\ ps[f].level # 0
      /\ \A i \in {LOW, USER} : mem[root].table[i] = Invalid \/ mem[root].table[i].to \in C
      /\ \A f \in C : \A i \in Indices :
           \/ mem[f].table[i] = Invalid
           \/ mem[f].table[i].to \in C
           \/ mem[f].table[i] = KernelPage(DEVICE)
  BY ClonedIs
<1>4. /\ K \in Nat
      /\ n[N + 1] = CopiedFrame(root, root)
      /\ \A f \in C : copy[f] \in N + 2 .. N + K + 1 /\ n[copy[f]] = CopiedFrame(root, f)
  BY CloneFrames
<1>5. \A f \in 1 .. N : CopiedFrame(root, f).word = mem[f].word
  BY DEF CopiedFrame, ClonedWord
<1>6. \A f \in 1 .. N : \A i \in Indices :
        CopiedFrame(root, f).table[i] =
          IF f = root /\ i \notin {LOW, USER} THEN mem[f].table[i] ELSE c(mem[f].table[i])
  BY DEF CopiedFrame
<1> HIDE DEF C, copy, n, K
<1>7. C \in SUBSET (Nat \ {0}) /\ \A f \in C : copy[f] \in Nat
  BY <1>1, <1>3, <1>4
<1>8. \A f \in C : n[copy[f]].word = mem[f].word
  BY <1>3, <1>4, <1>5
<1>9. ASSUME NEW e \in Entries
      PROVE  /\ c(e) = IF e.to \in C THEN [to |-> copy[e.to], kind |-> e.kind] ELSE e
             /\ c(e).kind = e.kind
             /\ e = Invalid => c(e) = Invalid
  <2> HIDE DEF C, copy
  <2> QED BY ONLY <1>7, <1>9, ClonedEntryIs
<1> HIDE DEF c
<1>10. n[N + 1].table[x[1]] = c(e1) /\ e1 \in Entries
  BY <1>2, <1>4, <1>6, GoodFrame DEF N
<1>11. ASSUME NEW e \in Entries, e.kind = "table", e.to \in C
       PROVE  c(e) # Invalid /\ c(e).to = copy[e.to]
  BY <1>9, <1>11, EntryIs
<1>12. CASE e1 = Invalid
  <2>1. c(e1) = Invalid
    BY <1>9, <1>10, <1>12
  <2>2. Lookup(mem, root, x) = Invalid /\ Lookup(n, N + 1, x) = Invalid
    BY <1>10, <1>12, <2>1 DEF Lookup
  <2> QED BY <1>3, <1>7, <1>8, <1>10, <1>12, <2>1, <2>2 DEF C, copy, n, c, N
<1>13. CASE e1 # Invalid
  <2>1. /\ e1.kind = "table" /\ e1.to \in C
        /\ e1.to \in 1 .. N /\ ps[e1.to].level = 1
    BY <1>2, <1>3, <1>13, FromRoot DEF N
  <2>2. c(e1) # Invalid /\ c(e1).to = copy[e1.to]
    BY <1>10, <1>11, <2>1
  <2>3. e1.to # root
    BY <2>1
  <2> HIDE DEF e1
  <2>4. n[copy[e1.to]].table[x[2]] = c(e2) /\ e2 \in Entries
    BY <1>2, <1>4, <1>6, <2>1, <2>3, GoodFrame DEF N
  <2>5. Lookup(n, N + 1, x) = IF c(e2) = Invalid THEN Invalid ELSE n[c(e2).to].table[x[3]]
    BY <1>10, <2>2, <2>4 DEF Lookup
  <2>6. Lookup(mem, root, x) = IF e2 = Invalid THEN Invalid ELSE e3
    BY <1>13, Zenon DEF Lookup, e1
  <2>7. CASE e2 = Invalid
    <3>1. c(e2) = Invalid
      BY <1>9, <2>4, <2>7
    <3>2. Lookup(mem, root, x) = Invalid /\ Lookup(n, N + 1, x) = Invalid
      BY <2>5, <2>6, <2>7, <3>1
    <3> QED BY <1>3, <1>7, <1>8, <2>4, <2>7, <3>1, <3>2 DEF C, copy, n, c, N
  <2>8. CASE e2 # Invalid
    <3>1. e2.kind = "table" /\ e2.to \in C /\ e2.to \in 1 .. N /\ e2.to # root
      <4>1. e2.kind = "table" /\ e2.to \in 1 .. N /\ ps[e2.to].level = 2
        BY <1>2, <2>1, <2>8, FromUpper DEF N
      <4>2. e2 # KernelPage(DEVICE)
        BY <4>1, EntryIs
      <4> QED BY <1>2, <1>3, <2>1, <2>8, <4>1, <4>2
    <3>2. c(e2) # Invalid /\ c(e2).to = copy[e2.to]
      BY <1>11, <2>4, <3>1
    <3> HIDE DEF e2
    <3>3. n[copy[e2.to]].table[x[3]] = c(e3) /\ e3 \in Entries
      BY <1>2, <1>4, <1>6, <3>1, GoodFrame DEF N
    <3>4. Lookup(n, N + 1, x) = c(e3) /\ Lookup(mem, root, x) = e3
      BY <2>5, <2>6, <2>8, <3>2, <3>3
    <3>5. e3 = Invalid \/ e3 = KernelPage(DEVICE) \/ e3.to \in C
      BY <1>2, <1>3, <3>1
    <3> HIDE DEF e3
    <3> QED BY <1>3, <1>7, <1>8, <3>3, <3>4, <3>5 DEF C, copy, n, c, N
  <2> QED BY <2>7, <2>8
<1> QED BY <1>12, <1>13

LEMMA CloneSound ==
  ASSUME NEW R, Sound(mem, R), NEW root \in R
  PROVE  LET n == Clone(root)
         IN /\ Sound(n, R \cup {Len(mem) + 1})
            /\ Len(mem) + 1 \notin R
            /\ SeenAfter(mem, n, R, {}, 0)
            /\ \A x \in VAs : x[1] = USER => Seen(n, Len(mem) + 1, x) = Seen(mem, root, x)
<1> DEFINE N == Len(mem)
           C == Cloned(root)
           K == Cardinality(C)
           copy == CopyOf(root)
           n == Clone(root)
<1>1. PICK ps : /\ Good(mem, ps)
                /\ \A r \in R : r \in 1 .. Len(mem) /\ ps[r].level = 0
                /\ Kern(mem, R)
  BY DEF Sound
<1>2. root \in 1 .. Len(mem) /\ ps[root].level = 0
  BY <1>1
<1>3. 1 \in R /\ N \in Nat
  BY <1>1 DEF Sound, Good
<1>4. \A i \in Indices \ {LOW, USER} : mem[root].table[i] = mem[1].table[i]
  BY <1>1 DEF Kern
<1>5. PICK qs : /\ Good(n, qs)
                /\ Longer(mem, ps, n, qs)
                /\ qs[Len(mem) + 1] = Root(Len(mem) + 1)
                /\ Len(mem) + 1 \in 1 .. Len(n)
  BY <1>1, <1>2, <1>4, CloneGood
<1>6. /\ K \in Nat
      /\ \A f \in 1 .. N : n[f] = mem[f]
      /\ n[N + 1] = CopiedFrame(root, root)
      /\ \A f \in C : copy[f] \in N + 2 .. N + K + 1
  BY <1>1, <1>2, CloneFrames
<1>7. \A f \in C : f \in 1 .. N
  BY <1>1, <1>2, ClonedIs
<1>8. \A i \in Indices :
        n[N + 1].table[i] = IF i \notin {LOW, USER} THEN mem[root].table[i]
                            ELSE ClonedEntry(mem[root].table[i], C, copy)
  BY <1>6 DEF CopiedFrame
<1>9. ASSUME NEW x \in VAs, x[1] \in {LOW, USER}
      PROVE  LET e == Lookup(mem, root, x)
             IN /\ Lookup(n, N + 1, x) = ClonedEntry(e, C, copy)
                /\ e = Invalid \/ e = KernelPage(DEVICE) \/ e.to \in C
                /\ e \in Entries
                /\ C \in SUBSET (Nat \ {0})
                /\ \A f \in C : /\ copy[f] \in Nat
                                /\ f \in 1 .. N
                                /\ n[copy[f]].word = mem[f].word
  BY <1>1, <1>2, <1>9, CloneLookup
<1>10. DeviceVA \in VAs /\ DeviceVA[1] \in {LOW, USER}
  BY KernelAssumption
<1> HIDE DEF C, copy, n, K
<1>11. SameLookups(mem, ps, n)
  BY <1>1, <1>6, LookupsKept
<1>12. N + 1 \notin R
  BY <1>1, <1>3
<1>13. Lookup(n, N + 1, DeviceVA) = KernelPage(DEVICE)
  <2> DEFINE e == Lookup(mem, root, DeviceVA)
  <2>1. e = KernelPage(DEVICE)
    BY <1>1 DEF Kern
  <2>2. /\ Lookup(n, N + 1, DeviceVA) = ClonedEntry(e, C, copy)
        /\ e \in Entries
        /\ C \in SUBSET (Nat \ {0})
        /\ \A f \in C : copy[f] \in Nat
    BY <1>9, <1>10
  <2> HIDE DEF e
  <2>3. ClonedEntry(e, C, copy) = KernelPage(DEVICE)
    BY ONLY <2>1, <2>2, ClonedEntryIs
  <2> QED BY <2>2, <2>3
<1>14. n[N + 1].table[LOW].kind = "table"
  <2> DEFINE e == mem[root].table[LOW]
  <2>1. e.kind = "table" /\ e \in Entries
    BY <1>1, <1>2, GoodFrame, IndexIs DEF Kern
  <2>2. C \in SUBSET (Nat \ {0}) /\ \A f \in C : copy[f] \in Nat
    BY <1>9, <1>10
  <2>3. n[N + 1].table[LOW] = ClonedEntry(e, C, copy)
    BY <1>8, IndexIs
  <2> HIDE DEF e
  <2>4. ClonedEntry(e, C, copy).kind = e.kind
    BY ONLY <2>1, <2>2, ClonedEntryIs
  <2> QED BY <2>1, <2>3, <2>4
<1>15. Kern(n, R \cup {N + 1})
  <2>1. ASSUME NEW r \in R
        PROVE  n[r] = mem[r] /\ Lookup(n, r, DeviceVA) = Lookup(mem, r, DeviceVA)
    BY <1>1, <1>6, <1>10, <1>11 DEF SameLookups
  <2>2. \A i \in Indices \ {LOW, USER} : n[N + 1].table[i] = mem[1].table[i]
    BY <1>4, <1>8
  <2>3. n[1] = mem[1]
    BY <1>3, <2>1
  <2> QED BY <1>1, <1>13, <1>14, <2>1, <2>2, <2>3 DEF Kern
<1>16. \A r \in R \cup {N + 1} : r \in 1 .. Len(n) /\ qs[r].level = 0
  <2>1. Root(N + 1).level = 0
    BY DEF Root
  <2>2. Len(n) \in Nat /\ \A r \in 1 .. N : r \in 1 .. Len(n)
    BY <1>3, <1>5 DEF Longer, Good
  <2> QED BY <1>1, <1>5, <2>1, <2>2 DEF Longer
<1>17. Sound(n, R \cup {N + 1})
  BY <1>3, <1>5, <1>15, <1>16 DEF Sound
<1>18. ASSUME NEW r \in R, NEW x \in VAs, x[1] = USER
       PROVE  Seen(n, r, x) = Seen(mem, r, x)
  BY <1>1, <1>6, <1>11, <1>18, SeenSame DEF SameLookups
<1>19. ASSUME NEW x \in VAs, x[1] = USER
       PROVE  Seen(n, N + 1, x) = Seen(mem, root, x)
  <2> DEFINE e == Lookup(mem, root, x)
  <2>1. /\ Lookup(n, N + 1, x) = ClonedEntry(e, C, copy)
        /\ e = Invalid \/ e = KernelPage(DEVICE) \/ e.to \in C
        /\ e \in Entries
        /\ C \in SUBSET (Nat \ {0})
        /\ \A f \in C : copy[f] \in Nat /\ n[copy[f]].word = mem[f].word
    BY <1>9, <1>19
  <2>2. e # Invalid => e.kind = "user" /\ e # KernelPage(DEVICE)
    <3>1. e # Invalid => \/ x[1] = LOW
                         \/ e.kind = "user"
                         \/ x[1] = KERN
      BY <1>1, <1>2, LookupIs
    <3> HIDE DEF e
    <3>2. KernelPage(DEVICE).kind = "kernel"
      BY EntryIs
    <3> QED BY <1>19, <3>1, <3>2, IndexIs
  <2>3. Seen(mem, root, x) = IF e = Invalid THEN 0 ELSE mem[e.to].word
    BY DEF Seen
  <2> HIDE DEF e
  <2>4. /\ ClonedEntry(e, C, copy) = IF e.to \in C THEN [to |-> copy[e.to], kind |-> e.kind] ELSE e
        /\ ClonedEntry(e, C, copy).kind = e.kind
        /\ e = Invalid => ClonedEntry(e, C, copy) = Invalid
    BY ONLY <2>1, ClonedEntryIs
  <2>5. CASE e = Invalid
    BY <2>1, <2>3, <2>4, <2>5 DEF Seen
  <2>6. CASE e # Invalid
    <3>1. e.to \in C /\ ClonedEntry(e, C, copy).to = copy[e.to] /\ ClonedEntry(e, C, copy) # Invalid
      BY <2>1, <2>2, <2>4, <2>6, EntryIs
    <3> QED BY <2>1, <2>3, <2>6, <3>1 DEF Seen
  <2> QED BY <2>5, <2>6
<1> QED BY <1>12, <1>17, <1>18, <1>19 DEF SeenAfter, n, N

-----------------------------------------------------------------------------
(* exec(): the buffer, a root table, the program and its stack. *)

(* Trees stay trees if some of their roots are no longer used. *)
LEMMA FewerRoots ==
  ASSUME NEW m, NEW R, Sound(m, R), NEW S, S \subseteq R, 1 \in S
  PROVE  Sound(m, S)
BY DEF Sound, Kern

(* What type correctness needs of sound frames.                            *)
LEMMA SoundIs ==
  ASSUME NEW m, NEW R, Sound(m, R)
  PROVE  /\ m \in Seq(Frames)
         /\ Len(m) \in Nat
         /\ R \subseteq 1 .. Len(m)
         /\ \A f \in DOMAIN m : \A i \in Indices : m[f].table[i].to <= Len(m)
<1>1. PICK ps : Good(m, ps) /\ \A r \in R : r \in 1 .. Len(m)
  BY DEF Sound
<1>2. m \in Seq(Frames) /\ Len(ps) = Len(m) /\ Len(m) \in Nat /\ DOMAIN m = 1 .. Len(m)
  BY <1>1 DEF Good
<1>3. ASSUME NEW f \in 1 .. Len(m), NEW i \in Indices
      PROVE  m[f].table[i].to <= Len(m)
  <2>1. Points(m[f].table[i], ps, f, i)
    BY <1>1, GoodFrame
  <2>2. CASE m[f].table[i] = Invalid \/ m[f].table[i] = KernelPage(DEVICE)
    BY <1>2, <2>2, EntryIs DEF DEVICE
  <2>3. CASE m[f].table[i].to \in 1 .. Len(ps)
    BY <1>2, <2>3
  <2> QED BY <2>1, <2>2, <2>3 DEF Points, ToTable, ToPage, ToDevice
<1> QED BY <1>1, <1>2, <1>3

LEMMA BufferSound ==
  ASSUME NEW R, Sound(mem, R)
  PROVE  Sound(Buffer, R) /\ SeenAfter(mem, Buffer, R, {}, 0)
<1> DEFINE n == MapAll(mem, 1, HeapVAs, 0, "kernel")
           P == {1} \X {HeapVAs[j] : j \in 1 .. Len(HeapVAs)}
<1>1. Buffer = IF grown THEN mem ELSE n
  BY DEF Buffer, kernel_pagetable
<1>2. HeapVAs \in Seq(VAs) /\ \A j \in 1 .. Len(HeapVAs) : HeapVAs[j] \in VAs /\ HeapVAs[j][1] = KERN
  BY KernelAssumption DEF ToSet
<1>3. \A j \in 1 .. Len(HeapVAs) : Mappable(1, HeapVAs[j], "kernel")
  BY <1>2, KernelAssumption, IndexIs DEF Mappable
<1>4. 1 \in R
  BY DEF Sound
<1>5. Sound(n, R) /\ SeenAfter(mem, n, R, P, 0)
  <2>1. 0 \in Words \cup {0, ImageWord}
    OBVIOUS
  <2> QED BY ONLY <1>2, <1>3, <1>4, <2>1, Sound(mem, R), MapAllSound
<1>6. \A r \in R : \A x \in VAs : x[1] = USER => <<r, x>> \notin P
  BY <1>2, IndexIs
<1> HIDE DEF n, P
<1>7. SeenAfter(mem, n, R, {}, 0)
  BY <1>5, <1>6 DEF SeenAfter
<1>8. SeenAfter(mem, mem, R, {}, 0)
  BY DEF SeenAfter
<1> QED BY <1>1, <1>5, <1>7, <1>8

(* The pages that exec() gives a program. *)
Given == ToSet(ImageVAs) \cup {StackVA}

LEMMA ExecSound ==
  ASSUME NEW R, Sound(mem, R)
  PROVE  LET root == Len(Buffer) + 1
             done == MapNew(Loaded(WithRoot(Buffer), root), root, StackVA, ImageWord, "user")
         IN /\ Sound(done, R \cup {root})
            /\ root \notin R /\ root \in Nat /\ root # 1
            /\ SeenAfter(mem, done, R, {}, 0)
            /\ \A x \in VAs : x[1] = USER =>
                 Seen(done, root, x) = IF x \in Given THEN ImageWord ELSE 0
<1> DEFINE b == Buffer
           root == Len(b) + 1
           S == R \cup {root}
           m1 == WithRoot(b)
           m2 == Loaded(m1, root)
           done == MapNew(m2, root, StackVA, ImageWord, "user")
           P == {root} \X {ImageVAs[j] : j \in 1 .. Len(ImageVAs)}
<1>1. Sound(b, R) /\ SeenAfter(mem, b, R, {}, 0)
  BY BufferSound
<1>2. ImageVAs \in Seq(VAs) /\ \A j \in 1 .. Len(ImageVAs) : ImageVAs[j] \in VAs /\ ImageVAs[j][1] = USER
  BY ProgramAssumption DEF ToSet
<1>3. StackVA \in VAs /\ StackVA[1] = USER
  BY ProgramAssumption
<1>4. DeviceVA[1] # USER
  BY KernelAssumption, IndexIs
<1>5. ToSet(ImageVAs) = {ImageVAs[j] : j \in 1 .. Len(ImageVAs)}
  BY <1>2 DEF ToSet
<1>6. m2 = MapAll(m1, root, ImageVAs, ImageWord, "user")
  BY DEF Loaded
<1> HIDE DEF b, m1, m2
<1>7. /\ Sound(m1, S)
      /\ root \notin R
      /\ SeenAfter(b, m1, R, {}, 0)
      /\ \A x \in VAs : x[1] = USER => Seen(m1, root, x) = 0
  BY <1>1, WithRootSound DEF m1
<1>8. root \in Nat /\ root # 1 /\ root \in S
  BY <1>1, <1>7, SoundIs DEF Sound
<1> HIDE DEF root, S
<1>9. Mappable(root, StackVA, "user") /\ \A j \in 1 .. Len(ImageVAs) : Mappable(root, ImageVAs[j], "user")
  BY <1>2, <1>3, <1>4, <1>8 DEF Mappable
<1>10. ImageWord \in Words \cup {0, ImageWord}
  OBVIOUS
<1>11. Sound(m2, S) /\ SeenAfter(m1, m2, S, P, ImageWord)
  BY ONLY <1>2, <1>6, <1>7, <1>8, <1>9, <1>10, MapAllSound
<1>12. Sound(done, S) /\ SeenAfter(m2, done, S, {<<root, StackVA>>}, ImageWord)
  BY ONLY <1>8, <1>9, <1>10, <1>11, MapNewSound
<1> HIDE DEF done, P
<1>13. \A x : <<root, x>> \in P <=> x \in ToSet(ImageVAs)
  BY <1>5 DEF P
<1>14. \A r \in R : \A x : <<r, x>> \notin P /\ <<r, x>> \notin {<<root, StackVA>>} /\ r \in S
  BY <1>7 DEF P, S
<1>15. ASSUME NEW r \in R, NEW x \in VAs, x[1] = USER
       PROVE  Seen(done, r, x) = Seen(mem, r, x)
  <2>1. Seen(b, r, x) = Seen(mem, r, x)
    BY <1>1, <1>15 DEF SeenAfter
  <2>2. Seen(m1, r, x) = Seen(b, r, x)
    BY <1>7, <1>15 DEF SeenAfter
  <2>3. Seen(m2, r, x) = Seen(m1, r, x)
    BY <1>11, <1>14, <1>15 DEF SeenAfter
  <2>4. Seen(done, r, x) = Seen(m2, r, x)
    BY <1>12, <1>14, <1>15 DEF SeenAfter
  <2> QED BY <2>1, <2>2, <2>3, <2>4
<1>16. ASSUME NEW x \in VAs, x[1] = USER
       PROVE  Seen(done, root, x) = IF x \in Given THEN ImageWord ELSE 0
  <2>1. Seen(m2, root, x) = IF x \in ToSet(ImageVAs) THEN ImageWord ELSE 0
    BY <1>7, <1>8, <1>11, <1>13, <1>16 DEF SeenAfter
  <2>2. Seen(done, root, x) = IF x = StackVA THEN ImageWord ELSE Seen(m2, root, x)
    BY <1>8, <1>12, <1>16 DEF SeenAfter
  <2> QED BY <2>1, <2>2 DEF Given
<1> QED BY <1>7, <1>8, <1>12, <1>15, <1>16 DEF SeenAfter, b, root, S, m1, m2, done

-----------------------------------------------------------------------------
(* The inductive invariant: the frames are trees, and every page table is  *)
(* the root of one, that of a slot which is free too, and of one of its    *)
(* own.                                                                    *)

Rooted == {p \in Procs : pagetable[p] # NULL}

Roots == {1} \cup {pagetable[p] : p \in Rooted}

Trees ==
  /\ Sound(mem, Roots)
  /\ \A p \in Rooted : pagetable[p] # 1
  /\ \A p, q \in Rooted : pagetable[p] = pagetable[q] => p = q

IInv == TypeOK /\ Trees

(* Type correctness of the frames and page tables is part of Trees. *)
LEMMA TreesType ==
  ASSUME Trees, Len(mem) <= NFrames, grown \in BOOLEAN, live \in SUBSET Procs,
         pagetable \in [Procs -> Nat], command \in live \cup {NULL}
  PROVE  TypeOK
<1>1. /\ mem \in Seq(Frames)
      /\ Roots \subseteq 1 .. Len(mem)
      /\ \A f \in DOMAIN mem : \A i \in Indices : mem[f].table[i].to <= Len(mem)
  BY SoundIs DEF Trees
<1>2. \A p \in Procs : pagetable[p] \in {NULL} \cup DOMAIN mem
  BY <1>1 DEF Roots, Rooted
<1> QED BY <1>1, <1>2 DEF TypeOK, Frames

(* vmm_init() and heap_init() leave the kernel's tree. *)
LEMMA InitSound ==
  LET devices == MapPage(<<Clear>>, kernel_pagetable, DeviceVA, KernelPage(DEVICE))
      n == MapNew(devices, kernel_pagetable, FirstHeapVA, 0, "kernel")
  IN Sound(n, {1}) /\ Len(n) <= 6
<1> DEFINE m == <<Clear>>
           ps == <<Root(1)>>
           e == KernelPage(DEVICE)
           devices == MapPage(m, 1, DeviceVA, e)
           n == MapNew(devices, 1, FirstHeapVA, 0, "kernel")
<1>1. Clear \in Frames /\ \A i \in Indices : Clear.table[i] = Invalid
  BY ClearIs
<1>2. Root(1) \in Places /\ Root(1).level = 0
  BY RootIs
<1>3. /\ m \in Seq(Frames) /\ Len(m) = 1 /\ m[1] = Clear
      /\ ps \in Seq(Places) /\ Len(ps) = 1 /\ ps[1] = Root(1)
  BY <1>1, <1>2
<1>4. \A f \in 1 .. 1 : f = 1
  OBVIOUS
<1> HIDE DEF m, ps, e
<1>5. Good(m, ps)
  BY <1>1, <1>3, <1>4 DEF Good, Points
<1>6. /\ DeviceVA \in VAs /\ DeviceVA[1] = LOW /\ FirstHeapVA \in VAs /\ FirstHeapVA[1] = KERN
      /\ DeviceVA # FirstHeapVA
  BY KernelAssumption, IndexIs
<1>7. e \in Entries /\ FitsAt(m, ps, 1, DeviceVA, e)
  BY <1>6, EntryIs DEF FitsAt, e
<1>8. \E qs : Mapped(m, ps, 1, DeviceVA, e, devices, qs)
  <2>1. 1 \in 1 .. Len(m) /\ ps[1].level = 0
    BY <1>2, <1>3
  <2> QED BY <1>5, <1>6, <1>7, <2>1, MapPageGood
<1> HIDE DEF devices
<1>9. PICK qs :
        /\ Good(devices, qs)
        /\ Longer(m, ps, devices, qs)
        /\ Len(devices) <= 3
        /\ Lookup(devices, 1, DeviceVA) = e
        /\ devices[1].table[LOW].kind = "table"
        /\ \A j \in Indices \ {LOW} : devices[1].table[j] = Invalid
  <2>1. PICK qs : Mapped(m, ps, 1, DeviceVA, e, devices, qs)
    BY <1>8
  <2>2. Len(devices) <= 3
    <3>1. Len(devices) <= Len(m) + 2 /\ Len(devices) \in Nat
      BY <2>1 DEF Mapped, Good
    <3> QED BY <1>3, <3>1
  <2>3. \A j \in Indices \ {LOW} : devices[1].table[j] = m[1].table[j]
    BY <1>2, <1>3, <1>4, <1>6, <2>1 DEF Mapped
  <2> QED BY <1>1, <1>3, <1>6, <2>1, <2>2, <2>3 DEF Mapped
<1>10. 1 \in 1 .. Len(devices) /\ qs[1].level = 0 /\ Len(devices) \in Nat
  BY <1>2, <1>3, <1>9 DEF Longer, Good
<1>11. \E rs : NewlyMapped(devices, qs, 1, FirstHeapVA, 0, "kernel", n, rs)
  <2>1. 0 \in Words \cup {0, ImageWord}
    OBVIOUS
  <2> QED BY <1>6, <1>9, <1>10, <2>1, MapNewGood
<1> HIDE DEF n
<1>12. PICK rs :
         /\ Good(n, rs)
         /\ Longer(devices, qs, n, rs)
         /\ Len(n) <= Len(devices) + 3
         /\ n[1].table[KERN].kind = "table"
         /\ n[1].table[LOW] = devices[1].table[LOW]
         /\ n[1].table[USER] = devices[1].table[USER]
         /\ Lookup(n, 1, DeviceVA) = Lookup(devices, 1, DeviceVA)
  BY <1>6, <1>10, <1>11, IndexIs DEF NewlyMapped
<1>13. Len(n) <= 6
  <2>1. Len(n) \in Nat
    BY <1>12 DEF Good
  <2> QED BY <1>9, <1>10, <1>12, <2>1
<1>14. 1 \in 1 .. Len(n) /\ rs[1].level = 0
  BY <1>10, <1>12 DEF Longer, Good
<1>15. Kern(n, {1})
  BY <1>9, <1>12, IndexIs DEF Kern, e
<1>16. Sound(n, {1})
  BY <1>12, <1>14, <1>15 DEF Sound
<1> QED BY <1>13, <1>16 DEF kernel_pagetable, m, e, devices, n

LEMMA InitInv == Init => IInv
<1> SUFFICES ASSUME Init PROVE IInv
  OBVIOUS
<1>1. Sound(mem, {1}) /\ Len(mem) <= 6
  BY InitSound DEF Init
<1>2. Rooted = {} /\ Roots = {1}
  BY DEF Init, Rooted, Roots
<1>3. Trees
  BY <1>1, <1>2 DEF Trees
<1>4. Len(mem) <= NFrames
  <2>1. Len(mem) \in Nat
    BY <1>1, SoundIs
  <2> QED BY <1>1, <2>1, FramesAssumption
<1>5. pagetable \in [Procs -> Nat] /\ grown \in BOOLEAN /\ live \in SUBSET Procs /\ command \in live \cup {NULL}
  BY DEF Init, NULL
<1> QED BY <1>3, <1>4, <1>5, TreesType DEF IInv

-----------------------------------------------------------------------------
(* The steps. *)

(* Type correctness after a step, as TreesType. *)
LEMMA TreesTypeNext ==
  ASSUME Trees', Len(mem') <= NFrames, grown' \in BOOLEAN, live' \in SUBSET Procs,
         pagetable' \in [Procs -> Nat], command' \in live' \cup {NULL}
  PROVE  IInv'
<1>1. /\ mem' \in Seq(Frames)
      /\ Roots' \subseteq 1 .. Len(mem')
      /\ \A f \in DOMAIN mem' : \A i \in Indices : mem'[f].table[i].to <= Len(mem')
  BY SoundIs DEF Trees
<1>2. \A p \in Procs : pagetable'[p] \in {NULL} \cup DOMAIN mem'
  BY <1>1 DEF Roots, Rooted
<1>3. TypeOK'
  BY <1>1, <1>2 DEF TypeOK, Frames
<1> QED BY <1>3 DEF IInv

(* A step that gives p a page table of its own, or none. *)
LEMMA NewTable ==
  ASSUME IInv, NEW p \in Procs, NEW f \in Nat, f \notin Roots,
         pagetable' = [pagetable EXCEPT ![p] = f],
         Sound(mem', Roots \cup {f}) \/ (f = NULL /\ Sound(mem', Roots))
  PROVE  Trees' /\ pagetable' \in [Procs -> Nat]
<1>1. pagetable \in [Procs -> Nat]
  <2>1. mem \in Seq(Frames)
    BY SoundIs DEF IInv, Trees
  <2>2. \A q \in Procs : pagetable[q] \in {0} \cup (1 .. Len(mem))
    BY <2>1 DEF IInv, TypeOK, NULL
  <2> QED BY <2>2 DEF IInv, TypeOK
<1>2. pagetable' \in [Procs -> Nat] /\ \A q \in Procs : pagetable'[q] = IF q = p THEN f ELSE pagetable[q]
  BY <1>1
<1>3. Roots' \subseteq Roots \cup {f} /\ 1 \in Roots' /\ (f = NULL => Roots' \subseteq Roots)
  BY <1>2 DEF Roots, Rooted, NULL
<1>4. Sound(mem', Roots')
  BY <1>3, FewerRoots
<1>5. \A q \in Rooted' : \/ q \in Rooted /\ pagetable'[q] = pagetable[q] /\ q # p
                         \/ q = p /\ pagetable'[q] = f
  BY <1>2 DEF Rooted
<1>6. \A q \in Rooted : pagetable[q] # f
  BY DEF Roots
<1>7. f # 1
  BY DEF Roots
<1>8. \A q \in Rooted' : pagetable'[q] # 1
  BY <1>5, <1>7 DEF IInv, Trees
<1>9. \A q, r \in Rooted' : pagetable'[q] = pagetable'[r] => q = r
  BY <1>5, <1>6 DEF IInv, Trees
<1> QED BY <1>2, <1>4, <1>8, <1>9 DEF Trees

(* A step that leaves the page tables where they are. *)
LEMMA SameTables ==
  ASSUME IInv, pagetable' = pagetable, Sound(mem', Roots)
  PROVE  Trees' /\ pagetable' \in [Procs -> Nat]
<1>1. Rooted' = Rooted /\ Roots' = Roots
  BY DEF Rooted, Roots
<1>2. mem \in Seq(Frames)
  BY SoundIs DEF IInv, Trees
<1>3. \A q \in Procs : pagetable[q] \in {0} \cup (1 .. Len(mem))
  BY <1>2 DEF IInv, TypeOK, NULL
<1> QED BY <1>1, <1>3 DEF IInv, Trees, TypeOK

(* What programs find in their pages: Abstract's view. *)
View == [p \in Procs |-> [va \in UserPages |-> IF Runs(p) THEN Sees(p, va) ELSE 0]]

LEMMA SeesIs == \A p, va : Sees(p, va) = Seen(mem, pagetable[p], va)
BY DEF Sees, Seen

LEMMA UserPageIs == \A va \in UserPages : va \in VAs /\ va[1] = USER
BY TouchedAssumption DEF UserPages

(* A step that changes what one of them finds. *)
LEMMA ViewIs ==
  ASSUME NEW q \in Procs, NEW w, View'[q] = w, \A p \in Procs \ {q} : View'[p] = View[p]
  PROVE  View' = [View EXCEPT ![q] = w]
<1>1. View = [p \in Procs |-> View[p]] /\ View' = [p \in Procs |-> View'[p]]
  BY DEF View
<1> QED BY ONLY <1>1, q \in Procs, View'[q] = w, \A p \in Procs \ {q} : View'[p] = View[p]

(* Who goes on as before finds what it did. *)
LEMMA ViewKept ==
  ASSUME SeenAfter(mem, mem', Roots, {}, 0), NEW p \in Procs, pagetable'[p] = pagetable[p],
         Runs(p)' = Runs(p)
  PROVE  View'[p] = View[p]
<1>1. ASSUME NEW va \in UserPages, Runs(p)
      PROVE  Sees(p, va)' = Sees(p, va)
  <2>1. pagetable[p] \in Roots
    BY <1>1 DEF Runs, Rooted, Roots
  <2>2. Seen(mem', pagetable[p], va) = Seen(mem, pagetable[p], va)
    BY <2>1, UserPageIs DEF SeenAfter
  <2>3. Sees(p, va)' = Seen(mem', pagetable'[p], va)
    BY DEF Sees, Seen
  <2> QED BY <2>2, <2>3, SeesIs
<1> QED BY <1>1 DEF View

LEMMA ForkStep ==
  ASSUME IInv, NEW p \in Procs, NEW q \in Procs, Fork(p, q)
  PROVE  IInv' /\ Abstract!Fork(p, q)
<1> DEFINE f == Len(mem) + 1
<1>1. /\ Runs(p) /\ q \notin live
      /\ Len(mem') <= NFrames /\ mem' = Clone(pagetable[p])
      /\ live' = live \cup {q}
      /\ pagetable' = [pagetable EXCEPT ![q] = f]
      /\ UNCHANGED <<grown, command>>
  BY DEF Fork, Found
<1>2. Sound(mem, Roots) /\ pagetable[p] \in Roots /\ Len(mem) \in Nat
  BY <1>1, SoundIs DEF IInv, Trees, Runs, Rooted, Roots
<1>3. /\ Sound(mem', Roots \cup {f})
      /\ f \notin Roots
      /\ SeenAfter(mem, mem', Roots, {}, 0)
      /\ \A x \in VAs : x[1] = USER => Seen(mem', f, x) = Seen(mem, pagetable[p], x)
  BY <1>1, <1>2, CloneSound
<1>4. Trees' /\ pagetable' \in [Procs -> Nat]
  <2>1. f \in Nat
    BY <1>2
  <2> HIDE DEF f
  <2> QED BY <1>1, <1>3, <2>1, NewTable
<1>5. grown' \in BOOLEAN /\ live' \in SUBSET Procs /\ command' \in live' \cup {NULL}
  BY <1>1 DEF IInv, TypeOK
<1>6. IInv'
  BY <1>1, <1>4, <1>5, TreesTypeNext
<1>7. f # NULL /\ pagetable'[q] = f /\ \A r \in Procs \ {q} : pagetable'[r] = pagetable[r]
  BY <1>1, <1>2 DEF IInv, TypeOK, NULL
<1> HIDE DEF f
<1>8. p \in Running /\ q \notin Running /\ Running' = Running \cup {q} /\ p # q
  BY <1>1, <1>7 DEF Running, Runs
<1>9. \A r \in Procs \ {q} : View'[r] = View[r]
  <2> TAKE r \in Procs \ {q}
  <2>1. Runs(r)' = Runs(r)
    BY <1>1, <1>7 DEF Runs
  <2> QED BY <1>3, <1>7, <2>1, ViewKept
<1>10. View'[q] = View[p]
  <2>1. Runs(q)' /\ Runs(p)
    BY <1>1, <1>7 DEF Runs
  <2>2. \A va \in UserPages : Sees(q, va)' = Sees(p, va)
    <3> TAKE va \in UserPages
    <3>1. Sees(q, va)' = Seen(mem', pagetable'[q], va)
      BY DEF Sees, Seen
    <3> QED BY <1>3, <1>7, <3>1, SeesIs, UserPageIs
  <2> QED BY <2>1, <2>2 DEF View
<1>11. View' = [View EXCEPT ![q] = View[p]]
  BY <1>9, <1>10, ViewIs
<1>12. Abstract!Fork(p, q)
  BY <1>8, <1>11 DEF Abstract!Fork, View
<1> QED BY <1>6, <1>12

LEMMA ExecStep ==
  ASSUME IInv, NEW p \in Procs, Exec(p)
  PROVE  IInv' /\ Abstract!Exec(p)
<1> DEFINE f == Len(Buffer) + 1
           done == MapNew(Loaded(WithRoot(Buffer), f), f, StackVA, ImageWord, "user")
<1>1. /\ p \in live
      /\ Len(mem') <= NFrames /\ mem' = done
      /\ pagetable' = [pagetable EXCEPT ![p] = f]
      /\ grown' = TRUE
      /\ UNCHANGED <<live, command>>
  BY DEF Exec, Found
<1>2. Sound(mem, Roots)
  BY DEF IInv, Trees
<1>3. /\ Sound(done, Roots \cup {f})
      /\ f \notin Roots /\ f \in Nat
      /\ SeenAfter(mem, done, Roots, {}, 0)
      /\ \A x \in VAs : x[1] = USER => Seen(done, f, x) = IF x \in Given THEN ImageWord ELSE 0
  BY <1>2, ExecSound
<1>4. f # NULL
  <2>1. Len(Buffer) \in Nat
    BY <1>2, BufferSound, SoundIs
  <2> QED BY <2>1 DEF NULL
<1> HIDE DEF f, done
<1>5. Trees' /\ pagetable' \in [Procs -> Nat]
  BY <1>1, <1>3, NewTable
<1>6. grown' \in BOOLEAN /\ live' \in SUBSET Procs /\ command' \in live' \cup {NULL}
  BY <1>1 DEF IInv, TypeOK
<1>7. IInv'
  BY <1>1, <1>5, <1>6, TreesTypeNext
<1>8. pagetable'[p] = f /\ \A r \in Procs \ {p} : pagetable'[r] = pagetable[r]
  BY <1>1 DEF IInv, TypeOK
<1>9. Running' = Running \cup {p}
  BY <1>1, <1>4, <1>8 DEF Running, Runs
<1>10. \A r \in Procs \ {p} : View'[r] = View[r]
  <2> TAKE r \in Procs \ {p}
  <2>1. Runs(r)' = Runs(r)
    BY <1>1, <1>8 DEF Runs
  <2> QED BY <1>1, <1>3, <1>8, <2>1, ViewKept
<1>11. View'[p] = [va \in UserPages |-> IF va \in Given THEN ImageWord ELSE 0]
  <2>1. Runs(p)'
    BY <1>1, <1>4, <1>8 DEF Runs
  <2>2. \A va \in UserPages : Sees(p, va)' = IF va \in Given THEN ImageWord ELSE 0
    <3> TAKE va \in UserPages
    <3>1. Sees(p, va)' = Seen(mem', pagetable'[p], va)
      BY DEF Sees, Seen
    <3> QED BY <1>1, <1>3, <1>8, <3>1, UserPageIs
  <2> QED BY <2>1, <2>2 DEF View
<1>12. View' = [View EXCEPT ![p] = [va \in UserPages |-> IF va \in Given THEN ImageWord ELSE 0]]
  BY <1>10, <1>11, ViewIs
<1>13. Abstract!Exec(p)
  BY <1>9, <1>12 DEF Abstract!Exec, View, Given
<1> QED BY <1>7, <1>13

(* A step that shows in no program: the same ones run, on their own tables,*)
(* and find what they did.                                                 *)
LEMMA Unseen ==
  ASSUME IInv, Sound(mem', Roots), SeenAfter(mem, mem', Roots, {}, 0), Len(mem') <= NFrames,
         grown' \in BOOLEAN, UNCHANGED <<live, pagetable, command>>
  PROVE  IInv' /\ UNCHANGED <<Running, View>>
<1>1. Trees' /\ pagetable' \in [Procs -> Nat]
  BY SameTables
<1>2. live' \in SUBSET Procs /\ command' \in live' \cup {NULL}
  BY DEF IInv, TypeOK
<1>3. IInv'
  BY <1>1, <1>2, TreesTypeNext
<1>4. Running' = Running
  BY DEF Running, Runs
<1>5. \A p \in Procs : View'[p] = View[p]
  <2> TAKE p \in Procs
  <2>1. pagetable'[p] = pagetable[p] /\ Runs(p)' = Runs(p)
    BY DEF Runs
  <2> QED BY <2>1, ViewKept
<1>6. View = [p \in Procs |-> View[p]] /\ View' = [p \in Procs |-> View'[p]]
  BY DEF View
<1>7. View' = View
  BY ONLY <1>5, <1>6
<1> QED BY <1>3, <1>4, <1>7

LEMMA BadExecStep ==
  ASSUME IInv, NEW p \in Procs, BadExec(p)
  PROVE  IInv' /\ UNCHANGED <<Running, View>>
<1>1. Sound(Buffer, Roots) /\ SeenAfter(mem, Buffer, Roots, {}, 0)
  BY BufferSound DEF IInv, Trees
<1> QED BY <1>1, Unseen DEF BadExec, Found

LEMMA PageFaultStep ==
  ASSUME IInv, NEW p \in Procs, NEW va \in Touched, PageFault(p, va)
  PROVE  IInv' /\ UNCHANGED <<Running, View>>
<1> DEFINE r == pagetable[p]
           n == MapNew(mem, r, va, 0, "user")
<1>1. /\ Runs(p) /\ Lookup(mem, r, va) = Invalid
      /\ Len(mem') <= NFrames /\ mem' = n
      /\ UNCHANGED <<grown, live, pagetable, command>>
  BY DEF PageFault, Found
<1>2. r \in Roots /\ r # 1 /\ Sound(mem, Roots)
  BY <1>1 DEF IInv, Trees, Runs, Rooted, Roots
<1>3. Mappable(r, va, "user")
  BY <1>2, TouchedAssumption DEF Mappable
<1> HIDE DEF r
<1>4. Sound(n, Roots) /\ SeenAfter(mem, n, Roots, {<<r, va>>}, 0)
  <2>1. 0 \in Words \cup {0, ImageWord}
    OBVIOUS
  <2> QED BY ONLY <1>2, <1>3, <2>1, MapNewSound
<1>5. SeenAfter(mem, n, Roots, {}, 0)
  <2>1. Seen(mem, r, va) = 0
    BY <1>1 DEF Seen
  <2> QED BY <1>4, <2>1 DEF SeenAfter
<1>6. grown' \in BOOLEAN
  BY <1>1 DEF IInv, TypeOK
<1> HIDE DEF n
<1> QED BY <1>1, <1>4, <1>5, <1>6, Unseen

LEMMA StoreStep ==
  ASSUME IInv, NEW p \in Procs, NEW va \in Touched, Store(p, va)
  PROVE  IInv' /\ (Abstract!Store(p) \/ UNCHANGED <<Running, View>>)
<1> DEFINE r == pagetable[p]
           f == Lookup(mem, r, va).to
<1>1. PICK w \in Words : mem' = PutWord(mem, f, w)
  BY DEF Store, PutWord
<1>2. /\ Runs(p) /\ Lookup(mem, r, va).kind = "user"
      /\ UNCHANGED <<grown, live, pagetable, command>>
  BY DEF Store
<1>3. r \in Roots /\ Sound(mem, Roots) /\ va \in VAs /\ va[1] \in {LOW, USER}
  BY <1>2, TouchedAssumption DEF IInv, Trees, Runs, Rooted, Roots
<1>4. /\ Sound(mem', Roots) /\ Len(mem') = Len(mem)
      /\ SeenAfter(mem, mem', Roots, {<<r, va>>}, w)
  BY <1>1, <1>2, <1>3, StoreSound, ZenonT(60)
<1> HIDE DEF f
<1>5. Len(mem') <= NFrames /\ grown' \in BOOLEAN
  BY <1>2, <1>4 DEF IInv, TypeOK
<1>6. CASE va[1] = LOW
  <2>1. SeenAfter(mem, mem', Roots, {}, 0)
    BY <1>4, <1>6, IndexIs DEF SeenAfter
  <2> QED BY <1>2, <1>4, <1>5, <2>1, Unseen
<1>7. CASE va[1] = USER
  <2>1. va \in UserPages
    BY <1>7 DEF UserPages
  <2>2. Trees' /\ pagetable' \in [Procs -> Nat]
    BY <1>2, <1>4, SameTables
  <2>3. live' \in SUBSET Procs /\ command' \in live' \cup {NULL}
    BY <1>2 DEF IInv, TypeOK
  <2>4. IInv'
    BY <1>5, <2>2, <2>3, TreesTypeNext
  <2>5. Running' = Running /\ p \in Running
    BY <1>2 DEF Running, Runs
  <2>6. ASSUME NEW q \in Procs, NEW x \in UserPages, Runs(q)
        PROVE  Sees(q, x)' = IF q = p /\ x = va THEN w ELSE Sees(q, x)
    <3>1. pagetable[q] \in Roots /\ q \in Rooted /\ p \in Rooted
      BY <1>2, <2>6 DEF Runs, Rooted, Roots
    <3>2. pagetable[q] = r => q = p
      BY <3>1 DEF IInv, Trees
    <3>3. Seen(mem', pagetable[q], x) = IF pagetable[q] = r /\ x = va THEN w ELSE Seen(mem, pagetable[q], x)
      BY <1>4, <3>1, UserPageIs DEF SeenAfter
    <3>4. Sees(q, x)' = Seen(mem', pagetable'[q], x)
      BY DEF Sees, Seen
    <3> QED BY <1>2, <3>2, <3>3, <3>4, SeesIs
  <2>7. \A q \in Procs \ {p} : View'[q] = View[q]
    <3> TAKE q \in Procs \ {p}
    <3>1. Runs(q)' = Runs(q)
      BY <1>2 DEF Runs
    <3> QED BY <2>6, <3>1 DEF View
  <2>8. View'[p] = [View[p] EXCEPT ![va] = w]
    <3>1. Runs(p)'
      BY <1>2 DEF Runs
    <3>2. View[p] = [x \in UserPages |-> Sees(p, x)]
      BY <1>2 DEF View
    <3>3. View'[p] = [x \in UserPages |-> Sees(p, x)']
      BY <3>1 DEF View
    <3>4. \A x \in UserPages : Sees(p, x)' = IF x = va THEN w ELSE Sees(p, x)
      BY <1>2, <2>6
    <3> QED BY <3>2, <3>3, <3>4
  <2>9. View' = [View EXCEPT ![p][va] = w]
    <3>1. View' = [View EXCEPT ![p] = [View[p] EXCEPT ![va] = w]]
      BY <2>7, <2>8, ViewIs
    <3> QED BY <3>1
  <2>10. Abstract!Store(p)
    <3>1. w \in Words
      OBVIOUS
    <3> QED BY <2>1, <2>5, <2>9, <3>1 DEF Abstract!Store, View
  <2> QED BY <2>4, <2>10
<1> QED BY <1>3, <1>6, <1>7

LEMMA ShellForkStep ==
  ASSUME IInv, NEW q \in Procs, ShellFork(q)
  PROVE  IInv' /\ UNCHANGED <<Running, View>>
<1>1. /\ command' = q /\ q \notin live /\ live' = live \cup {q}
      /\ pagetable' = [pagetable EXCEPT ![q] = NULL]
      /\ UNCHANGED <<mem, grown>>
  BY DEF ShellFork
<1>2. Sound(mem', Roots) /\ SeenAfter(mem, mem', Roots, {}, 0) /\ NULL \in Nat /\ NULL \notin Roots
  BY <1>1 DEF IInv, Trees, SeenAfter, NULL, Roots, Rooted
<1>3. Trees' /\ pagetable' \in [Procs -> Nat]
  BY <1>1, <1>2, NewTable
<1>4. /\ Len(mem') <= NFrames /\ grown' \in BOOLEAN
      /\ live' \in SUBSET Procs /\ command' \in live' \cup {NULL}
  BY <1>1 DEF IInv, TypeOK
<1>5. IInv'
  BY <1>3, <1>4, TreesTypeNext
<1>6. pagetable'[q] = NULL /\ \A r \in Procs \ {q} : pagetable'[r] = pagetable[r]
  BY <1>1 DEF IInv, TypeOK
<1>7. \A r \in Procs : Runs(r)' = Runs(r)
  BY <1>1, <1>6 DEF Runs
<1>8. Running' = Running
  BY <1>7 DEF Running
<1>9. \A r \in Procs : View'[r] = View[r]
  <2> TAKE r \in Procs
  <2>1. CASE r = q
    <3>1. ~ Runs(r) /\ ~ Runs(r)'
      BY <1>1, <1>7, <2>1 DEF Runs
    <3> QED BY <3>1 DEF View
  <2>2. CASE r # q
    BY <1>2, <1>6, <1>7, <2>2, ViewKept
  <2> QED BY <2>1, <2>2
<1>10. View = [p \in Procs |-> View[p]] /\ View' = [p \in Procs |-> View'[p]]
  BY DEF View
<1>11. View' = View
  BY ONLY <1>9, <1>10
<1> QED BY <1>5, <1>8, <1>11

LEMMA ReapedStep ==
  ASSUME IInv, NEW p \in Procs, Reaped(p)
  PROVE  IInv' /\ Abstract!Exit(p)
<1>1. /\ p \in live /\ live' = live \ {p}
      /\ command' = IF p = command THEN NULL ELSE command
      /\ UNCHANGED <<mem, grown, pagetable>>
  BY DEF Reaped
<1>2. Sound(mem', Roots) /\ SeenAfter(mem, mem', Roots, {}, 0)
  BY <1>1 DEF IInv, Trees, SeenAfter
<1>3. Trees' /\ pagetable' \in [Procs -> Nat]
  BY <1>1, <1>2, SameTables
<1>4. /\ Len(mem') <= NFrames /\ grown' \in BOOLEAN
      /\ live' \in SUBSET Procs /\ command' \in live' \cup {NULL}
  BY <1>1 DEF IInv, TypeOK
<1>5. IInv'
  BY <1>3, <1>4, TreesTypeNext
<1>6. Running' = Running \ {p}
  BY <1>1 DEF Running, Runs
<1>7. \A r \in Procs \ {p} : View'[r] = View[r]
  <2> TAKE r \in Procs \ {p}
  <2>1. Runs(r)' = Runs(r)
    BY <1>1 DEF Runs
  <2> QED BY <1>1, <1>2, <2>1, ViewKept
<1>8. View'[p] = [va \in UserPages |-> 0]
  <2>1. ~ Runs(p)'
    BY <1>1 DEF Runs
  <2> QED BY <2>1 DEF View
<1>9. View' = [View EXCEPT ![p] = [va \in UserPages |-> 0]]
  BY <1>7, <1>8, ViewIs
<1>10. Abstract!Exit(p)
  BY <1>6, <1>9 DEF Abstract!Exit, Abstract!Blank, View
<1> QED BY <1>5, <1>10

LEMMA NextInv == IInv /\ [Next]_vars => IInv'
<1> SUFFICES ASSUME IInv, [Next]_vars PROVE IInv'
  OBVIOUS
<1>1. CASE UNCHANGED vars
  BY <1>1 DEF vars, IInv, TypeOK, Trees, Rooted, Roots
<1>2. ASSUME NEW p \in Procs, ShellFork(p) PROVE IInv'
  BY <1>2, ShellForkStep
<1>3. ASSUME NEW p \in Procs, NEW q \in Procs, Fork(p, q) PROVE IInv'
  BY <1>3, ForkStep
<1>4. ASSUME NEW p \in Procs, Exec(p) PROVE IInv'
  BY <1>4, ExecStep
<1>5. ASSUME NEW p \in Procs, BadExec(p) PROVE IInv'
  BY <1>5, BadExecStep
<1>6. ASSUME NEW p \in Procs, Reaped(p) PROVE IInv'
  BY <1>6, ReapedStep
<1>7. ASSUME NEW p \in Procs, NEW va \in Touched, PageFault(p, va) PROVE IInv'
  BY <1>7, PageFaultStep
<1>8. ASSUME NEW p \in Procs, NEW va \in Touched, Store(p, va) PROVE IInv'
  BY <1>8, StoreStep
<1> QED BY <1>1, <1>2, <1>3, <1>4, <1>5, <1>6, <1>7, <1>8 DEF Next

-----------------------------------------------------------------------------
(* The theorems. *)

(* The frames are trees at all times, whatever programs are started, forked*)
(* and reaped: each page table is the root of its own, and nothing but the *)
(* kernel's part of it leads into another.                                 *)
THEOREM Invariant == Spec => []IInv
BY InitInv, NextInv, PTL DEF Spec

(* No entry points to a frame that pmm_alloc_frame() did not hand out, and *)
(* the frames do not outnumber the bitmap.                                 *)
THEOREM Typing == Spec => []TypeOK
<1>1. IInv => TypeOK
  BY DEF IInv
<1> QED BY <1>1, Invariant, PTL

(* What entry i of a root table leads to: the frames of its own tree, of   *)
(* the kernel's unless i is USER, and the devices.                         *)
LEMMA BehindIs ==
  ASSUME NEW ps, Good(mem, ps), NEW r \in 1 .. Len(mem), ps[r].level = 0, NEW i \in Indices,
         NEW f \in Behind(r, i)
  PROVE  \/ f = DEVICE /\ i # USER
         \/ /\ f \in 1 .. Len(mem)
            /\ ps[f].level # 0
            /\ \/ ps[f].root = r
               \/ ps[f].root = 1 /\ i # USER
<1> DEFINE upper == Targets(r, {i}, "table")
           lower == UNION {Targets(t, Indices, "table") : t \in upper}
           Mine(h) == ps[h].root = r \/ (ps[h].root = 1 /\ i # USER)
<1>1. \A t, I, kind : Targets(t, I, kind) = {mem[t].table[j].to : j \in {k \in I : mem[t].table[k].kind = kind}}
  BY DEF Targets
<1>2. ASSUME NEW h \in upper
      PROVE  h \in 1 .. Len(mem) /\ ps[h].level = 1 /\ ps[h].first = i /\ Mine(h)
  <2>1. mem[r].table[i].kind = "table" /\ mem[r].table[i].to = h
    BY <1>1
  <2>2. mem[r].table[i] # Invalid
    BY <2>1, EntryIs
  <2> HIDE DEF upper
  <2> QED BY <2>1, <2>2, FromRoot
<1>3. ASSUME NEW h \in lower
      PROVE  h \in 1 .. Len(mem) /\ ps[h].level = 2 /\ ps[h].first = i /\ Mine(h)
  <2>1. PICK t \in upper, j \in Indices : mem[t].table[j].kind = "table" /\ mem[t].table[j].to = h
    BY <1>1
  <2>2. mem[t].table[j] # Invalid
    BY <2>1, EntryIs
  <2>3. t \in 1 .. Len(mem) /\ ps[t].level = 1 /\ ps[t].first = i /\ Mine(t)
    BY <1>2
  <2> HIDE DEF upper
  <2> QED BY <2>1, <2>2, <2>3, FromUpper
<1> HIDE DEF upper, lower
<1>4. CASE f \in upper
  BY <1>2, <1>4
<1>5. CASE f \in lower
  BY <1>3, <1>5
<1>6. CASE \E t \in lower : f \in Targets(t, Indices, "user") \cup Targets(t, Indices, "kernel")
  <2>1. PICK t \in lower, j \in Indices :
          mem[t].table[j].kind \in {"user", "kernel"} /\ mem[t].table[j].to = f
    BY <1>1, <1>6
  <2>2. mem[t].table[j] # Invalid
    BY <2>1, EntryIs
  <2>3. t \in 1 .. Len(mem) /\ ps[t].level = 2 /\ ps[t].first = i /\ Mine(t)
    BY <1>3
  <2>4. CASE mem[t].table[j] = KernelPage(DEVICE) /\ i = LOW
    BY <2>1, <2>4, EntryIs, IndexIs
  <2>5. CASE ~ (mem[t].table[j] = KernelPage(DEVICE) /\ i = LOW)
    BY <2>1, <2>2, <2>3, <2>5, FromLower
  <2> QED BY <2>4, <2>5
<1> QED BY <1>4, <1>5, <1>6 DEF Behind, upper, lower

(* From 1 GiB up no program shares a page or a table with another process  *)
(* or with the kernel, in every state: fork() copies all of it, exec()     *)
(* starts with none, and a page fault adds a new frame.                    *)
THEOREM UserPartPrivateHolds == Spec => []UserPartPrivate
<1>1. IInv => UserPartPrivate
  <2> SUFFICES ASSUME IInv PROVE UserPartPrivate
    OBVIOUS
  <2>1. PICK ps : Good(mem, ps) /\ \A r \in Roots : r \in 1 .. Len(mem) /\ ps[r].level = 0
    BY DEF IInv, Trees, Sound
  <2>2. \A p \in Running : p \in Rooted /\ pagetable[p] \in Roots /\ pagetable[p] # 1
    BY DEF IInv, Trees, Running, Runs, Rooted, Roots
  <2>3. 1 \in Roots
    BY DEF Roots
  <2>4. ASSUME NEW p \in Running, NEW r \in Roots, r # pagetable[p], NEW i \in Indices,
               NEW f \in Own(p), f \in Behind(r, i)
        PROVE  FALSE
    <3>1. \/ f = DEVICE
          \/ f \in 1 .. Len(mem) /\ ps[f].level # 0 /\ ps[f].root \in {1, r}
      BY <2>1, <2>4, BehindIs
    <3>2. CASE f = pagetable[p]
      <4>1. f \in 1 .. Len(mem) /\ ps[f].level = 0 /\ f # DEVICE
        BY <2>1, <2>2, <3>2 DEF DEVICE
      <4> QED BY <3>1, <4>1
    <3>3. CASE f \in Behind(pagetable[p], USER)
      <4>1. f \in 1 .. Len(mem) /\ ps[f].root = pagetable[p]
        BY <2>1, <2>2, <3>3, BehindIs, IndexIs
      <4>2. f # DEVICE
        BY <4>1 DEF DEVICE
      <4> QED BY <2>2, <2>4, <3>1, <4>1, <4>2
    <3> QED BY <3>2, <3>3 DEF Own
  <2>5. \A p \in Running : \A r \in Roots : \A i \in Indices :
          r # pagetable[p] => Own(p) \cap Behind(r, i) = {}
    BY <2>4
  <2>6. \A p \in Running : \A q \in Running \ {p} : pagetable[q] # pagetable[p]
    BY <2>2 DEF IInv, Trees
  <2> QED BY <2>2, <2>3, <2>5, <2>6 DEF UserPartPrivate, kernel_pagetable
<1> QED BY <1>1, Invariant, PTL

(* The heap and the devices are found in every address space where the     *)
(* kernel's own page table has them.                                       *)
THEOREM KernelMappedHolds == Spec => []KernelMapped
<1>1. IInv => KernelMapped
  <2> SUFFICES ASSUME IInv, NEW p \in Running,
                      NEW va \in ToSet(HeapVAs) \cup {FirstHeapVA, DeviceVA}
               PROVE  Lookup(mem, pagetable[p], va) = Lookup(mem, 1, va)
    BY DEF KernelMapped, kernel_pagetable
  <2>1. pagetable[p] \in Roots /\ 1 \in Roots
    BY DEF Running, Runs, Rooted, Roots
  <2>2. Kern(mem, Roots)
    BY DEF IInv, Trees, Sound
  <2>3. CASE va = DeviceVA
    BY <2>1, <2>2, <2>3 DEF Kern
  <2>4. CASE va # DeviceVA
    <3>1. va[1] = KERN
      BY <2>4, KernelAssumption
    <3>2. mem[pagetable[p]].table[va[1]] = mem[1].table[va[1]]
      BY <2>1, <2>2, <3>1, IndexIs DEF Kern
    <3> QED BY <3>2 DEF Lookup
  <2> QED BY <2>3, <2>4
<1> QED BY <1>1, Invariant, PTL

(* From 1 GiB up every step does to the memory of programs what Memory     *)
(* says: frames, tables, sharing and page faults do not show.              *)
THEOREM MemoryImplemented == Spec => ImplementsMemory
<1>1. Init => Abstract!Init
  <2> SUFFICES ASSUME Init PROVE Abstract!Init
    OBVIOUS
  <2>1. \A p : ~ Runs(p)
    BY DEF Init, Runs
  <2>2. Running = {} /\ View = [p \in Procs |-> [va \in UserPages |-> 0]]
    BY <2>1 DEF Running, View
  <2> QED BY <2>2 DEF Abstract!Init, Abstract!Blank, View
<1>2. IInv /\ [Next]_vars => [Abstract!Next]_Abstract!vars
  <2> SUFFICES ASSUME IInv, [Next]_vars
               PROVE  Abstract!Next \/ UNCHANGED <<Running, View>>
    BY DEF Abstract!vars, View
  <2>1. CASE UNCHANGED vars
    BY <2>1 DEF vars, Running, View, Runs, Sees, Lookup
  <2>2. ASSUME NEW p \in Procs, ShellFork(p) PROVE UNCHANGED <<Running, View>>
    BY <2>2, ShellForkStep
  <2>3. ASSUME NEW p \in Procs, NEW q \in Procs, Fork(p, q) PROVE Abstract!Next
    BY <2>3, ForkStep DEF Abstract!Next
  <2>4. ASSUME NEW p \in Procs, Exec(p) PROVE Abstract!Next
    BY <2>4, ExecStep DEF Abstract!Next
  <2>5. ASSUME NEW p \in Procs, BadExec(p) PROVE UNCHANGED <<Running, View>>
    BY <2>5, BadExecStep
  <2>6. ASSUME NEW p \in Procs, Reaped(p) PROVE Abstract!Next
    BY <2>6, ReapedStep DEF Abstract!Next
  <2>7. ASSUME NEW p \in Procs, NEW va \in Touched, PageFault(p, va) PROVE UNCHANGED <<Running, View>>
    BY <2>7, PageFaultStep
  <2>8. ASSUME NEW p \in Procs, NEW va \in Touched, Store(p, va)
        PROVE  Abstract!Next \/ UNCHANGED <<Running, View>>
    BY <2>8, StoreStep DEF Abstract!Next
  <2> QED BY <2>1, <2>2, <2>3, <2>4, <2>5, <2>6, <2>7, <2>8 DEF Next
<1> QED BY <1>1, <1>2, Invariant, PTL DEF Spec, ImplementsMemory, Abstract!Spec
=============================================================================
