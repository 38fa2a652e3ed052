---------------------------- MODULE ShellProofs ----------------------------
(***************************************************************************)
(* Theorems of Shell, for every size of the file system's tables, every    *)
(* set of paths and any programs: a redirected program starts with what    *)
(* its command asks for, the right side of a pipe reads what the left side *)
(* wrote, and the shell is back at its terminal when it prompts.           *)
(*                                                                         *)
(* The first part is about fs_resolve_path(), which Fs writes as a         *)
(* recursive function: that a path resolves to the step its last component *)
(* makes from its parent, and that it goes on resolving to the same inode  *)
(* while the directories only gain entries of inodes in use.  Both go by   *)
(* induction over the components: the least one where they fail.           *)
(***************************************************************************)
EXTENDS Shell, FsStoreProofs, WellFoundedInduction

-----------------------------------------------------------------------------
(* The least element of a set of numbers. *)

LEMMA LessWellFounded == IsWellFoundedOn({xy \in Nat \X Nat : xy[1] < xy[2]}, Nat)
BY NatLessThanWellFounded DEF OpToRel

LEMMA Least ==
  ASSUME NEW S \in SUBSET Nat, S # {}
  PROVE  \E k \in S : \A m \in S : k <= m
<1> DEFINE Less == {xy \in Nat \X Nat : xy[1] < xy[2]}
<1>1. PICK k \in S : \A m \in S : <<m, k>> \notin Less
  <2>1. IsWellFoundedOn(Less, Nat) /\ S \subseteq Nat
    BY LessWellFounded
  <2> HIDE DEF Less
  <2> QED BY <2>1, WFMin
<1>2. \A m \in S : ~ (m < k)
  BY <1>1
<1>3. \A m \in S : m \in Int /\ k \in Int
  OBVIOUS
<1> QED BY <1>2, <1>3

-----------------------------------------------------------------------------
(* What resolving does, for any kinds ks and entries es: those of a state  *)
(* or of the next.                                                         *)

MatchesIn(ks, es, d, name) ==
  {k \in DOMAIN es[d] : /\ es[d][k].name = name
                        /\ ks[es[d][k].inode] # "FREE"}

LookupIn(ks, es, d, name) ==
  LET M == MatchesIn(ks, es, d, name)
  IN IF ks[d] # "DIR" \/ M = {} THEN NONE
     ELSE es[d][CHOOSE k \in M : \A m \in M : k <= m].inode

StepIn(ks, es, i, name) ==
  IF i = NONE \/ ks[i] # "DIR" THEN NONE
  ELSE IF name = "." THEN i
  ELSE LookupIn(ks, es, i, name)

IsWalk(ks, es, path, n, f) ==
  f = [m \in 0 .. n |-> IF m = 0 THEN ROOT ELSE StepIn(ks, es, f[m - 1], path[m])]

WalkIn(ks, es, path) == CHOOSE f : IsWalk(ks, es, path, Len(path), f)

ResolveIn(ks, es, path) == WalkIn(ks, es, path)[Len(path)]

Parents(path) == SubSeq(path, 1, Len(path) - 1)

LEMMA ResolveIs ==
  ASSUME NEW path
  PROVE  Resolve(path) = ResolveIn(kind, entries, path)
BY DEF Resolve, ResolveIn, WalkIn, IsWalk, StepIn, LookupIn, Lookup, MatchesIn, Matches

LEMMA ResolveNextIs ==
  ASSUME NEW path
  PROVE  Resolve(path)' = ResolveIn(kind', entries', path)
BY DEF Resolve, ResolveIn, WalkIn, IsWalk, StepIn, LookupIn, Lookup, MatchesIn, Matches

(* The walk along a path exists, and is the same as far as paths are.      *)
LEMMA WalkExists ==
  ASSUME NEW ks, NEW es, NEW path, NEW n \in Nat
  PROVE  \E f : IsWalk(ks, es, path, n, f)
<1> DEFINE Bad == {k \in Nat : ~ \E f : IsWalk(ks, es, path, k, f)}
<1> SUFFICES ASSUME Bad # {} PROVE FALSE
  OBVIOUS
<1>1. PICK k \in Bad : \A m \in Bad : k <= m
  <2> HIDE DEF Bad
  <2>1. Bad \in SUBSET Nat
    BY DEF Bad
  <2> QED BY <2>1, Least
<1>2. CASE k = 0
  <2>1. IsWalk(ks, es, path, 0, [m \in 0 .. 0 |-> ROOT])
    BY DEF IsWalk
  <2> QED BY <1>1, <1>2, <2>1
<1>3. CASE k # 0
  <2>1. k - 1 \in Nat /\ k - 1 \notin Bad
    BY <1>1, <1>3
  <2>2. PICK f : IsWalk(ks, es, path, k - 1, f)
    BY <2>1
  <2> DEFINE g == [m \in 0 .. k |-> IF m = k THEN StepIn(ks, es, f[k - 1], path[k]) ELSE f[m]]
  <2>3. \A m \in 0 .. k - 1 : f[m] = IF m = 0 THEN ROOT ELSE StepIn(ks, es, f[m - 1], path[m])
    BY <2>2 DEF IsWalk
  <2>4. \A m \in 0 .. k : g[m] = IF m = 0 THEN ROOT ELSE StepIn(ks, es, g[m - 1], path[m])
    <3> SUFFICES ASSUME NEW m \in 0 .. k
                 PROVE  g[m] = IF m = 0 THEN ROOT ELSE StepIn(ks, es, g[m - 1], path[m])
      OBVIOUS
    <3>1. CASE m = k
      <4>1. g[m - 1] = f[k - 1]
        BY <1>1, <1>3, <3>1
      <4> QED BY <1>3, <3>1, <4>1
    <3>2. CASE m = 0
      BY <1>3, <2>3, <3>2, <2>1
    <3>3. CASE m # 0 /\ m # k
      <4>1. m \in 0 .. k - 1 /\ m - 1 \in 0 .. k /\ m - 1 # k
        BY <1>1, <3>3
      <4>2. g[m] = f[m] /\ g[m - 1] = f[m - 1]
        BY <3>3, <4>1
      <4> QED BY <2>3, <3>3, <4>1, <4>2
    <3> QED BY <3>1, <3>2, <3>3
  <2>5. g = [m \in 0 .. k |-> g[m]]
    OBVIOUS
  <2> HIDE DEF g
  <2>6. IsWalk(ks, es, path, k, g)
    BY <2>4, <2>5 DEF IsWalk
  <2> QED BY <1>1, <2>6
<1> QED BY <1>2, <1>3

LEMMA WalksAgree ==
  ASSUME NEW ks, NEW es, NEW p, NEW q, NEW n \in Nat, NEW l \in Nat, NEW f, NEW g,
         IsWalk(ks, es, p, n, f), IsWalk(ks, es, q, l, g),
         NEW top \in Nat, top <= n, top <= l, \A m \in 1 .. top : p[m] = q[m]
  PROVE  f[top] = g[top]
<1> DEFINE Bad == {k \in 0 .. top : f[k] # g[k]}
<1> SUFFICES ASSUME Bad # {} PROVE FALSE
  OBVIOUS
<1>1. PICK k \in Bad : \A m \in Bad : k <= m
  <2>1. Bad \in SUBSET Nat
    OBVIOUS
  <2> HIDE DEF Bad
  <2> QED BY <2>1, Least
<1>2. /\ f[k] = IF k = 0 THEN ROOT ELSE StepIn(ks, es, f[k - 1], p[k])
      /\ g[k] = IF k = 0 THEN ROOT ELSE StepIn(ks, es, g[k - 1], q[k])
  BY <1>1 DEF IsWalk
<1>3. CASE k = 0
  BY <1>1, <1>2, <1>3
<1>4. CASE k # 0
  <2>1. k - 1 \in 0 .. top /\ k - 1 \notin Bad /\ k \in 1 .. top
    BY <1>1, <1>4
  <2>2. f[k - 1] = g[k - 1] /\ p[k] = q[k]
    BY <2>1
  <2> QED BY <1>1, <1>2, <1>4, <2>2
<1> QED BY <1>3, <1>4

LEMMA WalkIs ==
  ASSUME NEW ks, NEW es, NEW path, Len(path) \in Nat
  PROVE  IsWalk(ks, es, path, Len(path), WalkIn(ks, es, path))
BY WalkExists DEF WalkIn

(* A path resolves to the step its last component makes from its parent.   *)
LEMMA ResolveStep ==
  ASSUME NEW ks, NEW es, NEW path \in Paths
  PROVE  ResolveIn(ks, es, path) = StepIn(ks, es, ResolveIn(ks, es, Parents(path)), Name(path))
<1> DEFINE n == Len(path)
           q == Parents(path)
<1>1. path \in Seq(STRING) /\ path # <<>>
  BY InputsAssumption
<1>2. n \in Nat \ {0}
  BY <1>1
<1>3. Len(q) = n - 1 /\ Len(q) \in Nat /\ \A m \in 1 .. n - 1 : path[m] = q[m]
  BY <1>1, <1>2 DEF Parents
<1>4. /\ IsWalk(ks, es, path, n, WalkIn(ks, es, path))
      /\ IsWalk(ks, es, q, n - 1, WalkIn(ks, es, q))
  BY <1>2, <1>3, WalkIs
<1> HIDE DEF n, q
<1>5. WalkIn(ks, es, path)[n - 1] = WalkIn(ks, es, q)[n - 1]
  BY <1>2, <1>3, <1>4, WalksAgree
<1>6. WalkIn(ks, es, path)[n] = StepIn(ks, es, WalkIn(ks, es, path)[n - 1], path[n])
  BY <1>2, <1>4 DEF IsWalk
<1> QED BY <1>3, <1>5, <1>6 DEF ResolveIn, Name, n, q

-----------------------------------------------------------------------------
(* Directories that only gain entries, all of them of inodes in use.       *)

Tree(ks, es) ==
  /\ ks \in [Inodes -> {"FREE", "FILE", "DIR"}]
  /\ es \in [Inodes -> Seq(Entry)]
  /\ ks[ROOT] = "DIR"
  /\ \A i \in Inodes : \A k \in DOMAIN es[i] : ks[es[i][k].inode] # "FREE"

Added(ks, es, ks2, es2) ==
  \A i \in Inodes : ks[i] # "FREE" =>
     /\ ks2[i] = ks[i]
     /\ Len(es[i]) <= Len(es2[i])
     /\ \A k \in DOMAIN es[i] : es2[i][k] = es[i][k]

InUse(ks, i) == i \in Inodes /\ ks[i] # "FREE"

LEMMA NoneIs == NONE \notin Inodes /\ ROOT \in Inodes
BY Sizes DEF NONE, ROOT, Inodes

(* An entry in range. *)
LEMMA EntryIs ==
  ASSUME NEW ks, NEW es, Tree(ks, es), NEW d \in Inodes, NEW k \in DOMAIN es[d]
  PROVE  /\ k \in 1 .. Len(es[d]) /\ Len(es[d]) \in Nat
         /\ es[d][k] \in Entry
         /\ InUse(ks, es[d][k].inode)
<1>1. es[d] \in Seq(Entry)
  BY DEF Tree
<1>2. es[d][k] \in Entry
  BY <1>1
<1>3. es[d][k].inode \in Inodes
  BY <1>2 DEF Entry
<1> QED BY <1>1, <1>2, <1>3 DEF Tree, InUse

(* The first entry of a name is what a lookup finds.                       *)
LEMMA LookupIs ==
  ASSUME NEW ks, NEW es, Tree(ks, es), NEW d \in Inodes, NEW name, ks[d] = "DIR",
         NEW k \in DOMAIN es[d], es[d][k].name = name,
         \A m \in DOMAIN es[d] : es[d][m].name = name => k <= m
  PROVE  LookupIn(ks, es, d, name) = es[d][k].inode
<1> DEFINE M == MatchesIn(ks, es, d, name)
<1>1. M = {m \in DOMAIN es[d] : es[d][m].name = name}
  BY EntryIs DEF MatchesIn, InUse
<1>2. k \in M /\ \A m \in M : k <= m
  BY <1>1
<1>3. \A m \in M : m \in Int
  BY <1>1, EntryIs
<1> HIDE DEF M
<1>4. ASSUME NEW c \in M, \A m \in M : c <= m PROVE c = k
  BY <1>2, <1>3, <1>4
<1>5. (CHOOSE c \in M : \A m \in M : c <= m) = k
  BY <1>2, <1>4
<1> QED BY <1>2, <1>5 DEF LookupIn, M

LEMMA LookupFinds ==
  ASSUME NEW ks, NEW es, Tree(ks, es), NEW d \in Inodes, NEW name, ks[d] = "DIR",
         NEW j \in DOMAIN es[d], es[d][j].name = name
  PROVE  \E k \in DOMAIN es[d] :
           /\ es[d][k].name = name
           /\ \A m \in DOMAIN es[d] : es[d][m].name = name => k <= m
           /\ LookupIn(ks, es, d, name) = es[d][k].inode
<1> DEFINE M == {m \in DOMAIN es[d] : es[d][m].name = name}
<1>1. M \in SUBSET Nat /\ M # {}
  BY EntryIs
<1>2. PICK k \in M : \A m \in M : k <= m
  <2> HIDE DEF M
  <2> QED BY <1>1, Least
<1>3. LookupIn(ks, es, d, name) = es[d][k].inode
  BY <1>2, LookupIs
<1> QED BY <1>2, <1>3

LEMMA LookupNone ==
  ASSUME NEW ks, NEW es, Tree(ks, es), NEW d \in Inodes, NEW name, ks[d] = "DIR"
  PROVE  LookupIn(ks, es, d, name) = NONE <=> \A k \in DOMAIN es[d] : es[d][k].name # name
<1>1. ASSUME NEW k \in DOMAIN es[d], es[d][k].name = name
      PROVE  LookupIn(ks, es, d, name) # NONE
  <2>1. PICK m \in DOMAIN es[d] : LookupIn(ks, es, d, name) = es[d][m].inode
    BY <1>1, LookupFinds
  <2> QED BY <2>1, EntryIs, NoneIs DEF InUse
<1>2. ASSUME \A k \in DOMAIN es[d] : es[d][k].name # name
      PROVE  LookupIn(ks, es, d, name) = NONE
  <2>1. MatchesIn(ks, es, d, name) = {}
    BY <1>2 DEF MatchesIn
  <2> QED BY <2>1 DEF LookupIn
<1> QED BY <1>1, <1>2

LEMMA LookupFound ==
  ASSUME NEW ks, NEW es, Tree(ks, es), NEW d \in Inodes, NEW name,
         LookupIn(ks, es, d, name) # NONE
  PROVE  \E k \in DOMAIN es[d] :
           /\ es[d][k].name = name
           /\ \A m \in DOMAIN es[d] : es[d][m].name = name => k <= m
           /\ LookupIn(ks, es, d, name) = es[d][k].inode
<1>1. ks[d] = "DIR"
  BY DEF LookupIn
<1>2. PICK j \in DOMAIN es[d] : es[d][j].name = name
  BY <1>1, LookupNone
<1> QED BY <1>1, <1>2, LookupFinds

(* One component: what it leads to, and that it still does.                *)
LEMMA StepTyped ==
  ASSUME NEW ks, NEW es, Tree(ks, es), NEW i, InUse(ks, i) \/ i = NONE, NEW name
  PROVE  StepIn(ks, es, i, name) = NONE \/ InUse(ks, StepIn(ks, es, i, name))
<1>1. CASE i = NONE \/ ks[i] # "DIR"
  BY <1>1 DEF StepIn
<1>2. CASE i # NONE /\ ks[i] = "DIR" /\ name = "."
  BY <1>2 DEF StepIn
<1>3. CASE i # NONE /\ ks[i] = "DIR" /\ name # "."
  <2>1. StepIn(ks, es, i, name) = LookupIn(ks, es, i, name) /\ i \in Inodes
    BY <1>3 DEF StepIn, InUse
  <2>2. ASSUME LookupIn(ks, es, i, name) # NONE
        PROVE  InUse(ks, LookupIn(ks, es, i, name))
    BY <2>1, <2>2, LookupFound, EntryIs
  <2> QED BY <2>1, <2>2
<1> QED BY <1>1, <1>2, <1>3

LEMMA StepKept ==
  ASSUME NEW ks, NEW es, NEW ks2, NEW es2, Tree(ks, es), Tree(ks2, es2),
         Added(ks, es, ks2, es2), NEW i, InUse(ks, i), NEW name,
         StepIn(ks, es, i, name) # NONE
  PROVE  StepIn(ks2, es2, i, name) = StepIn(ks, es, i, name)
<1>1. i # NONE /\ ks[i] = "DIR" /\ i \in Inodes
  BY DEF StepIn, InUse
<1>2. ks2[i] = "DIR"
  BY <1>1 DEF Added
<1>3. CASE name = "."
  BY <1>1, <1>2, <1>3 DEF StepIn
<1>4. CASE name # "."
  <2>1. /\ StepIn(ks, es, i, name) = LookupIn(ks, es, i, name)
        /\ StepIn(ks2, es2, i, name) = LookupIn(ks2, es2, i, name)
    BY <1>1, <1>2, <1>4 DEF StepIn
  <2>2. PICK k \in DOMAIN es[i] :
          /\ es[i][k].name = name
          /\ \A m \in DOMAIN es[i] : es[i][m].name = name => k <= m
          /\ LookupIn(ks, es, i, name) = es[i][k].inode
    BY <1>1, <2>1, LookupFound
  <2>3. /\ es[i] \in Seq(Entry) /\ es2[i] \in Seq(Entry)
        /\ Len(es[i]) <= Len(es2[i]) /\ \A m \in DOMAIN es[i] : es2[i][m] = es[i][m]
    BY <1>1 DEF Tree, Added
  <2>4. /\ k \in DOMAIN es2[i] /\ es2[i][k] = es[i][k]
        /\ \A m \in DOMAIN es2[i] : es2[i][m].name = name => k <= m
    <3>1. /\ DOMAIN es[i] = 1 .. Len(es[i]) /\ Len(es[i]) \in Nat
          /\ DOMAIN es2[i] = 1 .. Len(es2[i]) /\ Len(es2[i]) \in Nat
      BY <2>3
    <3>2. ASSUME NEW m \in DOMAIN es2[i], es2[i][m].name = name PROVE k <= m
      <4>1. CASE m \in DOMAIN es[i]
        BY <2>2, <2>3, <3>2, <4>1
      <4>2. CASE m \notin DOMAIN es[i]
        BY <3>1, <4>2
      <4> QED BY <4>1, <4>2
    <3> QED BY <2>3, <3>1, <3>2
  <2>5. LookupIn(ks2, es2, i, name) = es2[i][k].inode
    BY <1>1, <1>2, <2>2, <2>4, LookupIs
  <2> QED BY <2>1, <2>2, <2>4, <2>5
<1> QED BY <1>3, <1>4

(* Whole paths, by induction over their components.                        *)
LEMMA WalkTyped ==
  ASSUME NEW ks, NEW es, Tree(ks, es), NEW path, NEW n \in Nat, NEW f,
         IsWalk(ks, es, path, n, f)
  PROVE  \A k \in 0 .. n : f[k] = NONE \/ InUse(ks, f[k])
<1> DEFINE Bad == {k \in 0 .. n : ~ (f[k] = NONE \/ InUse(ks, f[k]))}
<1> SUFFICES ASSUME Bad # {} PROVE FALSE
  OBVIOUS
<1>1. PICK k \in Bad : \A m \in Bad : k <= m
  <2>1. Bad \in SUBSET Nat
    OBVIOUS
  <2> HIDE DEF Bad
  <2> QED BY <2>1, Least
<1>2. f[k] = IF k = 0 THEN ROOT ELSE StepIn(ks, es, f[k - 1], path[k])
  BY <1>1 DEF IsWalk
<1>3. CASE k = 0
  BY <1>1, <1>2, <1>3, NoneIs DEF Tree, InUse
<1>4. CASE k # 0
  <2>1. k - 1 \in 0 .. n /\ k - 1 \notin Bad
    BY <1>1, <1>4
  <2>2. f[k - 1] = NONE \/ InUse(ks, f[k - 1])
    BY <2>1
  <2> QED BY <1>1, <1>2, <1>4, <2>2, StepTyped
<1> QED BY <1>3, <1>4

LEMMA ResolveTyped ==
  ASSUME NEW ks, NEW es, Tree(ks, es), NEW path, Len(path) \in Nat
  PROVE  ResolveIn(ks, es, path) = NONE \/ InUse(ks, ResolveIn(ks, es, path))
BY WalkIs, WalkTyped DEF ResolveIn

LEMMA ResolveKept ==
  ASSUME NEW ks, NEW es, NEW ks2, NEW es2, Tree(ks, es), Tree(ks2, es2),
         Added(ks, es, ks2, es2), NEW path, Len(path) \in Nat,
         ResolveIn(ks, es, path) # NONE
  PROVE  ResolveIn(ks2, es2, path) = ResolveIn(ks, es, path)
<1> DEFINE n == Len(path)
           f == WalkIn(ks, es, path)
           g == WalkIn(ks2, es2, path)
           Bad == {k \in 0 .. n : f[k] # NONE /\ g[k] # f[k]}
<1>1. IsWalk(ks, es, path, n, f) /\ IsWalk(ks2, es2, path, n, g)
  BY WalkIs
<1> HIDE DEF n, f, g
<1>2. n \in Nat
  BY DEF n
<1>3. Bad = {}
  <2> SUFFICES ASSUME Bad # {} PROVE FALSE
    OBVIOUS
  <2>1. PICK k \in Bad : \A m \in Bad : k <= m
    <3>1. Bad \in SUBSET Nat
      OBVIOUS
    <3> HIDE DEF Bad
    <3> QED BY <3>1, Least
  <2>2. /\ f[k] = IF k = 0 THEN ROOT ELSE StepIn(ks, es, f[k - 1], path[k])
        /\ g[k] = IF k = 0 THEN ROOT ELSE StepIn(ks2, es2, g[k - 1], path[k])
    BY <1>1, <2>1 DEF IsWalk
  <2>3. k # 0
    BY <2>1, <2>2
  <2>4. k - 1 \in 0 .. n /\ k - 1 \notin Bad
    BY <1>2, <2>1, <2>3
  <2>5. f[k - 1] # NONE
    BY <2>1, <2>2, <2>3 DEF StepIn
  <2>6. g[k - 1] = f[k - 1] /\ InUse(ks, f[k - 1])
    BY <1>1, <1>2, <2>4, <2>5, WalkTyped
  <2>7. StepIn(ks2, es2, f[k - 1], path[k]) = StepIn(ks, es, f[k - 1], path[k])
    BY <2>1, <2>2, <2>3, <2>6, StepKept
  <2> QED BY <2>1, <2>2, <2>3, <2>6, <2>7
<1>4. n \in 0 .. n
  BY <1>2
<1>5. f[n] # NONE => g[n] = f[n]
  BY <1>3, <1>4
<1> QED BY <1>5 DEF ResolveIn, f, g, n

-----------------------------------------------------------------------------
(* Directories, and the free part of data_buf, from a state to a later.    *)

(* Directory d has no room for another entry. *)
Full(ks, es, free, d) ==
  ~ /\ ks[d] = "DIR"
    /\ Len(es[d]) < MAX_DIR_ENTRIES
    /\ es[d] = <<>> => free + DirBytes <= DATA_BUF_SIZE

Grows(ks, es, free, ks2, es2, free2) ==
  /\ Added(ks, es, ks2, es2)
  /\ free \in Nat /\ free2 \in Nat /\ free <= free2
  /\ \A d \in Inodes : InUse(ks, d) /\ Full(ks, es, free, d) => es2[d] = es[d]

(* No entry was made for the file path was to name, nor will one be.       *)
Lost(ks, es, free, path) ==
  /\ ResolveIn(ks, es, path) = NONE
  /\ ResolveIn(ks, es, Parents(path)) \in Inodes
  /\ Full(ks, es, free, ResolveIn(ks, es, Parents(path)))

(* The path names i, unless its directory had no room for the name.        *)
Reaches(ks, es, free, path, i) ==
  i \in Inodes /\ (ResolveIn(ks, es, path) = i \/ Lost(ks, es, free, path))

LEMMA PathLengths ==
  ASSUME NEW path \in Paths
  PROVE  Len(path) \in Nat /\ Len(Parents(path)) \in Nat
<1>1. path \in Seq(STRING) /\ path # <<>>
  BY InputsAssumption
<1> QED BY <1>1 DEF Parents

(* A name that found no room is not found later: there is no room later.   *)
LEMMA LostStays ==
  ASSUME NEW ks, NEW es, NEW free, NEW ks2, NEW es2, NEW free2,
         Tree(ks, es), Tree(ks2, es2), Grows(ks, es, free, ks2, es2, free2),
         NEW path \in Paths, Lost(ks, es, free, path)
  PROVE  Lost(ks2, es2, free2, path)
<1> DEFINE d == ResolveIn(ks, es, Parents(path))
           name == Name(path)
<1>1. d \in Inodes /\ d # NONE /\ Full(ks, es, free, d) /\ ResolveIn(ks, es, path) = NONE
  BY NoneIs DEF Lost
<1>2. InUse(ks, d) /\ ResolveIn(ks2, es2, Parents(path)) = d
  BY <1>1, PathLengths, ResolveTyped, ResolveKept DEF Grows
<1>3. /\ ResolveIn(ks, es, path) = StepIn(ks, es, d, name)
      /\ ResolveIn(ks2, es2, path) = StepIn(ks2, es2, d, name)
  BY <1>2, ResolveStep
<1> HIDE DEF d, name
<1>4. ks2[d] = ks[d] /\ es2[d] = es[d]
  BY <1>1, <1>2 DEF Grows, Added, InUse
<1>5. Full(ks2, es2, free2, d)
  <2>1. ASSUME NEW a \in Nat, NEW b \in Nat, NEW c \in Nat, NEW e \in Nat, a <= b, b + c <= e
        PROVE  a + c <= e
    BY ONLY <2>1
  <2>2. free2 + DirBytes <= DATA_BUF_SIZE => free + DirBytes <= DATA_BUF_SIZE
    BY <2>1, Sizes DEF Grows
  <2> QED BY ONLY <1>1, <1>4, <2>2 DEF Full
<1>6. ResolveIn(ks2, es2, path) = NONE
  <2>1. CASE ks[d] # "DIR"
    BY <1>3, <1>4, <2>1 DEF StepIn
  <2>2. CASE ks[d] = "DIR"
    <3>1. name # "." /\ LookupIn(ks, es, d, name) = NONE
      BY <1>1, <1>3, <2>2 DEF StepIn
    <3>2. LookupIn(ks2, es2, d, name) = NONE
      BY <1>1, <1>4, <2>2, <3>1, LookupNone
    <3> QED BY <1>3, <3>1, <3>2 DEF StepIn
  <2> QED BY <2>1, <2>2
<1> QED BY <1>1, <1>2, <1>5, <1>6 DEF Lost

LEMMA ReachesStays ==
  ASSUME NEW ks, NEW es, NEW free, NEW ks2, NEW es2, NEW free2,
         Tree(ks, es), Tree(ks2, es2), Grows(ks, es, free, ks2, es2, free2),
         NEW path \in Paths, NEW i, Reaches(ks, es, free, path, i)
  PROVE  Reaches(ks2, es2, free2, path, i)
<1>1. CASE ResolveIn(ks, es, path) = i
  <2>1. i \in Inodes /\ i # NONE
    BY NoneIs DEF Reaches
  <2> QED BY <1>1, <2>1, PathLengths, ResolveKept DEF Reaches, Grows
<1>2. CASE Lost(ks, es, free, path)
  BY <1>2, LostStays DEF Reaches
<1> QED BY <1>1, <1>2 DEF Reaches

-----------------------------------------------------------------------------
(* The same for a step: what calls do to the directories.                  *)

TreeNow == Tree(kind, entries)

Growing == Grows(kind, entries, next_free_offset, kind', entries', next_free_offset')

LEMMA PathIs ==
  ASSUME NEW path
  PROVE  /\ Resolve(path) = ResolveIn(kind, entries, path)
         /\ Parent(path) = ResolveIn(kind, entries, Parents(path))
BY ResolveIs DEF Parent, Parents

LEMMA FullIs ==
  ASSUME NEW d
  PROVE  HasRoom(Tables, kind, d) <=> ~Full(kind, entries, next_free_offset, d)
BY TablesFields DEF HasRoom, Full

LEMMA FsTyped ==
  ASSUME IInv
  PROVE  /\ kind \in [Inodes -> {"FREE", "FILE", "DIR"}]
         /\ entries \in [Inodes -> Seq(Entry)]
         /\ size \in [Inodes -> Nat]
         /\ next_free_offset \in Nat
         /\ fds \in [FDs -> Descriptors]
BY TablesFields, Sizes DEF IInv, References, Layout, LayoutTyped

LEMMA FsTypedNext ==
  ASSUME IInv'
  PROVE  /\ kind' \in [Inodes -> {"FREE", "FILE", "DIR"}]
         /\ entries' \in [Inodes -> Seq(Entry)]
         /\ next_free_offset' \in Nat
         /\ fds' \in [FDs -> Descriptors]
<1>1. Tables'.entries = entries' /\ Tables'.free = next_free_offset'
  BY DEF Tables
<1> QED BY <1>1, Sizes DEF IInv, References, Layout, LayoutTyped

(* The calls that leave the directories alone.                             *)
LEMMA SameGrows ==
  ASSUME TreeNow, UNCHANGED <<kind, entries>>,
         next_free_offset \in Nat, next_free_offset' \in Nat,
         next_free_offset <= next_free_offset'
  PROVE  Tree(kind', entries') /\ Growing
<1>1. \A i \in Inodes : Len(entries[i]) \in Nat
  BY DEF TreeNow, Tree
<1> QED BY <1>1 DEF TreeNow, Growing, Grows, Added

(* fs_open() that makes a file: the file is empty, and its path resolves   *)
(* to it unless its directory had no room for the name.                    *)
LEMMA CreateGrows ==
  ASSUME IInv, TreeNow, NEW path \in Paths, OpenCreate(path)
  PROVE  /\ Tree(kind', entries') /\ Growing
         /\ \E i \in Inodes, fd \in FDs \cup {NONE} :
              /\ FreeFd(fd) /\ fds' = Opened(fd, i)
              /\ size'[i] = 0
              /\ Reaches(kind', entries', next_free_offset', path, i)
<1> DEFINE d == Parent(path)
           name == Name(path)
<1>1. PICK i \in Inodes, fd \in FDs \cup {NONE} :
        /\ kind[i] = "FREE"
        /\ FreeFd(fd)
        /\ kind' = [kind EXCEPT ![i] = "FILE"]
        /\ size' = [size EXCEPT ![i] = 0]
        /\ Put(AddEntry(Cleared(i), kind', d, name, i))
        /\ fds' = Opened(fd, i)
  BY DEF OpenCreate, Allocates
<1>2. Resolve(path) = NONE /\ d \in Inodes
  BY DEF OpenCreate
<1>3. IInv'
  BY OpenCreateInv
<1>4. /\ kind \in [Inodes -> {"FREE", "FILE", "DIR"}] /\ entries \in [Inodes -> Seq(Entry)]
      /\ size \in [Inodes -> Nat] /\ next_free_offset \in Nat
      /\ Tree(kind, entries)
  BY FsTyped DEF TreeNow
<1>5. kind' \in [Inodes -> {"FREE", "FILE", "DIR"}] /\ entries' \in [Inodes -> Seq(Entry)]
  BY <1>3, FsTypedNext
<1>6. /\ Resolve(path) = StepIn(kind, entries, d, name)
      /\ d = ResolveIn(kind, entries, Parents(path))
      /\ Len(Parents(path)) \in Nat
  BY PathIs, PathLengths, ResolveStep
<1>7. InUse(kind, d) /\ d # i
  <2>1. d # NONE
    BY <1>2, NoneIs
  <2> QED BY <1>1, <1>4, <1>6, <2>1, ResolveTyped DEF InUse
<1> DEFINE t == Cleared(i)
<1>8. /\ t.entries = [entries EXCEPT ![i] = <<>>]
      /\ t.free = next_free_offset
  BY DEF Cleared, Tables
<1>9. /\ kind'[i] = "FILE" /\ \A j \in Inodes \ {i} : kind'[j] = kind[j]
      /\ t.entries[d] = entries[d]
  BY <1>1, <1>4, <1>7, <1>8 DEF InUse
<1>10. HasRoom(t, kind', d) <=> HasRoom(Tables, kind, d)
  BY <1>7, <1>8, <1>9, TablesFields DEF HasRoom, InUse
<1> HIDE DEF d, name, t
(* The entries, with and without room for the name. *)
<1>11. ASSUME HasRoom(Tables, kind, d)
       PROVE  /\ entries'[d] = Append(entries[d], [name |-> name, inode |-> i])
              /\ \A j \in Inodes \ {i, d} : entries'[j] = entries[j]
              /\ entries'[i] = <<>>
              /\ next_free_offset <= next_free_offset'
  <2>1. AddEntry(t, kind', d, name, i) =
          [entries |-> [t.entries EXCEPT ![d] = Append(@, [name |-> name, inode |-> i])],
           at |-> IF t.entries[d] = <<>> THEN [t.at EXCEPT ![d] = t.free] ELSE t.at,
           free |-> IF t.entries[d] = <<>> THEN t.free + DirBytes ELSE t.free]
    BY <1>10, <1>11 DEF AddEntry, AfterDir
  <2>2. /\ entries' = [t.entries EXCEPT ![d] = Append(@, [name |-> name, inode |-> i])]
        /\ next_free_offset' = IF t.entries[d] = <<>> THEN t.free + DirBytes ELSE t.free
    BY <1>1, <2>1 DEF Put, d, name, t
  <2>3. t.entries \in [Inodes -> Seq(Entry)]
    BY <1>4, <1>8
  <2>4. /\ entries'[d] = Append(t.entries[d], [name |-> name, inode |-> i])
        /\ \A j \in Inodes \ {d} : entries'[j] = t.entries[j]
    BY <1>2, <2>2, <2>3
  <2>5. t.entries[i] = <<>> /\ \A j \in Inodes \ {i} : t.entries[j] = entries[j]
    BY <1>4, <1>8
  <2>6. next_free_offset <= next_free_offset'
    BY <1>4, <1>8, <2>2, Sizes
  <2> QED BY <1>2, <1>7, <2>4, <2>5, <2>6
<1>12. ASSUME ~HasRoom(Tables, kind, d)
       PROVE  /\ \A j \in Inodes \ {i} : entries'[j] = entries[j]
              /\ entries'[i] = <<>>
              /\ next_free_offset' = next_free_offset
  <2>1. AddEntry(t, kind', d, name, i) = t
    BY <1>10, <1>12 DEF AddEntry
  <2>2. entries' = t.entries /\ next_free_offset' = t.free
    BY <1>1, <2>1 DEF Put, d, name, t
  <2> QED BY <1>4, <1>8, <2>2
<1>13. /\ \A j \in Inodes \ {i, d} : entries'[j] = entries[j]
       /\ entries'[i] = <<>>
       /\ \/ entries'[d] = Append(entries[d], [name |-> name, inode |-> i])
          \/ entries'[d] = entries[d] /\ ~HasRoom(Tables, kind, d)
       /\ next_free_offset <= next_free_offset'
  <2>1. CASE HasRoom(Tables, kind, d)
    BY <1>11, <2>1
  <2>2. CASE ~HasRoom(Tables, kind, d)
    BY <1>2, <1>4, <1>7, <1>12, <2>2
  <2> QED BY <2>1, <2>2
<1>14. \A j \in Inodes : InUse(kind, j) => j # i /\ kind'[j] = kind[j]
  BY <1>1, <1>9 DEF InUse
<1>15. /\ entries[d] \in Seq(Entry) /\ Len(entries[d]) \in Nat
       /\ DOMAIN entries[d] = 1 .. Len(entries[d])
  BY <1>2, <1>4
<1>16. ASSUME entries'[d] = Append(entries[d], [name |-> name, inode |-> i])
       PROVE  /\ Len(entries'[d]) = Len(entries[d]) + 1
              /\ DOMAIN entries'[d] = 1 .. Len(entries[d]) + 1
              /\ \A k \in DOMAIN entries[d] : entries'[d][k] = entries[d][k]
              /\ entries'[d][Len(entries[d]) + 1] = [name |-> name, inode |-> i]
  BY <1>15, <1>16
<1>17. Growing
  <2>1. ASSUME NEW j \in Inodes, kind[j] # "FREE"
        PROVE  /\ kind'[j] = kind[j]
               /\ Len(entries[j]) <= Len(entries'[j])
               /\ \A k \in DOMAIN entries[j] : entries'[j][k] = entries[j][k]
    <3>1. kind'[j] = kind[j] /\ j # i
      BY <1>14, <2>1 DEF InUse
    <3>2. CASE j = d
      BY <1>13, <1>15, <1>16, <3>1, <3>2
    <3>3. CASE j # d
      <4>1. entries'[j] = entries[j] /\ Len(entries[j]) \in Nat
        BY <1>4, <1>13, <3>1, <3>3
      <4> QED BY <3>1, <4>1
    <3> QED BY <3>2, <3>3
  <2>2. ASSUME NEW j \in Inodes, InUse(kind, j), Full(kind, entries, next_free_offset, j)
        PROVE  entries'[j] = entries[j]
    <3>1. j # i /\ ~HasRoom(Tables, kind, j)
      BY <1>14, <2>2, FullIs
    <3> QED BY <1>12, <1>13, <2>2, <3>1
  <2>3. next_free_offset' \in Nat
    BY <1>3, FsTypedNext
  <2> QED BY <1>4, <1>13, <2>1, <2>2, <2>3 DEF Growing, Grows, Added
<1>18. Tree(kind', entries')
  <2>1. kind'[ROOT] = "DIR"
    BY <1>4, <1>14, NoneIs DEF Tree, InUse
  <2>2. ASSUME NEW j \in Inodes, NEW k \in DOMAIN entries'[j]
        PROVE  kind'[entries'[j][k].inode] # "FREE"
    <3>1. ASSUME k \in DOMAIN entries[j], entries'[j][k] = entries[j][k]
          PROVE  kind'[entries'[j][k].inode] # "FREE"
      <4>1. InUse(kind, entries[j][k].inode)
        BY <1>4, <3>1, EntryIs
      <4> QED BY <1>14, <3>1, <4>1 DEF InUse
    <3>2. CASE j = i
      BY <1>13, <2>2, <3>2
    <3>3. CASE j # i /\ j # d
      BY <1>13, <2>2, <3>1, <3>3
    <3>4. CASE j = d /\ entries'[d] = entries[d]
      BY <2>2, <3>1, <3>4
    <3>5. CASE j = d /\ entries'[d] = Append(entries[d], [name |-> name, inode |-> i])
      <4>1. CASE k = Len(entries[d]) + 1
        BY <1>9, <1>16, <3>5, <4>1
      <4>2. CASE k # Len(entries[d]) + 1
        <5>1. k \in DOMAIN entries[d]
          BY <1>15, <1>16, <2>2, <3>5, <4>2
        <5> QED BY <1>16, <3>1, <3>5, <5>1
      <4> QED BY <4>1, <4>2
    <3> QED BY <1>13, <3>2, <3>3, <3>4, <3>5
  <2> QED BY <1>5, <2>1, <2>2 DEF Tree
<1>19. Reaches(kind', entries', next_free_offset', path, i)
  <2>1. ResolveIn(kind', entries', Parents(path)) = d
    <3>1. d # NONE
      BY <1>2, NoneIs
    <3> QED BY <1>4, <1>6, <1>17, <1>18, <3>1, ResolveKept DEF Growing, Grows
  <2>2. ResolveIn(kind', entries', path) = StepIn(kind', entries', d, name)
    BY <2>1, ResolveStep DEF name
  <2>3. kind'[d] = kind[d] /\ d # NONE
    BY <1>2, <1>7, <1>14, NoneIs
  <2>4. kind[d] = "DIR" => name # "." /\ LookupIn(kind, entries, d, name) = NONE
    BY <1>2, <1>6, <2>3 DEF StepIn
  <2>5. kind[d] = "DIR" => \A k \in DOMAIN entries[d] : entries[d][k].name # name
    BY <1>2, <1>4, <2>4, LookupNone
  <2>6. CASE HasRoom(Tables, kind, d)
    <3>1. kind[d] = "DIR"
      BY <2>6 DEF HasRoom
    <3> DEFINE last == Len(entries[d]) + 1
    <3>2. /\ last \in DOMAIN entries'[d]
          /\ entries'[d][last].name = name /\ entries'[d][last].inode = i
      BY <1>11, <1>15, <1>16, <2>6
    <3>3. ASSUME NEW m \in DOMAIN entries'[d], entries'[d][m].name = name
          PROVE  last <= m
      <4>1. m \notin DOMAIN entries[d]
        BY <1>11, <1>16, <2>5, <2>6, <3>1, <3>3
      <4> QED BY <1>11, <1>15, <1>16, <2>6, <4>1
    <3> HIDE DEF last
    <3>4. LookupIn(kind', entries', d, name) = i
      <4>1. Tree(kind', entries') /\ kind'[d] = "DIR"
        BY <1>18, <2>3, <3>1
      <4> QED BY <1>2, <3>2, <3>3, <4>1, LookupIs
    <3>5. ResolveIn(kind', entries', path) = i
      BY <2>2, <2>3, <2>4, <3>1, <3>4 DEF StepIn
    <3> QED BY <3>5 DEF Reaches
  <2>7. CASE ~HasRoom(Tables, kind, d)
    <3>1. entries'[d] = entries[d] /\ next_free_offset' = next_free_offset
      BY <1>2, <1>7, <1>12, <2>7
    <3>2. ResolveIn(kind', entries', path) = NONE
      <4>1. CASE kind[d] # "DIR"
        BY <2>2, <2>3, <4>1 DEF StepIn
      <4>2. CASE kind[d] = "DIR"
        <5>1. LookupIn(kind', entries', d, name) = NONE
          BY <1>2, <1>18, <2>3, <2>5, <3>1, <4>2, LookupNone
        <5> QED BY <2>2, <2>4, <4>2, <5>1 DEF StepIn
      <4> QED BY <4>1, <4>2
    <3>3. Full(kind', entries', next_free_offset', d)
      BY <2>3, <2>7, <3>1, FullIs DEF Full
    <3> QED BY <1>2, <2>1, <3>2, <3>3 DEF Reaches, Lost
  <2> QED BY <2>6, <2>7
<1>20. size'[i] = 0
  BY <1>1, <1>4
<1> QED BY <1>1, <1>17, <1>18, <1>19, <1>20

-----------------------------------------------------------------------------
(* The inductive invariant.  Each part says for one descriptor, or for the *)
(* command, what holds at every label of the shell.                        *)

(* The labels between the reading of a command and the start of its        *)
(* program, and those between an open() and the close() that goes with it. *)
Redirecting == {"save_in", "save_out", "open_in", "dup_in", "close_in",
                "open_out", "dup_out", "close_out", "fork"}
Moving == {"dup_in", "close_in", "dup_out", "close_out"}

StartOf(i) == [inode |-> i, offset |-> 0]

(* A descriptor without a file has no offset either. *)
NoOffset ==
  \A d \in FDs : /\ fds[d].inode = CLOSED => fds[d] = Closed
                 /\ fds[d].inode = TERMINAL => fds[d] = Terminal

(* The two descriptors the shell keeps its terminal in. *)
InputKept ==
  /\ pc \notin {"restore_out", "drop_out", "prompt", "save_in"} =>
       saved_in = SavedIn /\ fds[SavedIn] = Terminal
  /\ pc \in {"restore_out", "drop_out", "prompt", "save_in"} => fds[SavedIn] = Closed

OutputKept ==
  /\ pc \notin {"prompt", "save_in", "save_out"} =>
       saved_out = SavedOut /\ fds[SavedOut] = Terminal
  /\ pc \in {"prompt", "save_in", "save_out"} => fds[SavedOut] = Closed

(* The descriptors 0 and 1: at the terminal, or redirected. *)
InputPlain ==
  \/ pc \in {"prompt", "save_in", "save_out", "open_in", "dup_in", "drop_in",
             "restore_out", "drop_out"}
  \/ pc \in {"open_out", "dup_out", "close_out", "fork"} /\ command.in = NoPath

InputMoved ==
  pc \in {"close_in", "open_out", "dup_out", "close_out", "fork"} /\ command.in # NoPath

Input ==
  /\ InputPlain => fds[0] = Terminal
  /\ InputMoved => \E i \in Inodes : /\ ResolveIn(kind, entries, command.in) = i
                                     /\ fds[0] = StartOf(i)

OutputPlain ==
  \/ pc \in {"prompt", "save_in", "save_out", "open_in", "dup_in", "close_in",
             "open_out", "dup_out", "drop_out"}
  \/ pc = "fork" /\ command.out = NoPath

(* Descriptor d is at the start of an empty file, the one path names.      *)
Emptied(d, path) ==
  \E i \in Inodes : /\ Reaches(kind, entries, next_free_offset, path, i)
                    /\ fds[d] = StartOf(i)
                    /\ size[i] = 0

Output ==
  /\ OutputPlain => fds[1] = Terminal
  /\ pc \in {"close_out", "fork"} /\ command.out # NoPath => Emptied(1, command.out)

(* What was opened, before it is moved to 0 or 1. *)
OpenedFile ==
  /\ pc \notin Moving => opened = NONE
  /\ pc \in Moving => opened \in Others /\ before[opened] = Closed
  /\ pc \in {"dup_in", "close_in"} =>
       \E i \in Inodes : /\ ResolveIn(kind, entries, command.in) = i
                         /\ fds[opened] = StartOf(i)
  /\ pc \in {"dup_out", "close_out"} => Emptied(opened, command.out)

(* The other descriptors are as they were. *)
OthersKept == pc \in Redirecting => \A d \in Others : d # opened => fds[d] = before[d]

(* The labels a command leads to. *)
Asked ==
  /\ pc \in {"open_in", "dup_in", "close_in"} => command.in # NoPath
  /\ pc \in {"open_out", "dup_out", "close_out"} => command.out # NoPath

(* The two sides of a pipe. *)
Piped ==
  /\ right # NoCommand => /\ right.in = Pipe
                          /\ pc \in Redirecting => command.out = Pipe
  /\ handed # NONE => /\ Reaches(kind, entries, next_free_offset, Pipe, handed)
                      /\ pc \in Redirecting => right = NoCommand /\ command.in = Pipe

ShellTyped ==
  /\ pc \in Labels
  /\ command \in Commands /\ right \in Commands
  /\ saved_in \in {0, SavedIn} /\ saved_out \in {1, SavedOut}
  /\ opened \in FDs \cup {NONE}
  /\ before \in [Others -> Descriptors]
  /\ handed \in Inodes \cup {NONE}

FsInv == IInv /\ TreeNow

Redirection ==
  /\ ShellTyped /\ NoOffset
  /\ InputKept /\ OutputKept
  /\ Input /\ Output
  /\ OpenedFile /\ OthersKept
  /\ Asked /\ Piped

ShellInv == FsInv /\ Redirection

-----------------------------------------------------------------------------
(* The calls, by what they do to descriptors.                              *)

LEMMA FdNumbers ==
  /\ {0, 1, SavedIn, SavedOut} \subseteq FDs
  /\ SavedIn \notin {0, 1, SavedOut} /\ SavedOut \notin {0, 1, SavedIn}
  /\ 0 # 1
  /\ Others \subseteq FDs
  /\ \A d \in Others : d \notin {0, 1, SavedIn, SavedOut}
  /\ NONE \notin FDs
BY SavedAssumption, SizesAssumption DEF FDs, Others, NONE

LEMMA PathNumbers ==
  /\ NoPath \notin Paths /\ Pipe \in Paths
  /\ NoCommand \in Commands /\ NoCommand.in = NoPath /\ NoCommand.out = NoPath
  /\ \A c \in Commands : /\ c.in # NoPath => c.in \in Paths
                         /\ c.out # NoPath => c.out \in Paths
BY InputsAssumption, PipeAssumption DEF NoPath, NoCommand, Commands

LEMMA FdValues ==
  /\ Closed \in Descriptors /\ Terminal \in Descriptors /\ Closed # Terminal
  /\ Closed.inode = CLOSED /\ Terminal.inode = TERMINAL /\ CLOSED # TERMINAL
  /\ CLOSED \notin Inodes /\ TERMINAL \notin Inodes
  /\ \A i \in Inodes : StartOf(i) \in Descriptors /\ StartOf(i).inode = i
BY SizesAssumption
   DEF Closed, Terminal, CLOSED, TERMINAL, Descriptors, Inodes, StartOf

(* Nothing happens to files or directories. *)
Quiet == UNCHANGED <<kind, size, entries, next_free_offset>>

LEMMA QuietGrows ==
  ASSUME FsInv, Quiet
  PROVE  Tree(kind', entries') /\ Growing
<1>1. next_free_offset \in Nat /\ next_free_offset' = next_free_offset /\ TreeNow
  BY FsTyped DEF Quiet, FsInv
<1> QED BY <1>1, SameGrows DEF Quiet

LEMMA FsStep ==
  ASSUME FsInv, [Next]_vars, Tree(kind', entries')
  PROVE  FsInv'
<1>1. IInv'
  BY NextInv DEF FsInv
<1> QED BY <1>1 DEF FsInv, TreeNow

LEMMA CallDup2Is ==
  ASSUME FsInv, NEW old \in FDs, NEW new \in FDs, old # new, CallDup2(old, new)
  PROVE  /\ [Next]_vars /\ Quiet
         /\ fds' = IF Valid(old) THEN [fds EXCEPT ![new] = fds[old]] ELSE fds
<1>1. CASE Valid(old)
  <2>1. Dup2(old, new)
    BY <1>1 DEF CallDup2
  <2>2. Next
    BY <2>1 DEF Next
  <2> QED BY <1>1, <2>1, <2>2 DEF Dup2, Quiet, dataVars
<1>2. CASE ~Valid(old)
  BY <1>2 DEF CallDup2, fsVars, vars, Quiet
<1> QED BY <1>1, <1>2

LEMMA CallCloseIs ==
  ASSUME FsInv, NoOffset, NEW d \in FDs, CallClose(d)
  PROVE  /\ [Next]_vars /\ Quiet
         /\ fds' = [fds EXCEPT ![d] = Closed]
<1>1. CASE Valid(d)
  <2>1. Close(d)
    BY <1>1 DEF CallClose
  <2>2. Next
    BY <2>1 DEF Next
  <2> QED BY <2>1, <2>2 DEF Close, Quiet, dataVars
<1>2. CASE ~Valid(d)
  <2>1. UNCHANGED fsVars
    BY <1>2 DEF CallClose
  <2>2. fds[d] = Closed /\ fds \in [FDs -> Descriptors]
    BY <1>2, FsTyped DEF Valid, NoOffset, FsInv
  <2>3. fds' = [fds EXCEPT ![d] = Closed]
    BY <2>1, <2>2 DEF fsVars
  <2> QED BY <2>1, <2>3 DEF fsVars, vars, Quiet
<1> QED BY <1>1, <1>2

(* The descriptor that open() picks. *)
LEMMA FreeFdIs ==
  ASSUME NEW d \in FDs \cup {NONE}, FreeFd(d)
  PROVE  /\ d # NONE => d \in FDs \ {0, 1} /\ fds[d].inode = CLOSED
         /\ \A e \in FDs \cup {NONE} : FreeFd(e) => e = d
BY SavedAssumption, SizesAssumption DEF FreeFd, Valid, FDs, NONE

LEMMA OpenedIs ==
  ASSUME FsInv, NEW i, NEW d \in FDs \cup {NONE}, FreeFd(d), fds' = Opened(d, i),
         \E e \in FDs \cup {NONE} : Opens(e)
  PROVE  /\ opened' = d
         /\ \/ opened' = NONE /\ fds' = fds
            \/ /\ opened' \in FDs \ {0, 1}
               /\ fds[opened'].inode = CLOSED
               /\ fds' = [fds EXCEPT ![opened'] = StartOf(i)]
<1>1. opened' = d
  BY FreeFdIs DEF Opens
<1> QED BY <1>1, FreeFdIs DEF Opened, StartOf

LEMMA CallOpenInIs ==
  ASSUME FsInv, NEW path \in Paths, CallOpenIn(path)
  PROVE  /\ [Next]_vars /\ Quiet
         /\ \/ opened' = NONE /\ fds' = fds
            \/ \E i \in Inodes : /\ ResolveIn(kind, entries, path) = i
                                 /\ opened' \in FDs \ {0, 1}
                                 /\ fds[opened'].inode = CLOSED
                                 /\ fds' = [fds EXCEPT ![opened'] = StartOf(i)]
<1> DEFINE i == Resolve(path)
<1>1. CASE i # NONE /\ kind[i] = "FILE"
  <2>1. OpenExisting(path, FALSE) /\ \E e \in FDs \cup {NONE} : Opens(e)
    BY <1>1 DEF CallOpenIn
  <2>2. Next
    BY <2>1 DEF Next
  <2>3. /\ i \in Inodes /\ size' = [size EXCEPT ![i] = size[i]]
        /\ UNCHANGED <<kind, entries, next_free_offset>>
    BY <2>1 DEF OpenExisting, dataVars
  <2>4. PICK d \in FDs \cup {NONE} : FreeFd(d) /\ fds' = Opened(d, i)
    BY <2>1 DEF OpenExisting
  <2>5. ResolveIn(kind, entries, path) = i
    BY PathIs
  <2> HIDE DEF i
  <2>6. size' = size
    BY <2>3, FsTyped DEF FsInv
  <2> QED BY <2>1, <2>2, <2>3, <2>4, <2>5, <2>6, OpenedIs DEF Quiet
<1>2. CASE ~ (i # NONE /\ kind[i] = "FILE")
  BY <1>2 DEF CallOpenIn, fsVars, vars, Quiet
<1> QED BY <1>1, <1>2

LEMMA CallOpenOutIs ==
  ASSUME FsInv, NEW path \in Paths, CallOpenOut(path)
  PROVE  /\ [Next]_vars /\ Tree(kind', entries') /\ Growing
         /\ \/ opened' = NONE /\ fds' = fds
            \/ \E i \in Inodes : /\ Reaches(kind', entries', next_free_offset', path, i)
                                 /\ size'[i] = 0
                                 /\ opened' \in FDs \ {0, 1}
                                 /\ fds[opened'].inode = CLOSED
                                 /\ fds' = [fds EXCEPT ![opened'] = StartOf(i)]
<1> DEFINE Effect ==
             \/ opened' = NONE /\ fds' = fds
             \/ \E i \in Inodes : /\ Reaches(kind', entries', next_free_offset', path, i)
                                  /\ size'[i] = 0
                                  /\ opened' \in FDs \ {0, 1}
                                  /\ fds[opened'].inode = CLOSED
                                  /\ fds' = [fds EXCEPT ![opened'] = StartOf(i)]
<1>1. CASE CanOpenOut(path) /\ OpenCreate(path)
  <2>1. \E e \in FDs \cup {NONE} : Opens(e)
    BY <1>1 DEF CallOpenOut
  <2>2. Next
    BY <1>1 DEF Next
  <2>3. Tree(kind', entries') /\ Growing
    BY <1>1, CreateGrows DEF FsInv
  <2>4. PICK i \in Inodes, d \in FDs \cup {NONE} :
          /\ FreeFd(d) /\ fds' = Opened(d, i)
          /\ size'[i] = 0
          /\ Reaches(kind', entries', next_free_offset', path, i)
    BY <1>1, CreateGrows DEF FsInv
  <2>5. Effect
    BY <2>1, <2>4, OpenedIs
  <2> QED BY <2>2, <2>3, <2>5
<1>2. CASE CanOpenOut(path) /\ OpenExisting(path, TRUE)
  <2> DEFINE i == Resolve(path)
  <2>1. \E e \in FDs \cup {NONE} : Opens(e)
    BY <1>2 DEF CallOpenOut
  <2>2. Next
    BY <1>2 DEF Next
  <2>3. /\ i \in Inodes /\ size' = [size EXCEPT ![i] = 0]
        /\ UNCHANGED <<kind, entries, next_free_offset>>
    BY <1>2 DEF OpenExisting, dataVars
  <2>4. PICK d \in FDs \cup {NONE} : FreeFd(d) /\ fds' = Opened(d, i)
    BY <1>2 DEF OpenExisting
  <2>5. ResolveIn(kind, entries, path) = i
    BY PathIs
  <2> HIDE DEF i
  <2>6. Tree(kind', entries') /\ Growing
    BY <2>3, FsTyped, SameGrows DEF FsInv
  <2>7. /\ Reaches(kind', entries', next_free_offset', path, i)
        /\ size'[i] = 0
    BY <2>3, <2>5, FsTyped DEF FsInv, Reaches
  <2>8. Effect
    BY <2>1, <2>3, <2>4, <2>7, OpenedIs
  <2> QED BY <2>2, <2>6, <2>8
<1>3. CASE ~CanOpenOut(path)
  <2>1. opened' = NONE /\ UNCHANGED fsVars
    BY <1>3 DEF CallOpenOut
  <2>2. Tree(kind', entries') /\ Growing
    BY <2>1, QuietGrows DEF fsVars, Quiet
  <2> QED BY <2>1, <2>2 DEF fsVars, vars
<1> QED BY <1>1, <1>2, <1>3 DEF CallOpenOut

-----------------------------------------------------------------------------
(* One lemma per action: it is a step of the file system, or none, and     *)
(* keeps the invariant.                                                    *)

LEMMA ShellTypes ==
  ASSUME ShellInv
  PROVE  /\ FsInv /\ ShellTyped /\ NoOffset
         /\ fds \in [FDs -> Descriptors]
BY FsTyped DEF ShellInv, Redirection, FsInv

(* A step that leaves files and directories alone. *)
LEMMA QuietStep ==
  ASSUME ShellInv, [Next]_vars, Quiet
  PROVE  FsInv'
BY ShellTypes, QuietGrows, FsStep

LEMMA PromptStep ==
  ASSUME ShellInv, Prompt
  PROVE  [Next]_vars /\ ShellInv'
<1>1. PICK c \in Commands :
        /\ command' = c
        /\ before' = [d \in Others |-> fds[d]]
        /\ \/ right' = NoCommand
           \/ c.out = Pipe /\ right' \in {r \in Commands : r.in = Pipe}
  BY DEF Prompt, Starts
<1>2. /\ pc = "prompt" /\ pc' = "save_in" /\ handed' = NONE
      /\ UNCHANGED <<saved_in, saved_out, opened>>
      /\ UNCHANGED <<kind, size, entries, next_free_offset, fds>>
      /\ [Next]_vars /\ Quiet
  BY <1>1 DEF Prompt, Starts, locals, fsVars, vars, Quiet
<1>3. FsInv'
  BY <1>2, QuietStep
<1>4. ShellTyped' /\ NoOffset'
  BY <1>1, <1>2, ShellTypes, FdNumbers, PathNumbers DEF ShellTyped, NoOffset, Labels
<1>5. InputKept' /\ OutputKept' /\ Input' /\ Output'
  BY <1>2 DEF ShellInv, Redirection, InputKept, OutputKept, Input, Output,
              InputPlain, InputMoved, OutputPlain
<1>6. OpenedFile' /\ OthersKept'
  BY <1>1, <1>2 DEF ShellInv, Redirection, OpenedFile, OthersKept, Moving
<1>7. Asked' /\ Piped'
  BY <1>1, <1>2, PathNumbers DEF Asked, Piped
<1> QED BY <1>2, <1>3, <1>4, <1>5, <1>6, <1>7 DEF ShellInv, Redirection

LEMMA SaveInStep ==
  ASSUME ShellInv, SaveIn
  PROVE  [Next]_vars /\ ShellInv'
<1>1. /\ fds \in [FDs -> Descriptors] /\ fds[0] = Terminal /\ Valid(0)
      /\ pc = "save_in" /\ pc' = "save_out"
  BY ShellTypes, FdValues
     DEF ShellInv, Redirection, Input, InputPlain, SaveIn, Valid
<1>2. [Next]_vars /\ Quiet /\ fds' = [fds EXCEPT ![SavedIn] = Terminal]
  BY <1>1, ShellTypes, CallDup2Is, FdNumbers DEF SaveIn
<1>3. /\ saved_in' = SavedIn
      /\ UNCHANGED <<command, right, before, handed, saved_out, opened>>
  BY <1>1 DEF SaveIn, Saved, progress
<1>4. FsInv'
  BY <1>2, QuietStep
<1>5. ShellTyped' /\ NoOffset'
  BY <1>1, <1>2, <1>3, ShellTypes, FdNumbers, FdValues DEF ShellTyped, NoOffset, Labels
<1>6. InputKept' /\ OutputKept' /\ Input' /\ Output'
  BY <1>1, <1>2, <1>3, FdNumbers
     DEF ShellInv, Redirection, InputKept, OutputKept, Input, Output,
         InputPlain, InputMoved, OutputPlain
<1>7. OpenedFile' /\ OthersKept'
  BY <1>1, <1>2, <1>3, FdNumbers
     DEF ShellInv, Redirection, OpenedFile, OthersKept, Moving, Redirecting
<1>8. Asked' /\ Piped'
  BY <1>1, <1>2, <1>3 DEF ShellInv, Redirection, Asked, Piped, Quiet, Redirecting
<1> QED BY <1>2, <1>4, <1>5, <1>6, <1>7, <1>8 DEF ShellInv, Redirection

LEMMA SaveOutStep ==
  ASSUME ShellInv, SaveOut
  PROVE  [Next]_vars /\ ShellInv'
<1>1. /\ fds \in [FDs -> Descriptors] /\ fds[1] = Terminal /\ Valid(1)
      /\ pc = "save_out"
  BY ShellTypes, FdValues
     DEF ShellInv, Redirection, Output, OutputPlain, SaveOut, Valid
<1>2. [Next]_vars /\ Quiet /\ fds' = [fds EXCEPT ![SavedOut] = Terminal]
  BY <1>1, ShellTypes, CallDup2Is, FdNumbers DEF SaveOut
<1>3. /\ saved_out' = SavedOut
      /\ UNCHANGED <<command, right, before, handed, saved_in, opened>>
  BY <1>1 DEF SaveOut, Saved, progress
<1>4. \/ pc' = "restore_in"
      \/ pc' = "open_in" /\ command.in # NoPath
      \/ pc' = "open_out" /\ command.in = NoPath /\ command.out # NoPath
      \/ pc' = "fork" /\ command.in = NoPath /\ command.out = NoPath
  <2>1. command.blank \in BOOLEAN
    BY ShellTypes DEF ShellTyped, Commands
  <2> QED BY <2>1 DEF SaveOut
<1>5. FsInv'
  BY <1>2, QuietStep
<1>6. ShellTyped' /\ NoOffset'
  BY <1>1, <1>2, <1>3, <1>4, ShellTypes, FdNumbers, FdValues DEF ShellTyped, NoOffset, Labels
<1>7. InputKept' /\ OutputKept'
  BY <1>1, <1>2, <1>3, <1>4, FdNumbers
     DEF ShellInv, Redirection, InputKept, OutputKept
<1>8. Input' /\ Output'
  BY <1>1, <1>2, <1>3, <1>4, FdNumbers
     DEF ShellInv, Redirection, Input, Output, InputPlain, InputMoved, OutputPlain
<1>9. OpenedFile' /\ OthersKept'
  BY <1>1, <1>2, <1>3, <1>4, FdNumbers
     DEF ShellInv, Redirection, OpenedFile, OthersKept, Moving, Redirecting
<1>10. Asked' /\ Piped'
  BY <1>1, <1>2, <1>3, <1>4 DEF ShellInv, Redirection, Asked, Piped, Quiet, Redirecting
<1> QED BY <1>2, <1>5, <1>6, <1>7, <1>8, <1>9, <1>10 DEF ShellInv, Redirection

(* What an open() of the shell returns is none of the descriptors it       *)
(* redirects or keeps its terminal in.                                     *)
LEMMA FreeIsOther ==
  ASSUME ShellInv, pc \in {"open_in", "open_out"},
         NEW d \in FDs \ {0, 1}, fds[d].inode = CLOSED
  PROVE  d \in Others /\ fds[d] = Closed /\ before[d] = Closed
<1>1. fds[SavedIn] = Terminal /\ fds[SavedOut] = Terminal
  BY DEF ShellInv, Redirection, InputKept, OutputKept
<1>2. d \in Others /\ fds[d] = Closed
  BY <1>1, ShellTypes, FdValues DEF NoOffset, Others
<1>3. opened = NONE
  BY DEF ShellInv, Redirection, OpenedFile, Moving
<1>4. before[d] = fds[d]
  BY <1>2, <1>3, FdNumbers DEF ShellInv, Redirection, OthersKept, Redirecting
<1> QED BY <1>2, <1>4

LEMMA OpenInStep ==
  ASSUME ShellInv, OpenIn
  PROVE  [Next]_vars /\ ShellInv'
<1>1. /\ fds \in [FDs -> Descriptors] /\ command.in \in Paths
      /\ pc = "open_in" /\ pc' = AfterOpenIn
      /\ UNCHANGED <<command, right, before, handed, saved_in, saved_out>>
  BY ShellTypes, PathNumbers
     DEF ShellInv, Redirection, Asked, ShellTyped, OpenIn, progress
<1>2. /\ [Next]_vars /\ Quiet
      /\ \/ opened' = NONE /\ fds' = fds
         \/ \E i \in Inodes : /\ ResolveIn(kind, entries, command.in) = i
                              /\ opened' \in FDs \ {0, 1}
                              /\ fds[opened'].inode = CLOSED
                              /\ fds' = [fds EXCEPT ![opened'] = StartOf(i)]
  BY <1>1, ShellTypes, CallOpenInIs DEF OpenIn
<1>3. FsInv'
  BY <1>2, QuietStep
<1>4. Piped'
  BY <1>1, <1>2, FdNumbers
     DEF ShellInv, Redirection, Piped, Quiet, Redirecting, AfterOpenIn
<1>5. CASE opened' = NONE /\ fds' = fds
  <2>1. pc' = "restore_in"
    BY <1>1, <1>5 DEF AfterOpenIn
  <2>2. ShellTyped' /\ NoOffset'
    BY <1>1, <1>5, <2>1, ShellTypes DEF ShellTyped, NoOffset, Labels
  <2>3. InputKept' /\ OutputKept' /\ Input' /\ Output'
    BY <1>1, <1>5, <2>1
       DEF ShellInv, Redirection, InputKept, OutputKept, Input, Output,
           InputPlain, InputMoved, OutputPlain
  <2>4. OpenedFile' /\ OthersKept' /\ Asked'
    BY <1>5, <2>1 DEF OpenedFile, OthersKept, Asked, Moving, Redirecting
  <2> QED BY <1>2, <1>3, <1>4, <2>2, <2>3, <2>4 DEF ShellInv, Redirection
<1>6. ASSUME NEW i \in Inodes, ResolveIn(kind, entries, command.in) = i,
             opened' \in FDs \ {0, 1}, fds[opened'].inode = CLOSED,
             fds' = [fds EXCEPT ![opened'] = StartOf(i)]
      PROVE  Redirection'
  <2>1. opened' \in Others /\ before[opened'] = Closed
    BY <1>1, <1>6, FreeIsOther
  <2>2. pc' = "dup_in" /\ opened' # NONE
    BY <1>1, <1>6, FdNumbers DEF AfterOpenIn
  <2>3. ShellTyped' /\ NoOffset'
    BY <1>1, <1>6, <2>2, ShellTypes, FdValues DEF ShellTyped, NoOffset, Labels
  <2>4. InputKept' /\ OutputKept' /\ Input' /\ Output'
    BY <1>1, <1>6, <2>1, <2>2, FdNumbers
       DEF ShellInv, Redirection, InputKept, OutputKept, Input, Output,
           InputPlain, InputMoved, OutputPlain
  <2>5. OpenedFile'
    <3>1. fds'[opened'] = StartOf(i)
      BY <1>1, <1>6
    <3>2. ResolveIn(kind', entries', command'.in) = i
      BY <1>1, <1>2, <1>6 DEF Quiet
    <3> QED BY <1>1, <1>6, <2>1, <2>2, <3>1, <3>2 DEF OpenedFile, Moving
  <2>6. OthersKept'
    <3>1. opened = NONE
      BY <1>1 DEF ShellInv, Redirection, OpenedFile, Moving
    <3> QED BY <1>1, <1>6, <2>1, <2>2, <3>1, FdNumbers
            DEF ShellInv, Redirection, OthersKept, Redirecting
  <2>7. Asked'
    BY <1>1, <2>2 DEF ShellInv, Redirection, Asked
  <2> QED BY <1>4, <2>3, <2>4, <2>5, <2>6, <2>7 DEF Redirection
<1> QED BY <1>2, <1>3, <1>5, <1>6 DEF ShellInv

LEMMA DupInStep ==
  ASSUME ShellInv, DupIn
  PROVE  [Next]_vars /\ ShellInv'
<1>1. /\ fds \in [FDs -> Descriptors] /\ pc = "dup_in" /\ pc' = "close_in"
      /\ UNCHANGED <<command, right, before, handed, saved_in, saved_out, opened>>
  BY ShellTypes DEF DupIn, progress, locals
<1>2. PICK i \in Inodes : /\ ResolveIn(kind, entries, command.in) = i
                          /\ fds[opened] = StartOf(i)
  BY <1>1 DEF ShellInv, Redirection, OpenedFile
<1>3. opened \in Others /\ before[opened] = Closed
  BY <1>1 DEF ShellInv, Redirection, OpenedFile, Moving
<1>4. Valid(opened)
  BY <1>2, FdValues DEF Valid
<1>5. [Next]_vars /\ Quiet /\ fds' = [fds EXCEPT ![0] = StartOf(i)]
  BY <1>2, <1>3, <1>4, ShellTypes, CallDup2Is, FdNumbers DEF DupIn
<1>6. FsInv'
  BY <1>5, QuietStep
<1>7. ShellTyped' /\ NoOffset'
  BY <1>1, <1>5, ShellTypes, FdValues DEF ShellTyped, NoOffset, Labels
<1>8. InputKept' /\ OutputKept' /\ Output'
  BY <1>1, <1>5, FdNumbers
     DEF ShellInv, Redirection, InputKept, OutputKept, Output, OutputPlain
<1>9. Input'
  <2>1. ResolveIn(kind', entries', command'.in) = i /\ fds'[0] = StartOf(i)
    BY <1>1, <1>2, <1>5, FdNumbers DEF Quiet
  <2> QED BY <1>1, <2>1 DEF Input, InputPlain, InputMoved
<1>10. OpenedFile'
  <2>1. ResolveIn(kind', entries', command'.in) = i /\ fds'[opened'] = StartOf(i)
    BY <1>1, <1>2, <1>3, <1>5, FdNumbers DEF Quiet
  <2> QED BY <1>1, <1>3, <2>1 DEF OpenedFile, Moving
<1>11. OthersKept' /\ Asked' /\ Piped'
  BY <1>1, <1>5, FdNumbers
     DEF ShellInv, Redirection, OthersKept, Asked, Piped, Quiet, Redirecting
<1> QED BY <1>5, <1>6, <1>7, <1>8, <1>9, <1>10, <1>11 DEF ShellInv, Redirection

LEMMA CloseInStep ==
  ASSUME ShellInv, CloseIn
  PROVE  [Next]_vars /\ ShellInv'
<1>1. /\ fds \in [FDs -> Descriptors] /\ pc = "close_in" /\ pc' = AfterIn
      /\ opened' = NONE
      /\ UNCHANGED <<command, right, before, handed, saved_in, saved_out>>
  BY ShellTypes DEF CloseIn, progress
<1>2. opened \in Others /\ before[opened] = Closed
  BY <1>1 DEF ShellInv, Redirection, OpenedFile, Moving
<1>3. [Next]_vars /\ Quiet /\ fds' = [fds EXCEPT ![opened] = Closed]
  BY <1>2, ShellTypes, CallCloseIs, FdNumbers DEF CloseIn
<1>4. /\ command.in # NoPath
      /\ \/ pc' = "fork" /\ command.out = NoPath
         \/ pc' = "open_out" /\ command.out # NoPath
  BY <1>1 DEF AfterIn, ShellInv, Redirection, Asked
<1>5. FsInv'
  BY <1>3, QuietStep
<1>6. ShellTyped' /\ NoOffset'
  BY <1>1, <1>3, <1>4, ShellTypes, FdValues DEF ShellTyped, NoOffset, Labels
<1>7. InputKept' /\ OutputKept' /\ Output'
  BY <1>1, <1>2, <1>3, <1>4, FdNumbers
     DEF ShellInv, Redirection, InputKept, OutputKept, Output, OutputPlain
<1>8. Input'
  <2>1. PICK i \in Inodes : ResolveIn(kind, entries, command.in) = i /\ fds[0] = StartOf(i)
    BY <1>1, <1>4 DEF ShellInv, Redirection, Input, InputMoved
  <2>2. ResolveIn(kind', entries', command'.in) = i /\ fds'[0] = StartOf(i)
    BY <1>1, <1>2, <1>3, <2>1, FdNumbers DEF Quiet
  <2> QED BY <1>1, <1>4, <2>2 DEF Input, InputPlain, InputMoved
<1>9. OpenedFile' /\ OthersKept'
  BY <1>1, <1>2, <1>3, <1>4, FdNumbers
     DEF ShellInv, Redirection, OpenedFile, OthersKept, Moving, Redirecting
<1>10. Asked' /\ Piped'
  BY <1>1, <1>3, <1>4 DEF ShellInv, Redirection, Asked, Piped, Quiet, Redirecting
<1> QED BY <1>3, <1>5, <1>6, <1>7, <1>8, <1>9, <1>10 DEF ShellInv, Redirection

(* Directories that grow leave the input and the two sides of a pipe what  *)
(* they were.                                                              *)
LEMMA MovedStays ==
  ASSUME ShellInv, Tree(kind', entries'), Growing, NEW path \in Paths
  PROVE  /\ \A i \in Inodes : ResolveIn(kind, entries, path) = i =>
                              ResolveIn(kind', entries', path) = i
         /\ \A i : Reaches(kind, entries, next_free_offset, path, i) =>
                   Reaches(kind', entries', next_free_offset', path, i)
<1>1. Tree(kind, entries)
  BY ShellTypes DEF FsInv, TreeNow
<1>2. ASSUME NEW i \in Inodes, ResolveIn(kind, entries, path) = i
      PROVE  ResolveIn(kind', entries', path) = i
  BY <1>1, <1>2, NoneIs, PathLengths, ResolveKept DEF Growing, Grows
<1>3. ASSUME NEW i, Reaches(kind, entries, next_free_offset, path, i)
      PROVE  Reaches(kind', entries', next_free_offset', path, i)
  BY <1>1, <1>3, ReachesStays DEF Growing
<1> QED BY <1>2, <1>3

LEMMA OpenOutStep ==
  ASSUME ShellInv, OpenOut
  PROVE  [Next]_vars /\ ShellInv'
<1>1. /\ fds \in [FDs -> Descriptors] /\ command.out \in Paths
      /\ pc = "open_out" /\ pc' = AfterOpenOut
      /\ UNCHANGED <<command, right, before, handed, saved_in, saved_out>>
  BY ShellTypes, PathNumbers
     DEF ShellInv, Redirection, Asked, ShellTyped, OpenOut, progress
<1>2. /\ [Next]_vars /\ Tree(kind', entries') /\ Growing
      /\ \/ opened' = NONE /\ fds' = fds
         \/ \E i \in Inodes :
              /\ Reaches(kind', entries', next_free_offset', command.out, i)
              /\ size'[i] = 0
              /\ opened' \in FDs \ {0, 1}
              /\ fds[opened'].inode = CLOSED
              /\ fds' = [fds EXCEPT ![opened'] = StartOf(i)]
  BY <1>1, ShellTypes, CallOpenOutIs DEF OpenOut
<1>3. FsInv'
  BY <1>2, ShellTypes, FsStep
<1>4. Piped'
  <2>1. \A i : Reaches(kind, entries, next_free_offset, Pipe, i) =>
               Reaches(kind', entries', next_free_offset', Pipe, i)
    BY <1>2, MovedStays, PathNumbers
  <2> QED BY <1>1, <2>1 DEF ShellInv, Redirection, Piped, Redirecting
<1>5. CASE opened' = NONE /\ fds' = fds
  <2>1. pc' = "restore_in"
    BY <1>1, <1>5 DEF AfterOpenOut
  <2>2. ShellTyped' /\ NoOffset'
    BY <1>1, <1>5, <2>1, ShellTypes DEF ShellTyped, NoOffset, Labels
  <2>3. InputKept' /\ OutputKept' /\ Input' /\ Output'
    BY <1>1, <1>5, <2>1
       DEF ShellInv, Redirection, InputKept, OutputKept, Input, Output,
           InputPlain, InputMoved, OutputPlain
  <2>4. OpenedFile' /\ OthersKept' /\ Asked'
    BY <1>5, <2>1 DEF OpenedFile, OthersKept, Asked, Moving, Redirecting
  <2> QED BY <1>2, <1>3, <1>4, <2>2, <2>3, <2>4 DEF ShellInv, Redirection
<1>6. ASSUME NEW i \in Inodes,
             Reaches(kind', entries', next_free_offset', command.out, i),
             size'[i] = 0,
             opened' \in FDs \ {0, 1}, fds[opened'].inode = CLOSED,
             fds' = [fds EXCEPT ![opened'] = StartOf(i)]
      PROVE  Redirection'
  <2>1. opened' \in Others /\ before[opened'] = Closed
    BY <1>1, <1>6, FreeIsOther
  <2>2. pc' = "dup_out" /\ opened' # NONE
    BY <1>1, <1>6, FdNumbers DEF AfterOpenOut
  <2>3. ShellTyped' /\ NoOffset'
    BY <1>1, <1>6, <2>2, ShellTypes, FdValues DEF ShellTyped, NoOffset, Labels
  <2>4. InputKept' /\ OutputKept' /\ Output'
    BY <1>1, <1>6, <2>1, <2>2, FdNumbers
       DEF ShellInv, Redirection, InputKept, OutputKept, Output, OutputPlain
  <2>5. Input'
    <3>1. fds'[0] = fds[0]
      BY <1>1, <1>6, FdNumbers
    <3>2. CASE command.in = NoPath
      BY <1>1, <2>2, <3>1, <3>2 DEF ShellInv, Redirection, Input, InputPlain, InputMoved
    <3>3. CASE command.in # NoPath
      <4>1. PICK j \in Inodes : ResolveIn(kind, entries, command.in) = j /\ fds[0] = StartOf(j)
        BY <1>1, <3>3 DEF ShellInv, Redirection, Input, InputMoved
      <4>2. command.in \in Paths
        BY <3>3, ShellTypes, PathNumbers DEF ShellTyped
      <4>3. ResolveIn(kind', entries', command.in) = j
        BY <1>2, <4>1, <4>2, MovedStays
      <4> QED BY <1>1, <2>2, <3>1, <3>3, <4>1, <4>3 DEF Input, InputPlain, InputMoved
    <3> QED BY <3>2, <3>3
  <2>6. OpenedFile'
    <3>1. fds'[opened'] = StartOf(i)
      BY <1>1, <1>6
    <3> QED BY <1>1, <1>6, <2>1, <2>2, <3>1 DEF OpenedFile, Emptied, Moving
  <2>7. OthersKept'
    <3>1. opened = NONE
      BY <1>1 DEF ShellInv, Redirection, OpenedFile, Moving
    <3> QED BY <1>1, <1>6, <2>1, <2>2, <3>1, FdNumbers
            DEF ShellInv, Redirection, OthersKept, Redirecting
  <2>8. Asked'
    BY <1>1, <2>2 DEF ShellInv, Redirection, Asked
  <2> QED BY <1>4, <2>3, <2>4, <2>5, <2>6, <2>7, <2>8 DEF Redirection
<1> QED BY <1>2, <1>3, <1>5, <1>6 DEF ShellInv

(* Input and output that a quiet step does not touch. *)
LEMMA InputStays ==
  ASSUME ShellInv, Quiet, command' = command, fds'[0] = fds[0],
         pc \in {"open_out", "dup_out", "close_out"},
         pc' \in {"dup_out", "close_out", "fork"}
  PROVE  Input'
<1>1. CASE command.in = NoPath
  BY <1>1 DEF ShellInv, Redirection, Input, InputPlain, InputMoved
<1>2. CASE command.in # NoPath
  <2>1. PICK i \in Inodes : ResolveIn(kind, entries, command.in) = i /\ fds[0] = StartOf(i)
    BY <1>2 DEF ShellInv, Redirection, Input, InputMoved
  <2>2. ResolveIn(kind', entries', command'.in) = i /\ fds'[0] = StartOf(i)
    BY <2>1 DEF Quiet
  <2> QED BY <1>2, <2>2 DEF Input, InputPlain, InputMoved
<1> QED BY <1>1, <1>2

LEMMA DupOutStep ==
  ASSUME ShellInv, DupOut
  PROVE  [Next]_vars /\ ShellInv'
<1>1. /\ fds \in [FDs -> Descriptors] /\ pc = "dup_out" /\ pc' = "close_out"
      /\ UNCHANGED <<command, right, before, handed, saved_in, saved_out, opened>>
  BY ShellTypes DEF DupOut, progress, locals
<1>2. PICK i \in Inodes : /\ Reaches(kind, entries, next_free_offset, command.out, i)
                          /\ fds[opened] = StartOf(i)
                          /\ size[i] = 0
  BY <1>1 DEF ShellInv, Redirection, OpenedFile, Emptied
<1>3. opened \in Others /\ before[opened] = Closed
  BY <1>1 DEF ShellInv, Redirection, OpenedFile, Moving
<1>4. Valid(opened)
  BY <1>2, FdValues DEF Valid
<1>5. [Next]_vars /\ Quiet /\ fds' = [fds EXCEPT ![1] = StartOf(i)]
  BY <1>2, <1>3, <1>4, ShellTypes, CallDup2Is, FdNumbers DEF DupOut
<1>6. FsInv'
  BY <1>5, QuietStep
<1>7. ShellTyped' /\ NoOffset'
  BY <1>1, <1>5, ShellTypes, FdValues DEF ShellTyped, NoOffset, Labels
<1>8. InputKept' /\ OutputKept'
  BY <1>1, <1>5, FdNumbers DEF ShellInv, Redirection, InputKept, OutputKept
<1>9. Input'
  BY <1>1, <1>5, InputStays, FdNumbers
<1>10. Output' /\ OpenedFile'
  <2>1. /\ Reaches(kind', entries', next_free_offset', command'.out, i) /\ size'[i] = 0
        /\ fds'[1] = StartOf(i) /\ fds'[opened'] = StartOf(i)
    BY <1>1, <1>2, <1>3, <1>5, FdNumbers DEF Quiet
  <2> QED BY <1>1, <1>3, <2>1 DEF Output, OutputPlain, OpenedFile, Emptied, Moving
<1>11. OthersKept' /\ Asked' /\ Piped'
  BY <1>1, <1>5, FdNumbers
     DEF ShellInv, Redirection, OthersKept, Asked, Piped, Quiet, Redirecting
<1> QED BY <1>5, <1>6, <1>7, <1>8, <1>9, <1>10, <1>11 DEF ShellInv, Redirection

LEMMA CloseOutStep ==
  ASSUME ShellInv, CloseOut
  PROVE  [Next]_vars /\ ShellInv'
<1>1. /\ fds \in [FDs -> Descriptors] /\ pc = "close_out" /\ pc' = "fork"
      /\ opened' = NONE
      /\ UNCHANGED <<command, right, before, handed, saved_in, saved_out>>
  BY ShellTypes DEF CloseOut, progress
<1>2. opened \in Others /\ before[opened] = Closed
  BY <1>1 DEF ShellInv, Redirection, OpenedFile, Moving
<1>3. [Next]_vars /\ Quiet /\ fds' = [fds EXCEPT ![opened] = Closed]
  BY <1>2, ShellTypes, CallCloseIs, FdNumbers DEF CloseOut
<1>4. command.out # NoPath
  BY <1>1 DEF ShellInv, Redirection, Asked
<1>5. FsInv'
  BY <1>3, QuietStep
<1>6. ShellTyped' /\ NoOffset'
  BY <1>1, <1>3, ShellTypes, FdValues DEF ShellTyped, NoOffset, Labels
<1>7. InputKept' /\ OutputKept'
  BY <1>1, <1>2, <1>3, FdNumbers DEF ShellInv, Redirection, InputKept, OutputKept
<1>8. Input'
  BY <1>1, <1>2, <1>3, InputStays, FdNumbers
<1>9. Output'
  <2>1. PICK i \in Inodes : /\ Reaches(kind, entries, next_free_offset, command.out, i)
                            /\ fds[1] = StartOf(i)
                            /\ size[i] = 0
    BY <1>1, <1>4 DEF ShellInv, Redirection, Output, Emptied
  <2>2. /\ Reaches(kind', entries', next_free_offset', command'.out, i) /\ size'[i] = 0
        /\ fds'[1] = StartOf(i)
    BY <1>1, <1>2, <1>3, <2>1, FdNumbers DEF Quiet
  <2> QED BY <1>1, <1>4, <2>2 DEF Output, OutputPlain, Emptied
<1>10. OpenedFile' /\ OthersKept'
  BY <1>1, <1>2, <1>3, FdNumbers
     DEF ShellInv, Redirection, OpenedFile, OthersKept, Moving, Redirecting
<1>11. Asked' /\ Piped'
  BY <1>1, <1>3 DEF ShellInv, Redirection, Asked, Piped, Quiet, Redirecting
<1> QED BY <1>3, <1>5, <1>6, <1>7, <1>8, <1>9, <1>10, <1>11 DEF ShellInv, Redirection

LEMMA ForkStep ==
  ASSUME ShellInv, Fork
  PROVE  [Next]_vars /\ ShellInv'
<1>1. /\ fds \in [FDs -> Descriptors] /\ pc = "fork" /\ pc' = "run"
      /\ handed' = IF right # NoCommand THEN fds[1].inode ELSE NONE
      /\ command' = NoCommand /\ before' = AllClosed
      /\ UNCHANGED <<right, saved_in, saved_out, opened>>
      /\ UNCHANGED fds /\ [Next]_vars /\ Quiet
  BY ShellTypes DEF Fork, locals, fsVars, vars, Quiet
<1>2. right # NoCommand => \E i \in Inodes :
        /\ handed' = i
        /\ Reaches(kind, entries, next_free_offset, Pipe, i)
  <2> SUFFICES ASSUME right # NoCommand
               PROVE  \E i \in Inodes :
                        /\ handed' = i
                        /\ Reaches(kind, entries, next_free_offset, Pipe, i)
    OBVIOUS
  <2>1. command.out = Pipe /\ Pipe # NoPath
    BY <1>1, PathNumbers DEF ShellInv, Redirection, Piped, Redirecting
  <2>2. PICK i \in Inodes : Reaches(kind, entries, next_free_offset, Pipe, i) /\ fds[1] = StartOf(i)
    BY <1>1, <2>1 DEF ShellInv, Redirection, Output, Emptied
  <2> QED BY <1>1, <2>2, FdValues
<1>3. FsInv'
  BY <1>1, QuietStep
<1>4. before' \in [Others -> Descriptors]
  BY <1>1, FdValues DEF AllClosed
<1>5. ShellTyped' /\ NoOffset'
  BY <1>1, <1>2, <1>4, ShellTypes, PathNumbers DEF ShellTyped, NoOffset, Labels
<1>6. InputKept' /\ OutputKept' /\ Input' /\ Output'
  BY <1>1 DEF ShellInv, Redirection, InputKept, OutputKept, Input, Output,
              InputPlain, InputMoved, OutputPlain
<1>7. OpenedFile' /\ OthersKept' /\ Asked'
  BY <1>1 DEF ShellInv, Redirection, OpenedFile, OthersKept, Asked, Moving, Redirecting
<1>8. Piped'
  BY <1>1, <1>2 DEF ShellInv, Redirection, Piped, Quiet, Redirecting
<1> QED BY <1>1, <1>3, <1>5, <1>6, <1>7, <1>8 DEF ShellInv, Redirection

(* What a call of a program does: the directories may grow, and the two    *)
(* descriptors of the shell stay at the terminal.                          *)
Harmless ==
  /\ [Next]_vars /\ Tree(kind', entries') /\ Growing
  /\ NoOffset'
  /\ fds'[SavedIn] = fds[SavedIn] /\ fds'[SavedOut] = fds[SavedOut]

LEMMA OpenedHarmless ==
  ASSUME ShellInv, pc = "run", NEW i \in Inodes, NEW d \in FDs \cup {NONE}, FreeFd(d),
         fds' = Opened(d, i)
  PROVE  /\ NoOffset'
         /\ fds'[SavedIn] = fds[SavedIn] /\ fds'[SavedOut] = fds[SavedOut]
<1>1. fds[SavedIn] = Terminal /\ fds[SavedOut] = Terminal
  BY DEF ShellInv, Redirection, InputKept, OutputKept
<1>2. CASE d = NONE
  BY <1>2, ShellTypes DEF Opened, NoOffset
<1>3. CASE d # NONE
  <2>1. d \in FDs /\ fds[d].inode = CLOSED /\ fds' = [fds EXCEPT ![d] = StartOf(i)]
    BY <1>3, FreeFdIs DEF Opened, StartOf
  <2>2. d \notin {SavedIn, SavedOut}
    BY <1>1, <2>1, FdValues
  <2> QED BY <2>1, <2>2, ShellTypes, FdNumbers, FdValues DEF NoOffset
<1> QED BY <1>2, <1>3

(* Reading and writing move the offset of a descriptor that has a file.    *)
LEMMA MovedHarmless ==
  ASSUME ShellInv, pc = "run", NEW d \in FDs, fds[d].inode \in Inodes, NEW to,
         fds' = [fds EXCEPT ![d].offset = to]
  PROVE  /\ NoOffset'
         /\ fds'[SavedIn] = fds[SavedIn] /\ fds'[SavedOut] = fds[SavedOut]
<1>1. fds[SavedIn] = Terminal /\ fds[SavedOut] = Terminal
  BY DEF ShellInv, Redirection, InputKept, OutputKept
<1>2. d \notin {SavedIn, SavedOut}
  BY <1>1, FdValues
<1>3. \A e \in FDs \ {d} : fds'[e] = fds[e]
  BY ShellTypes
<1>4. fds'[d].inode = fds[d].inode
  <2>1. fds[d] \in Descriptors /\ fds'[d] = [fds[d] EXCEPT !.offset = to]
    BY ShellTypes
  <2> QED BY <2>1 DEF Descriptors
<1> QED BY <1>2, <1>3, <1>4, ShellTypes, FdNumbers, FdValues DEF NoOffset

LEMMA CallHarmless ==
  ASSUME ShellInv, Call
  PROVE  Harmless
<1>1. FsInv /\ IInv /\ TreeNow /\ NoOffset /\ fds \in [FDs -> Descriptors] /\ pc = "run"
  BY ShellTypes DEF FsInv, Call
<1>2. ASSUME NEW path \in Paths, OpenCreate(path)
      PROVE  Harmless
  <2>1. Next
    BY <1>2 DEF Next
  <2>2. Tree(kind', entries') /\ Growing
    BY <1>1, <1>2, CreateGrows
  <2>3. PICK i \in Inodes, d \in FDs \cup {NONE} : FreeFd(d) /\ fds' = Opened(d, i)
    BY <1>2 DEF OpenCreate
  <2> QED BY <1>1, <2>1, <2>2, <2>3, OpenedHarmless DEF Harmless
<1>3. ASSUME NEW path \in Paths, NEW truncate \in BOOLEAN, OpenExisting(path, truncate)
      PROVE  Harmless
  <2>1. Next
    BY <1>3 DEF Next
  <2>2. Tree(kind', entries') /\ Growing
    BY <1>1, <1>3, FsTyped, SameGrows DEF OpenExisting, dataVars
  <2>3. PICK i \in Inodes, d \in FDs \cup {NONE} : FreeFd(d) /\ fds' = Opened(d, i)
    BY <1>3 DEF OpenExisting
  <2> QED BY <1>1, <2>1, <2>2, <2>3, OpenedHarmless DEF Harmless
<1>4. ASSUME NEW d \in FDs, d \notin {SavedIn, SavedOut}, Close(d)
      PROVE  Harmless
  <2>1. Next
    BY <1>4 DEF Next
  <2>2. Tree(kind', entries') /\ Growing
    BY <1>1, <1>4, FsTyped, SameGrows DEF Close, dataVars
  <2>3. fds' = [fds EXCEPT ![d] = Closed]
    BY <1>4 DEF Close
  <2> QED BY <1>1, <1>4, <2>1, <2>2, <2>3, FdNumbers, FdValues DEF Harmless, NoOffset
<1>5. ASSUME NEW d \in FDs, NEW new \in FDs \ {SavedIn, SavedOut}, Dup2(d, new)
      PROVE  Harmless
  <2>1. Next
    BY <1>5 DEF Next
  <2>2. Tree(kind', entries') /\ Growing
    BY <1>1, <1>5, FsTyped, SameGrows DEF Dup2, dataVars
  <2>3. fds' = [fds EXCEPT ![new] = fds[d]]
    BY <1>5 DEF Dup2
  <2> QED BY <1>1, <2>1, <2>2, <2>3, FdNumbers DEF Harmless, NoOffset
<1>6. ASSUME NEW d \in FDs, NEW count \in Counts, Read(d, count)
      PROVE  Harmless
  <2>1. Next
    BY <1>6 DEF Next
  <2>2. Tree(kind', entries') /\ Growing
    BY <1>1, <1>6, FsTyped, SameGrows DEF Read, inodeVars, dataVars
  <2>3. fds[d].inode \in Inodes /\ \E to : fds' = [fds EXCEPT ![d].offset = to]
    BY <1>6 DEF Read, OnFile
  <2> QED BY <1>1, <2>1, <2>2, <2>3, MovedHarmless DEF Harmless
<1>7. ASSUME NEW d \in FDs, NEW bytes \in Buffers, Write(d, bytes)
      PROVE  Harmless
  <2>1. Next
    BY <1>7 DEF Next
  <2>2. Tree(kind', entries') /\ Growing
    <3>1. next_free_offset \in Nat /\ next_free_offset' \in {next_free_offset, next_free_offset + MAX_FILE_SIZE}
      BY <1>1, <1>7, FsTyped DEF Write
    <3>2. next_free_offset' \in Nat /\ next_free_offset <= next_free_offset'
      BY <3>1, Sizes
    <3> QED BY <1>1, <1>7, <3>1, <3>2, SameGrows DEF Write
  <2>3. fds[d].inode \in Inodes /\ \E to : fds' = [fds EXCEPT ![d].offset = to]
    BY <1>7 DEF Write, OnFile
  <2> QED BY <1>1, <2>1, <2>2, <2>3, MovedHarmless DEF Harmless
<1> QED BY <1>2, <1>3, <1>4, <1>5, <1>6, <1>7 DEF Call

LEMMA CallStep ==
  ASSUME ShellInv, Call
  PROVE  [Next]_vars /\ ShellInv'
<1>1. /\ pc = "run" /\ pc' = "run"
      /\ UNCHANGED <<command, right, before, handed, saved_in, saved_out, opened>>
  BY DEF Call, progress, locals
<1>2. Harmless
  BY CallHarmless
<1>3. FsInv'
  BY <1>2, ShellTypes, FsStep DEF Harmless
<1>4. ShellTyped' /\ NoOffset'
  BY <1>1, <1>2, ShellTypes DEF ShellTyped, Harmless
<1>5. InputKept' /\ OutputKept' /\ Input' /\ Output'
  BY <1>1, <1>2 DEF ShellInv, Redirection, InputKept, OutputKept, Input, Output,
                    InputPlain, InputMoved, OutputPlain, Harmless
<1>6. OpenedFile' /\ OthersKept' /\ Asked'
  BY <1>1 DEF ShellInv, Redirection, OpenedFile, OthersKept, Asked, Moving, Redirecting
<1>7. Piped'
  <2>1. \A i : Reaches(kind, entries, next_free_offset, Pipe, i) =>
               Reaches(kind', entries', next_free_offset', Pipe, i)
    BY <1>2, MovedStays, PathNumbers DEF Harmless
  <2> QED BY <1>1, <2>1 DEF ShellInv, Redirection, Piped, Redirecting
<1> QED BY <1>2, <1>3, <1>4, <1>5, <1>6, <1>7 DEF ShellInv, Redirection, Harmless

LEMMA ExitStep ==
  ASSUME ShellInv, Exit
  PROVE  [Next]_vars /\ ShellInv'
<1>1. /\ pc = "run" /\ pc' = "restore_in"
      /\ UNCHANGED <<command, right, before, handed, saved_in, saved_out, opened>>
      /\ UNCHANGED fds /\ [Next]_vars /\ Quiet
  BY DEF Exit, progress, locals, fsVars, vars, Quiet
<1>2. FsInv'
  BY <1>1, QuietStep
<1>3. ShellTyped' /\ NoOffset'
  BY <1>1, ShellTypes DEF ShellTyped, NoOffset, Labels
<1>4. InputKept' /\ OutputKept' /\ Input' /\ Output'
  BY <1>1 DEF ShellInv, Redirection, InputKept, OutputKept, Input, Output,
              InputPlain, InputMoved, OutputPlain
<1>5. OpenedFile' /\ OthersKept' /\ Asked' /\ Piped'
  BY <1>1 DEF ShellInv, Redirection, OpenedFile, OthersKept, Asked, Piped, Quiet,
              Moving, Redirecting
<1> QED BY <1>1, <1>2, <1>3, <1>4, <1>5 DEF ShellInv, Redirection

LEMMA RestoreInStep ==
  ASSUME ShellInv, RestoreIn
  PROVE  [Next]_vars /\ ShellInv'
<1>1. /\ fds \in [FDs -> Descriptors] /\ pc = "restore_in" /\ pc' = "drop_in"
      /\ saved_in = SavedIn /\ fds[SavedIn] = Terminal /\ Valid(SavedIn)
      /\ UNCHANGED <<command, right, before, handed, saved_in, saved_out, opened>>
  BY ShellTypes, FdValues
     DEF RestoreIn, progress, locals, ShellInv, Redirection, InputKept, Valid
<1>2. [Next]_vars /\ Quiet /\ fds' = [fds EXCEPT ![0] = Terminal]
  BY <1>1, ShellTypes, CallDup2Is, FdNumbers DEF RestoreIn
<1>3. FsInv'
  BY <1>2, QuietStep
<1>4. ShellTyped' /\ NoOffset'
  BY <1>1, <1>2, ShellTypes, FdValues DEF ShellTyped, NoOffset, Labels
<1>5. InputKept' /\ OutputKept' /\ Input' /\ Output'
  BY <1>1, <1>2, FdNumbers
     DEF ShellInv, Redirection, InputKept, OutputKept, Input, Output,
         InputPlain, InputMoved, OutputPlain
<1>6. OpenedFile' /\ OthersKept' /\ Asked' /\ Piped'
  BY <1>1, <1>2 DEF ShellInv, Redirection, OpenedFile, OthersKept, Asked, Piped, Quiet,
                    Moving, Redirecting
<1> QED BY <1>2, <1>3, <1>4, <1>5, <1>6 DEF ShellInv, Redirection

LEMMA DropInStep ==
  ASSUME ShellInv, DropIn
  PROVE  [Next]_vars /\ ShellInv'
<1>1. /\ fds \in [FDs -> Descriptors] /\ pc = "drop_in" /\ pc' = "restore_out"
      /\ saved_in = SavedIn
      /\ UNCHANGED <<command, right, before, handed, saved_in, saved_out, opened>>
  BY ShellTypes DEF DropIn, progress, locals, ShellInv, Redirection, InputKept
<1>2. [Next]_vars /\ Quiet /\ fds' = [fds EXCEPT ![SavedIn] = Closed]
  BY <1>1, ShellTypes, CallCloseIs, FdNumbers DEF DropIn
<1>3. FsInv'
  BY <1>2, QuietStep
<1>4. ShellTyped' /\ NoOffset'
  BY <1>1, <1>2, ShellTypes, FdValues DEF ShellTyped, NoOffset, Labels
<1>5. InputKept' /\ OutputKept' /\ Input' /\ Output'
  BY <1>1, <1>2, FdNumbers
     DEF ShellInv, Redirection, InputKept, OutputKept, Input, Output,
         InputPlain, InputMoved, OutputPlain
<1>6. OpenedFile' /\ OthersKept' /\ Asked' /\ Piped'
  BY <1>1, <1>2 DEF ShellInv, Redirection, OpenedFile, OthersKept, Asked, Piped, Quiet,
                    Moving, Redirecting
<1> QED BY <1>2, <1>3, <1>4, <1>5, <1>6 DEF ShellInv, Redirection

LEMMA RestoreOutStep ==
  ASSUME ShellInv, RestoreOut
  PROVE  [Next]_vars /\ ShellInv'
<1>1. /\ fds \in [FDs -> Descriptors] /\ pc = "restore_out" /\ pc' = "drop_out"
      /\ saved_out = SavedOut /\ fds[SavedOut] = Terminal /\ Valid(SavedOut)
      /\ UNCHANGED <<command, right, before, handed, saved_in, saved_out, opened>>
  BY ShellTypes, FdValues
     DEF RestoreOut, progress, locals, ShellInv, Redirection, OutputKept, Valid
<1>2. [Next]_vars /\ Quiet /\ fds' = [fds EXCEPT ![1] = Terminal]
  BY <1>1, ShellTypes, CallDup2Is, FdNumbers DEF RestoreOut
<1>3. FsInv'
  BY <1>2, QuietStep
<1>4. ShellTyped' /\ NoOffset'
  BY <1>1, <1>2, ShellTypes, FdValues DEF ShellTyped, NoOffset, Labels
<1>5. InputKept' /\ OutputKept' /\ Input' /\ Output'
  BY <1>1, <1>2, FdNumbers
     DEF ShellInv, Redirection, InputKept, OutputKept, Input, Output,
         InputPlain, InputMoved, OutputPlain
<1>6. OpenedFile' /\ OthersKept' /\ Asked' /\ Piped'
  BY <1>1, <1>2 DEF ShellInv, Redirection, OpenedFile, OthersKept, Asked, Piped, Quiet,
                    Moving, Redirecting
<1> QED BY <1>2, <1>3, <1>4, <1>5, <1>6 DEF ShellInv, Redirection

LEMMA DropOutStep ==
  ASSUME ShellInv, DropOut
  PROVE  [Next]_vars /\ ShellInv'
<1>1. /\ fds \in [FDs -> Descriptors] /\ pc = "drop_out"
      /\ saved_out = SavedOut /\ opened = NONE
      /\ fds[0] = Terminal /\ fds[1] = Terminal /\ fds[SavedIn] = Closed
      /\ UNCHANGED <<handed, saved_in, saved_out, opened>>
      /\ right' = NoCommand
  BY ShellTypes
     DEF DropOut, progress, locals, ShellInv, Redirection, InputKept, OutputKept,
         Input, InputPlain, Output, OutputPlain, OpenedFile, Moving
<1>2. [Next]_vars /\ Quiet /\ fds' = [fds EXCEPT ![SavedOut] = Closed]
  BY <1>1, ShellTypes, CallCloseIs, FdNumbers DEF DropOut
<1>3. \A d \in Others : fds'[d] = fds[d]
  BY <1>1, <1>2, FdNumbers
<1>4. \/ /\ right = NoCommand /\ pc' = "prompt"
         /\ command' = NoCommand /\ before' = AllClosed
      \/ /\ right # NoCommand /\ pc' = "save_in"
         /\ command' = right /\ before' = [d \in Others |-> fds[d]]
  BY DEF DropOut, Starts
<1>5. FsInv'
  BY <1>2, QuietStep
<1>6. before' \in [Others -> Descriptors]
  BY <1>1, <1>4, FdNumbers, FdValues DEF AllClosed
<1>7. ShellTyped' /\ NoOffset'
  BY <1>1, <1>2, <1>4, <1>6, ShellTypes, FdValues, PathNumbers DEF ShellTyped, NoOffset, Labels
<1>8. InputKept' /\ OutputKept' /\ Input' /\ Output'
  BY <1>1, <1>2, <1>4, FdNumbers
     DEF InputKept, OutputKept, Input, Output, InputPlain, InputMoved, OutputPlain
<1>9. OpenedFile' /\ OthersKept' /\ Asked'
  BY <1>1, <1>3, <1>4 DEF OpenedFile, OthersKept, Asked, Moving, Redirecting
<1>10. Piped'
  BY <1>1, <1>2, <1>4 DEF ShellInv, Redirection, Piped, Quiet, Redirecting
<1> QED BY <1>2, <1>5, <1>7, <1>8, <1>9, <1>10 DEF ShellInv, Redirection

-----------------------------------------------------------------------------
(* The theorems.                                                           *)

LEMMA ShellInitInv == ShellInit => Init /\ ShellInv
<1> SUFFICES ASSUME ShellInit PROVE ShellInv
  BY DEF ShellInit
<1>1. Init
  BY DEF ShellInit
<1>2. TreeNow
  <2>1. /\ kind \in [Inodes -> {"FREE", "FILE", "DIR"}] /\ entries \in [Inodes -> Seq(Entry)]
    BY <1>1, InitInv, FsTyped
  <2>2. kind[ROOT] = "DIR"
    BY <1>1, NoneIs DEF Init
  <2>3. ASSUME NEW i \in Inodes, NEW k \in DOMAIN entries[i]
        PROVE  kind[entries[i][k].inode] # "FREE"
    <3> DEFINE first == [name |-> ".", inode |-> ROOT]
               second == [name |-> "..", inode |-> ROOT]
    <3>1. CASE i = ROOT
      <4>1. entries[i] = <<first, second>>
        BY <1>1, <3>1, NoneIs DEF Init
      <4>2. k \in {1, 2}
        BY <2>3, <4>1
      <4>3. entries[i][k].inode = ROOT
        BY <4>1, <4>2
      <4> QED BY <2>2, <4>3
    <3>2. CASE i # ROOT
      <4>1. entries[i] = <<>>
        BY <1>1, <3>2 DEF Init
      <4> QED BY <2>3, <4>1
    <3> QED BY <3>1, <3>2
  <2> QED BY <2>1, <2>2, <2>3 DEF TreeNow, Tree
<1>3. /\ fds \in [FDs -> {Terminal, Closed}]
      /\ fds[0] = Terminal /\ fds[1] = Terminal
      /\ fds[SavedIn] = Closed /\ fds[SavedOut] = Closed
  BY <1>1, FdNumbers, SavedAssumption, SizesAssumption DEF Init, FDs
<1>4. before \in [Others -> Descriptors]
  BY FdValues DEF ShellInit, AllClosed
<1>5. ShellTyped /\ NoOffset
  BY <1>3, <1>4, FdValues, PathNumbers DEF ShellInit, ShellTyped, NoOffset, Labels
<1>6. InputKept /\ OutputKept /\ Input /\ Output
  BY <1>3 DEF ShellInit, InputKept, OutputKept, Input, Output, InputPlain, InputMoved, OutputPlain
<1>7. OpenedFile /\ OthersKept /\ Asked /\ Piped
  BY DEF ShellInit, OpenedFile, OthersKept, Asked, Piped, Moving, Redirecting
<1> QED BY <1>1, <1>2, <1>5, <1>6, <1>7, InitInv DEF ShellInv, FsInv, Redirection

LEMMA ShellNextInv ==
  ShellInv /\ [ShellNext]_shellVars => [Next]_vars /\ ShellInv'
<1> SUFFICES ASSUME ShellInv, [ShellNext]_shellVars PROVE [Next]_vars /\ ShellInv'
  OBVIOUS
<1>1. CASE Prompt
  BY <1>1, PromptStep
<1>2. CASE SaveIn
  BY <1>2, SaveInStep
<1>3. CASE SaveOut
  BY <1>3, SaveOutStep
<1>4. CASE OpenIn
  BY <1>4, OpenInStep
<1>5. CASE DupIn
  BY <1>5, DupInStep
<1>6. CASE CloseIn
  BY <1>6, CloseInStep
<1>7. CASE OpenOut
  BY <1>7, OpenOutStep
<1>8. CASE DupOut
  BY <1>8, DupOutStep
<1>9. CASE CloseOut
  BY <1>9, CloseOutStep
<1>10. CASE Fork
  BY <1>10, ForkStep
<1>11. CASE Call
  BY <1>11, CallStep
<1>12. CASE Exit
  BY <1>12, ExitStep
<1>13. CASE RestoreIn
  BY <1>13, RestoreInStep
<1>14. CASE DropIn
  BY <1>14, DropInStep
<1>15. CASE RestoreOut
  BY <1>15, RestoreOutStep
<1>16. CASE DropOut
  BY <1>16, DropOutStep
<1>17. CASE UNCHANGED shellVars
  <2>1. /\ UNCHANGED <<pc, command, right, before, handed, saved_in, saved_out, opened>>
        /\ UNCHANGED fds /\ [Next]_vars /\ Quiet
    BY <1>17 DEF shellVars, fsVars, vars, Quiet
  <2>2. FsInv'
    BY <2>1, QuietStep
  <2>3. ShellTyped' /\ NoOffset'
    BY <2>1, ShellTypes DEF ShellTyped, NoOffset
  <2>4. InputKept' /\ OutputKept' /\ Input' /\ Output'
    BY <2>1 DEF ShellInv, Redirection, InputKept, OutputKept, Input, Output, Emptied,
                InputPlain, InputMoved, OutputPlain, Quiet
  <2>5. OpenedFile' /\ OthersKept' /\ Asked' /\ Piped'
    BY <2>1 DEF ShellInv, Redirection, OpenedFile, OthersKept, Asked, Piped, Emptied, Quiet
  <2> QED BY <2>1, <2>2, <2>3, <2>4, <2>5 DEF ShellInv, Redirection
<1> QED BY <1>1, <1>2, <1>3, <1>4, <1>5, <1>6, <1>7, <1>8, <1>9, <1>10, <1>11, <1>12,
           <1>13, <1>14, <1>15, <1>16, <1>17 DEF ShellNext

THEOREM ShellInvariant == ShellSpec => []ShellInv
BY ShellInitInv, ShellNextInv, PTL DEF ShellSpec

(* Everything the shell and its programs do is a sequence of system calls: *)
(* what is proved of the file system holds of it under the shell.          *)
THEOREM ShellRunsFs == ShellSpec => Spec
BY ShellInitInv, ShellNextInv, PTL DEF ShellSpec, Spec

(* Under the shell, too, a file is the bytes written to it: redirections,  *)
(* pipes and whatever programs do with the shell's table of descriptors do *)
(* to files what FileStore says, and nothing else.                         *)
THEOREM ShellKeepsFiles == ShellSpec => ImplementsFileStore
BY ShellRunsFs, StoreImplemented, PTL

(* The tables of the file system, and the shell's own variables, stay in   *)
(* their types.                                                            *)
THEOREM ShellTyping == ShellSpec => []ShellTypeOK
<1>1. ShellInv => ShellTypeOK
  BY InvTypes DEF ShellInv, FsInv, Redirection, ShellTyped, ShellTypeOK
<1> QED BY <1>1, ShellInvariant, PTL

(* Whatever a command redirects and whatever programs do with descriptors, *)
(* the shell prompts at the terminal with no descriptor of its own left.   *)
THEOREM PromptCleanHolds == ShellSpec => []PromptClean
<1>1. ShellInv => PromptClean
  BY FdValues
     DEF ShellInv, Redirection, Input, InputPlain, Output, OutputPlain,
         InputKept, OutputKept, PromptClean, Valid
<1> QED BY <1>1, ShellInvariant, PTL

(* A program starts with the input and the output its command asks for,    *)
(* and no other descriptor than before.                                    *)
THEOREM StartsAsAskedHolds == ShellSpec => []StartsAsAsked
<1>1. ShellInv => StartsAsAsked
  <2> SUFFICES ASSUME ShellInv, pc = "fork"
               PROVE  /\ fds[0] = IF command.in = NoPath THEN Terminal
                                  ELSE [inode |-> Resolve(command.in), offset |-> 0]
                      /\ command.out = NoPath => fds[1] = Terminal
                      /\ command.out # NoPath =>
                           /\ fds[1].inode \in Inodes /\ fds[1].offset = 0
                           /\ size[fds[1].inode] = 0
                           /\ Resolve(command.out) \in {NONE, fds[1].inode}
                      /\ \A d \in Others : fds[d] = before[d]
    BY DEF StartsAsAsked
  <2>1. fds[0] = IF command.in = NoPath THEN Terminal
                 ELSE [inode |-> Resolve(command.in), offset |-> 0]
    BY PathIs DEF ShellInv, Redirection, Input, InputPlain, InputMoved, StartOf
  <2>2. command.out = NoPath => fds[1] = Terminal
    BY DEF ShellInv, Redirection, Output, OutputPlain
  <2>3. ASSUME command.out # NoPath
        PROVE  /\ fds[1].inode \in Inodes /\ fds[1].offset = 0
               /\ size[fds[1].inode] = 0
               /\ Resolve(command.out) \in {NONE, fds[1].inode}
    <3>1. PICK i \in Inodes : /\ Reaches(kind, entries, next_free_offset, command.out, i)
                              /\ fds[1] = StartOf(i)
                              /\ size[i] = 0
      BY <2>3 DEF ShellInv, Redirection, Output, Emptied
    <3>2. Resolve(command.out) \in {NONE, i}
      BY <3>1, PathIs DEF Reaches, Lost
    <3> QED BY <3>1, <3>2 DEF StartOf
  <2>4. \A d \in Others : fds[d] = before[d]
    <3>1. opened = NONE
      BY DEF ShellInv, Redirection, OpenedFile, Moving
    <3> QED BY <3>1, FdNumbers DEF ShellInv, Redirection, OthersKept, Redirecting
  <2> QED BY <2>1, <2>2, <2>3, <2>4
<1> QED BY <1>1, ShellInvariant, PTL

(* The right side of a pipe, if it starts, reads the file the left side    *)
(* was given to write to.                                                  *)
THEOREM PipeHandsOverHolds == ShellSpec => []PipeHandsOver
<1>1. ShellInv => PipeHandsOver
  <2> SUFFICES ASSUME ShellInv, pc = "fork", handed # NONE
               PROVE  fds[0] = [inode |-> handed, offset |-> 0]
    BY DEF PipeHandsOver
  <2>1. /\ Reaches(kind, entries, next_free_offset, Pipe, handed)
        /\ command.in = Pipe /\ Pipe # NoPath
    BY PathNumbers DEF ShellInv, Redirection, Piped, Redirecting
  <2>2. PICK i \in Inodes : ResolveIn(kind, entries, Pipe) = i /\ fds[0] = StartOf(i)
    BY <2>1 DEF ShellInv, Redirection, Input, InputMoved
  <2>3. handed = i
    BY <2>1, <2>2, NoneIs DEF Reaches, Lost
  <2> QED BY <2>2, <2>3 DEF StartOf
<1> QED BY <1>1, ShellInvariant, PTL
=============================================================================
