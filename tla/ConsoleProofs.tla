---------------------------- MODULE ConsoleProofs ----------------------------
(***************************************************************************)
(* Proofs about Console, for every size of the ring and of the device and  *)
(* every set of processes: no character is lost to the order of the steps, *)
(* none is given twice, and each is overtaken once at most.                *)
(*                                                                         *)
(* The ring from its first unread slot, and behind it the device, are one  *)
(* queue.  Each step of Console adds to its end, takes an element out of   *)
(* it, cuts off its front (the interrupt, when the ring overflows) or      *)
(* leaves it alone; that is proved first, from the arithmetic of the       *)
(* indices.  The invariant is then about the queue alone.                  *)
(***************************************************************************)
EXTENDS Console, FiniteSetTheorems, WellFoundedInduction, TLAPS

-----------------------------------------------------------------------------
(* Indices. *)

LEMMA LessWellFounded == IsWellFoundedOn({xy \in Nat \X Nat : xy[1] < xy[2]}, Nat)
BY NatLessThanWellFounded DEF OpToRel

(* Of some numbers up to n one is the greatest. *)
LEMMA Greatest ==
  ASSUME NEW n \in Nat, NEW S \in SUBSET (1 .. n), S # {}
  PROVE  \E k \in S : \A m \in S : m <= k
<1> DEFINE T == {n - k : k \in S}
           Less == {xy \in Nat \X Nat : xy[1] < xy[2]}
<1>1. T \subseteq Nat /\ T # {}
  <2>1. \A k \in S : n - k \in Nat
    OBVIOUS
  <2> QED BY <2>1
<1>2. PICK x \in T : \A y \in T : <<y, x>> \notin Less
  <2> HIDE DEF T, Less
  <2>1. IsWellFoundedOn(Less, Nat)
    BY LessWellFounded DEF Less
  <2> QED BY <1>1, <2>1, WFMin
<1>3. \A y \in T : x <= y
  <2> TAKE y \in T
  <2>1. x \in Nat /\ y \in Nat
    BY <1>1
  <2>2. y < x => <<y, x>> \in Less
    BY <2>1
  <2> HIDE DEF T, Less
  <2> QED BY <1>2, <2>1, <2>2
<1>4. PICK k \in S : x = n - k
  OBVIOUS
<1>5. \A m \in S : m <= k
  <2> TAKE m \in S
  <2>1. n - m \in T /\ m \in Int /\ k \in Int
    OBVIOUS
  <2> QED BY <1>3, <1>4, <2>1
<1> QED BY <1>5

(* A multiple of the size between minus the size and the size is zero.     *)
LEMMA SmallMultiple ==
  ASSUME NEW x \in Int, KBD_BUF_SIZE * x < KBD_BUF_SIZE, -KBD_BUF_SIZE < KBD_BUF_SIZE * x
  PROVE  x = 0
<1>1. KBD_BUF_SIZE \in Nat \ {0}
  BY BufAssumption
<1>2. CASE x >= 1
  <2>1. KBD_BUF_SIZE * (x - 1) >= 0
    BY <1>1, <1>2, SMT
  <2> QED BY <1>1, <1>2, <2>1, SMT
<1>3. CASE x <= -1
  <2>1. KBD_BUF_SIZE * (- x - 1) >= 0
    BY <1>1, <1>3, SMT
  <2> QED BY <1>1, <1>3, <2>1, SMT
<1> QED BY <1>2, <1>3

(* Quotient and remainder are unique. *)
LEMMA SameRemainder ==
  ASSUME NEW p \in Int, NEW q \in Int,
         NEW r \in 0 .. KBD_BUF_SIZE - 1, NEW s \in 0 .. KBD_BUF_SIZE - 1,
         KBD_BUF_SIZE * p + r = KBD_BUF_SIZE * q + s
  PROVE  r = s
<1>1. KBD_BUF_SIZE \in Nat \ {0}
  BY BufAssumption
<1>2. KBD_BUF_SIZE * (p - q) = s - r
  BY <1>1, SMT
<1>3. p - q = 0
  BY <1>1, <1>2, SmallMultiple
<1> QED BY <1>1, <1>2, <1>3

LEMMA SlotIs ==
  ASSUME NEW i \in Int, NEW n \in Int
  PROVE  /\ Slot(i, n) \in 0 .. KBD_BUF_SIZE - 1
         /\ \E q \in Int : i + n = KBD_BUF_SIZE * q + Slot(i, n)
<1>1. KBD_BUF_SIZE \in Nat \ {0}
  BY BufAssumption
<1>2. /\ (i + n) % KBD_BUF_SIZE \in 0 .. KBD_BUF_SIZE - 1
      /\ i + n = KBD_BUF_SIZE * ((i + n) \div KBD_BUF_SIZE) + ((i + n) % KBD_BUF_SIZE)
      /\ (i + n) \div KBD_BUF_SIZE \in Int
  BY <1>1, SMT
<1> QED BY <1>2 DEF Slot

(* Going n places on and then m is going n + m on. *)
LEMMA SlotOn ==
  ASSUME NEW i \in Int, NEW n \in Int, NEW m \in Int
  PROVE  Slot(Slot(i, n), m) = Slot(i, n + m)
<1>1. KBD_BUF_SIZE \in Nat \ {0}
  BY BufAssumption
<1>2. PICK p \in Int : i + n = KBD_BUF_SIZE * p + Slot(i, n)
  BY SlotIs
<1>3. Slot(i, n) \in Int
  BY <1>1, SlotIs
<1>4. PICK q \in Int : Slot(i, n) + m = KBD_BUF_SIZE * q + Slot(Slot(i, n), m)
  BY <1>3, SlotIs
<1>5. PICK r \in Int : i + (n + m) = KBD_BUF_SIZE * r + Slot(i, n + m)
  BY SlotIs
<1>6. /\ Slot(Slot(i, n), m) \in 0 .. KBD_BUF_SIZE - 1
      /\ Slot(i, n + m) \in 0 .. KBD_BUF_SIZE - 1
  <2>1. n + m \in Int
    OBVIOUS
  <2> QED BY <1>3, <2>1, SlotIs
<1>7. KBD_BUF_SIZE * (p + q) + Slot(Slot(i, n), m) = KBD_BUF_SIZE * r + Slot(i, n + m)
  <2>1. KBD_BUF_SIZE * (p + q) = KBD_BUF_SIZE * p + KBD_BUF_SIZE * q
    BY <1>1, SMT
  <2>2. /\ KBD_BUF_SIZE * p \in Int /\ KBD_BUF_SIZE * q \in Int /\ KBD_BUF_SIZE * r \in Int
        /\ Slot(Slot(i, n), m) \in Int /\ Slot(i, n + m) \in Int
    BY <1>1, <1>6, SMT
  <2> QED BY <1>2, <1>3, <1>4, <1>5, <2>1, <2>2
<1> QED BY <1>6, <1>7, SameRemainder

(* Two ways to one slot are equal or a whole ring apart. *)
LEMMA SlotSame ==
  ASSUME NEW i \in Int, NEW n \in Int, NEW m \in Int, n < m, Slot(i, n) = Slot(i, m)
  PROVE  n + KBD_BUF_SIZE <= m
<1>1. KBD_BUF_SIZE \in Nat \ {0}
  BY BufAssumption
<1>2. PICK p \in Int : i + n = KBD_BUF_SIZE * p + Slot(i, n)
  BY SlotIs
<1>3. PICK q \in Int : i + m = KBD_BUF_SIZE * q + Slot(i, m)
  BY SlotIs
<1>4. Slot(i, n) \in 0 .. KBD_BUF_SIZE - 1
  BY SlotIs
<1>5. KBD_BUF_SIZE * (q - p) = m - n
  <2>1. KBD_BUF_SIZE * (q - p) = KBD_BUF_SIZE * q - KBD_BUF_SIZE * p
    BY <1>1, SMT
  <2>2. KBD_BUF_SIZE * p \in Int /\ KBD_BUF_SIZE * q \in Int
    BY <1>1, SMT
  <2>3. Slot(i, n) \in Int
    BY <1>1, <1>4
  <2> QED BY <1>2, <1>3, <2>1, <2>2, <2>3
<1>6. CASE m - n < KBD_BUF_SIZE
  <2>1. q - p = 0
    BY <1>1, <1>5, <1>6, SmallMultiple
  <2> QED BY <1>1, <1>5, <2>1
<1> QED BY <1>1, <1>6

(* No place on, and a whole ring. *)
LEMMA SlotWhole ==
  ASSUME NEW i \in 0 .. KBD_BUF_SIZE - 1
  PROVE  Slot(i, 0) = i /\ Slot(i, KBD_BUF_SIZE) = i
<1>1. KBD_BUF_SIZE \in Nat \ {0}
  BY BufAssumption
<1> i \in Int /\ KBD_BUF_SIZE \in Int
  BY <1>1
<1>2. PICK p \in Int : i + 0 = KBD_BUF_SIZE * p + Slot(i, 0)
  <2>1. i \in Int /\ 0 \in Int
    OBVIOUS
  <2> QED BY ONLY <2>1, SlotIs, Zenon
<1>3. PICK q \in Int : i + KBD_BUF_SIZE = KBD_BUF_SIZE * q + Slot(i, KBD_BUF_SIZE)
  BY <1>1, SlotIs
<1>4. Slot(i, 0) \in 0 .. KBD_BUF_SIZE - 1 /\ Slot(i, KBD_BUF_SIZE) \in 0 .. KBD_BUF_SIZE - 1
  BY <1>1, SlotIs
<1>5. KBD_BUF_SIZE * 0 + i = KBD_BUF_SIZE * p + Slot(i, 0)
  BY <1>1, <1>2, SMT
<1>6. KBD_BUF_SIZE * 1 + i = KBD_BUF_SIZE * q + Slot(i, KBD_BUF_SIZE)
  BY <1>1, <1>3, SMT
<1> QED BY <1>4, <1>5, <1>6, SameRemainder

LEMMA SlotInjective ==
  ASSUME NEW i \in Int, NEW n \in Int, NEW m \in Int,
         n - m < KBD_BUF_SIZE, m - n < KBD_BUF_SIZE, Slot(i, n) = Slot(i, m)
  PROVE  n = m
<1>1. KBD_BUF_SIZE \in Nat \ {0}
  BY BufAssumption
<1>2. CASE n < m
  BY <1>1, <1>2, SlotSame
<1>3. CASE m < n
  BY <1>1, <1>3, SlotSame
<1> QED BY <1>2, <1>3

LEMMA SlotSum ==
  ASSUME NEW i \in Int, NEW n \in Int, NEW j \in Int, NEW m \in Int, i + n = j + m
  PROVE  Slot(i, n) = Slot(j, m)
BY DEF Slot

-----------------------------------------------------------------------------
(* The queue. *)

(* The characters that are pending, in the order they were typed: those in *)
(* the ring, then those in the device.                                     *)
Places == 1 .. Unread + Len(rx)

Queue == [n \in Places |-> IF n <= Unread THEN kbd_buf[Slot(FirstUnread, n - 1)]
                                          ELSE rx[n - Unread]]

(* How far it is in the ring from slot h on to slot t. *)
Distance(h, t) == (t - h + KBD_BUF_SIZE) % KBD_BUF_SIZE

LEMMA DistanceIs ==
  ASSUME NEW h \in 0 .. KBD_BUF_SIZE - 1, NEW t \in 0 .. KBD_BUF_SIZE - 1
  PROVE  /\ Distance(h, t) \in 0 .. KBD_BUF_SIZE - 1
         /\ t = Slot(h, Distance(h, t))
         /\ \A u \in 0 .. KBD_BUF_SIZE - 1 : t = Slot(h, u) => Distance(h, t) = u
<1> DEFINE d == t - h
<1>1. d \in Int /\ h \in Int /\ t \in Int /\ KBD_BUF_SIZE \in Int
  BY BufAssumption
<1>2. Distance(h, t) = Slot(d, KBD_BUF_SIZE)
  BY DEF Distance, Slot
<1>3. Distance(h, t) \in 0 .. KBD_BUF_SIZE - 1
  BY <1>1, <1>2, SlotIs
<1>4. t = Slot(h, Distance(h, t))
  <2>1. Slot(h, Distance(h, t)) = Slot(Slot(d, KBD_BUF_SIZE), h)
    BY <1>1, <1>2, <1>3, SlotSum
  <2>2. Slot(Slot(d, KBD_BUF_SIZE), h) = Slot(d, KBD_BUF_SIZE + h)
    BY <1>1, SlotOn
  <2>3. Slot(d, KBD_BUF_SIZE + h) = Slot(t, KBD_BUF_SIZE)
    BY <1>1, SlotSum
  <2> QED BY <2>1, <2>2, <2>3, SlotWhole
<1>5. ASSUME NEW u \in 0 .. KBD_BUF_SIZE - 1, t = Slot(h, u) PROVE Distance(h, t) = u
  <2>1. /\ Distance(h, t) \in Int /\ u \in Int
        /\ Distance(h, t) - u < KBD_BUF_SIZE /\ u - Distance(h, t) < KBD_BUF_SIZE
    BY <1>1, <1>3
  <2> QED BY <1>1, <1>4, <1>5, <2>1, SlotInjective
<1> QED BY <1>3, <1>4, <1>5

(* The unread slots are the Unread ones from FirstUnread to the tail. *)
LEMMA RingIs ==
  ASSUME TypeOK
  PROVE  /\ FirstUnread \in 0 .. KBD_BUF_SIZE - 1
         /\ Unread \in 0 .. KBD_BUF_SIZE
         /\ kbd_tail = Slot(FirstUnread, Unread)
         /\ pc[current] = "take" => Unread > 0
<1>1. KBD_BUF_SIZE \in Nat \ {0}
  BY BufAssumption
<1>2. kbd_head \in 0 .. KBD_BUF_SIZE - 1 /\ kbd_tail \in 0 .. KBD_BUF_SIZE - 1
  BY DEF TypeOK
<1>3. FirstUnread \in 0 .. KBD_BUF_SIZE - 1
  <2>1. kbd_head \in Int /\ 1 \in Int
    BY <1>1, <1>2
  <2>2. Slot(kbd_head, 1) \in 0 .. KBD_BUF_SIZE - 1
    BY <2>1, SlotIs
  <2> QED BY <1>2, <2>2 DEF FirstUnread
<1>4. CASE pc[current] = "take" /\ kbd_head = kbd_tail
  <2>1. FirstUnread = kbd_tail /\ Unread = KBD_BUF_SIZE
    BY <1>4 DEF FirstUnread, Unread
  <2> QED BY <1>1, <1>2, <1>3, <1>4, <2>1, SlotWhole
<1>5. CASE ~(pc[current] = "take" /\ kbd_head = kbd_tail)
  <2>1. Unread = Distance(FirstUnread, kbd_tail)
    BY <1>5 DEF Unread, Distance
  <2>2. Unread \in 0 .. KBD_BUF_SIZE - 1 /\ kbd_tail = Slot(FirstUnread, Unread)
    BY <1>2, <1>3, <2>1, DistanceIs
  <2>3. ASSUME pc[current] = "take" PROVE Unread # 0
    <3>1. FirstUnread = kbd_head /\ kbd_head # kbd_tail
      BY <1>5, <2>3 DEF FirstUnread
    <3>2. Slot(FirstUnread, 0) = FirstUnread
      BY <1>3, SlotWhole
    <3> QED BY <2>2, <3>1, <3>2
  <2> QED BY <1>1, <1>3, <2>2, <2>3
<1> QED BY <1>4, <1>5

LEMMA QueueTypes ==
  ASSUME TypeOK
  PROVE  /\ Unread \in Nat /\ Len(rx) \in Nat
         /\ \A n \in Places : /\ n \in Nat
                              /\ n <= Unread => Queue[n] = kbd_buf[Slot(FirstUnread, n - 1)]
                              /\ n > Unread => n - Unread \in 1 .. Len(rx) /\ Queue[n] = rx[n - Unread]
<1>1. Unread \in Nat /\ Len(rx) \in Nat
  <2>1. KBD_BUF_SIZE \in Nat \ {0}
    BY BufAssumption
  <2> QED BY <2>1, RingIs DEF TypeOK
<1> QED BY <1>1 DEF Queue, Places

(* What is pending is what is in the queue. *)
LEMMA PendingIs ==
  ASSUME TypeOK
  PROVE  Pending = {Queue[n] : n \in Places}
<1>1. Unread \in Nat /\ Len(rx) \in Nat /\ DOMAIN rx = 1 .. Len(rx)
  BY QueueTypes DEF TypeOK
<1>2. ASSUME NEW i \in 0 .. Unread - 1
      PROVE  i + 1 \in Places /\ Queue[i + 1] = kbd_buf[Slot(FirstUnread, i)]
  BY <1>1 DEF Queue, Places
<1>3. ASSUME NEW k \in 1 .. Len(rx) PROVE Unread + k \in Places /\ Queue[Unread + k] = rx[k]
  BY <1>1 DEF Queue, Places
<1>4. ASSUME NEW n \in Places PROVE Queue[n] \in Pending
  <2>1. CASE n <= Unread
    <3>1. n - 1 \in 0 .. Unread - 1 /\ Queue[n] = kbd_buf[Slot(FirstUnread, n - 1)]
      BY <1>1, <2>1, QueueTypes DEF Places
    <3> QED BY <3>1 DEF Pending, InRing
  <2>2. CASE ~(n <= Unread)
    <3>1. n - Unread \in 1 .. Len(rx) /\ Queue[n] = rx[n - Unread]
      BY <1>1, <2>2, QueueTypes DEF Places
    <3> QED BY <1>1, <3>1 DEF Pending, InDevice
  <2> QED BY <2>1, <2>2
<1>5. ASSUME NEW c \in InRing PROVE c \in {Queue[n] : n \in Places}
  BY <1>2, <1>5 DEF InRing
<1>6. ASSUME NEW c \in InDevice PROVE c \in {Queue[n] : n \in Places}
  BY <1>1, <1>3, <1>6 DEF InDevice
<1> QED BY <1>4, <1>5, <1>6 DEF Pending

-----------------------------------------------------------------------------
(* What each step does to the queue. *)

(* Nothing, and nothing is read. *)
Still == /\ Queue' = Queue /\ Places' = Places /\ Unread' = Unread
         /\ UNCHANGED <<typed, rx, kbd_buf, delivered>>

(* A character is typed. *)
Added == /\ Places' = 1 .. Unread + Len(rx) + 1 /\ Unread' = Unread
         /\ \A n \in Places : Queue'[n] = Queue[n]
         /\ Queue'[Unread + Len(rx) + 1] = typed'
         /\ typed' = typed + 1
         /\ UNCHANGED delivered

(* The k-th is delivered. *)
Removed(k) == /\ k \in Places
              /\ delivered' = Append(delivered, Queue[k])
              /\ Places' = 1 .. Unread + Len(rx) - 1
              /\ \A n \in Places' : Queue'[n] = IF n < k THEN Queue[n] ELSE Queue[n + 1]
              /\ UNCHANGED typed

(* The first c are lost. *)
Cut(c) == /\ c \in Nat
          /\ c # 0 => c >= Unread /\ Unread + Len(rx) >= KBD_BUF_SIZE
          /\ c <= Unread + Len(rx)
          /\ Places' = 1 .. Unread + Len(rx) - c
          /\ \A n \in Places' : Queue'[n] = Queue[n + c]
          /\ UNCHANGED <<typed, delivered>>

LEMMA StillIs ==
  ASSUME UNCHANGED <<typed, rx, kbd_buf, delivered>>,
         FirstUnread' = FirstUnread, Unread' = Unread
  PROVE  Still
BY DEF Still, Queue, Places

(* The steps that neither take a character nor move the ring. *)
LEMMA QuietSteps ==
  ASSUME TypeOK, NEW p \in Procs,
         Call(p) \/ Test(p) \/ Status(p) \/ DataGone(p) \/ YieldAlone(p) \/ SwitchTo(p) \/ Kill(p)
  PROVE  Still
<1>1. UNCHANGED <<typed, rx, kbd_buf, delivered, kbd_head, kbd_tail>>
  BY DEF Call, Test, Status, DataGone, YieldAlone, SwitchTo, Kill, ringVars
<1>2. FirstUnread' = FirstUnread /\ Unread' = Unread
  <2>1. CASE Test(p)
    <3>1. /\ pc[current] = "test" /\ current' = current
          /\ pc'[current] = IF kbd_head = kbd_tail THEN "status" ELSE "take"
      BY <2>1 DEF Test, At, Goto, TypeOK, RingEmpty
    <3> QED BY <1>1, <3>1 DEF FirstUnread, Unread, Slot
  <2>2. CASE ~Test(p)
    <3>1. pc[current] \notin {"take", "advance"} /\ pc'[current'] \notin {"take", "advance"}
      BY <2>2 DEF Call, Status, DataGone, YieldAlone, SwitchTo, Kill, At, Goto, TypeOK
    <3> QED BY <1>1, <3>1 DEF FirstUnread, Unread
  <2> QED BY <2>1, <2>2
<1> QED BY <1>1, <1>2, StillIs

LEMMA AdvanceStep ==
  ASSUME TypeOK, NEW p \in Procs, Advance(p)
  PROVE  Still
<1>1. /\ UNCHANGED <<typed, rx, kbd_buf, delivered, kbd_tail>> /\ current' = current
      /\ pc[current] = "advance" /\ pc'[current] = "out" /\ kbd_head' = Slot(kbd_head, 1)
  BY DEF Advance, Return, At, Goto, TypeOK
<1>2. FirstUnread' = FirstUnread
  BY <1>1 DEF FirstUnread
<1>3. Unread' = Unread
  BY <1>1, <1>2 DEF Unread
<1> QED BY <1>1, <1>2, <1>3, StillIs

LEMMA TypeStep ==
  ASSUME TypeOK, Type
  PROVE  Added
<1>1. /\ UNCHANGED <<kbd_buf, kbd_head, kbd_tail, pc, current, delivered>>
      /\ typed' = typed + 1 /\ rx' = Append(rx, typed')
  BY DEF Type, ringVars
<1>2. FirstUnread' = FirstUnread /\ Unread' = Unread
  BY <1>1 DEF FirstUnread, Unread
<1>3. Unread \in Nat /\ Len(rx) \in Nat
  BY QueueTypes
<1>4. /\ Len(rx') = Len(rx) + 1 /\ rx'[Len(rx) + 1] = typed'
      /\ \A k \in 1 .. Len(rx) : rx'[k] = rx[k]
  BY <1>1 DEF TypeOK
<1>5. Places' = 1 .. Unread + Len(rx) + 1
  BY <1>2, <1>3, <1>4 DEF Places
<1>6. \A n \in Places' : Queue'[n] = IF n <= Unread THEN kbd_buf[Slot(FirstUnread, n - 1)]
                                                    ELSE rx'[n - Unread]
  BY <1>1, <1>2 DEF Queue
<1>7. ASSUME NEW n \in Places PROVE Queue'[n] = Queue[n]
  <2>1. n \in Places'
    <3>1. Places = 1 .. Unread + Len(rx)
      BY DEF Places
    <3> QED BY <1>3, <1>5, <3>1
  <2>2. CASE n <= Unread
    BY <1>6, <2>1, <2>2, QueueTypes
  <2>3. CASE ~(n <= Unread)
    <3>1. n - Unread \in 1 .. Len(rx) /\ Queue[n] = rx[n - Unread]
      BY <1>3, <2>3, QueueTypes DEF Places
    <3> QED BY <1>4, <1>6, <2>1, <2>3, <3>1
  <2> QED BY <2>2, <2>3
<1>8. Queue'[Unread + Len(rx) + 1] = typed'
  <2> DEFINE last == Unread + Len(rx) + 1
  <2>1. last \in Places' /\ ~(last <= Unread) /\ last - Unread = Len(rx) + 1
    BY <1>3, <1>5
  <2> HIDE DEF last
  <2>2. Queue'[last] = rx'[last - Unread]
    BY <1>6, <2>1
  <2> QED BY <1>4, <2>1, <2>2 DEF last
<1> QED BY <1>1, <1>2, <1>5, <1>7, <1>8 DEF Added

LEMMA DataStep ==
  ASSUME TypeOK, NEW p \in Procs, Data(p)
  PROVE  /\ Removed(Unread + 1) /\ Unread' = Unread /\ rx # <<>>
         /\ pc[current] = "data" /\ pc'[current'] = "out"
<1>1. /\ UNCHANGED <<typed, kbd_buf, kbd_head, kbd_tail, current>> /\ rx # <<>>
      /\ rx' = Tail(rx) /\ delivered' = Append(delivered, Head(rx))
      /\ pc[current] = "data" /\ pc'[current] = "out"
  BY DEF Data, Return, At, Goto, TypeOK, ringVars
<1>2. FirstUnread' = FirstUnread /\ Unread' = Unread
  BY <1>1 DEF FirstUnread, Unread
<1>3. Unread \in Nat /\ Len(rx) \in Nat /\ Places = 1 .. Unread + Len(rx)
  BY QueueTypes DEF Places
<1>4. /\ Len(rx) > 0 /\ Len(rx') = Len(rx) - 1 /\ Head(rx) = rx[1]
      /\ \A k \in 1 .. Len(rx) - 1 : rx'[k] = rx[k + 1]
  BY <1>1 DEF TypeOK
<1>5. Unread + 1 \in Places /\ Queue[Unread + 1] = Head(rx)
  <2>1. Unread + 1 \in Places /\ Unread + 1 > Unread /\ Unread + 1 - Unread = 1
    BY <1>3, <1>4
  <2> QED BY <1>4, <2>1, QueueTypes
<1>6. Places' = 1 .. Unread + Len(rx) - 1
  <2>1. Places' = 1 .. Unread + Len(rx')
    BY <1>2 DEF Places
  <2> QED BY <1>3, <1>4, <2>1
<1>7. \A n \in Places' : Queue'[n] = IF n <= Unread THEN kbd_buf[Slot(FirstUnread, n - 1)]
                                                    ELSE rx'[n - Unread]
  BY <1>1, <1>2 DEF Queue
<1>8. ASSUME NEW n \in Places'
      PROVE  Queue'[n] = IF n < Unread + 1 THEN Queue[n] ELSE Queue[n + 1]
  <2>1. n \in Places /\ n + 1 \in Places /\ n \in Nat
    BY <1>3, <1>6
  <2>2. CASE n <= Unread
    BY <1>3, <1>7, <2>1, <2>2, QueueTypes
  <2>3. CASE ~(n <= Unread)
    <3>1. n - Unread \in 1 .. Len(rx) - 1 /\ (n + 1) - Unread = (n - Unread) + 1 /\ n + 1 > Unread
      BY <1>3, <1>6, <2>1, <2>3
    <3>2. Queue[n + 1] = rx[(n - Unread) + 1]
      BY <2>1, <3>1, QueueTypes
    <3>3. Queue'[n] = rx'[n - Unread]
      BY <1>7, <2>3
    <3>4. ~(n < Unread + 1)
      BY <1>3, <2>1, <2>3
    <3> QED BY <1>4, <3>1, <3>2, <3>3, <3>4
  <2> QED BY <2>2, <2>3
<1> QED BY <1>1, <1>2, <1>5, <1>6, <1>8 DEF Removed

LEMMA TakeStep ==
  ASSUME TypeOK, NEW p \in Procs, Take(p)
  PROVE  Removed(1) /\ Unread' = Unread - 1 /\ Unread > 0 /\ pc'[current'] = "advance"
<1>1. /\ UNCHANGED <<typed, rx, kbd_buf, kbd_head, kbd_tail, current>>
      /\ delivered' = Append(delivered, kbd_buf[kbd_head])
      /\ pc[current] = "take" /\ pc'[current] = "advance"
  BY DEF Take, At, Goto, TypeOK, ringVars
<1>2. FirstUnread = kbd_head /\ FirstUnread' = Slot(kbd_head, 1)
  BY <1>1 DEF FirstUnread
<1>3. /\ Unread \in Nat /\ Len(rx) \in Nat /\ Places = 1 .. Unread + Len(rx)
      /\ Unread \in 0 .. KBD_BUF_SIZE /\ Unread > 0 /\ KBD_BUF_SIZE \in Nat
      /\ kbd_head \in 0 .. KBD_BUF_SIZE - 1 /\ kbd_head \in Int
  BY <1>1, BufAssumption, QueueTypes, RingIs DEF Places, TypeOK
<1>4. Unread' = Unread - 1
  <2>1. Slot(FirstUnread', Unread - 1) = Slot(kbd_head, 1 + (Unread - 1))
    BY <1>2, <1>3, SlotOn
  <2>2. 1 + (Unread - 1) = Unread /\ Unread - 1 \in 0 .. KBD_BUF_SIZE - 1
    BY <1>3
  <2>3. kbd_tail' = Slot(FirstUnread', Unread - 1)
    BY <1>1, <1>2, <2>1, <2>2, RingIs
  <2>4. Unread' = Distance(FirstUnread', kbd_tail')
    BY <1>1 DEF Unread, Distance
  <2>5. Slot(kbd_head, 1) \in 0 .. KBD_BUF_SIZE - 1 /\ kbd_tail \in 0 .. KBD_BUF_SIZE - 1
    <3>1. kbd_head \in Int /\ 1 \in Int
      BY <1>3
    <3> QED BY <3>1, SlotIs DEF TypeOK
  <2>6. Unread' = Distance(Slot(kbd_head, 1), kbd_tail) /\ kbd_tail = Slot(Slot(kbd_head, 1), Unread - 1)
    BY <1>1, <1>2, <2>3, <2>4
  <2> QED BY <2>2, <2>5, <2>6, DistanceIs
<1>5. 1 \in Places /\ Queue[1] = kbd_buf[kbd_head]
  <2>1. 1 \in Places /\ 1 <= Unread /\ 1 - 1 = 0
    BY <1>3
  <2>2. Slot(FirstUnread, 1 - 1) = kbd_head
    BY <1>2, <1>3, <2>1, SlotWhole
  <2> QED BY <2>1, <2>2, QueueTypes
<1>6. Places' = 1 .. Unread + Len(rx) - 1
  <2>1. Places' = 1 .. (Unread - 1) + Len(rx)
    BY <1>1, <1>4 DEF Places
  <2> QED BY <1>3, <2>1
<1>7. \A n \in Places' : Queue'[n] = IF n <= Unread - 1 THEN kbd_buf[Slot(Slot(kbd_head, 1), n - 1)]
                                                        ELSE rx[n - (Unread - 1)]
  BY <1>1, <1>2, <1>4 DEF Queue, Slot
<1>8. ASSUME NEW n \in Places' PROVE Queue'[n] = Queue[n + 1]
  <2>1. n + 1 \in Places /\ n \in Nat /\ n >= 1
    BY <1>3, <1>6
  <2>2. CASE n <= Unread - 1
    <3>1. Slot(Slot(kbd_head, 1), n - 1) = Slot(kbd_head, 1 + (n - 1))
      BY <1>3, <2>1, SlotOn
    <3>2. 1 + (n - 1) = (n + 1) - 1 /\ n + 1 <= Unread
      BY <1>3, <2>1, <2>2
    <3>3. Queue[n + 1] = kbd_buf[Slot(kbd_head, (n + 1) - 1)]
      BY <1>2, <2>1, <3>2, QueueTypes
    <3> QED BY <1>7, <2>2, <3>1, <3>2, <3>3
  <2>3. CASE ~(n <= Unread - 1)
    <3>1. n + 1 > Unread /\ (n + 1) - Unread = n - (Unread - 1)
      BY <1>3, <2>1, <2>3
    <3>2. Queue[n + 1] = rx[(n + 1) - Unread]
      BY <2>1, <3>1, QueueTypes
    <3> QED BY <1>7, <2>3, <3>1, <3>2
  <2> QED BY <2>2, <2>3
<1>9. \A n \in Places' : Queue'[n] = IF n < 1 THEN Queue[n] ELSE Queue[n + 1]
  BY <1>3, <1>6, <1>8
<1> QED BY <1>1, <1>3, <1>4, <1>5, <1>6, <1>9 DEF Removed

(* The interrupt leaves the front of the queue out if the ring overflows,  *)
(* and then it has at least reached what came from the device.             *)
LEMMA InterruptStep ==
  ASSUME TypeOK, Interrupt
  PROVE  /\ Cut(Unread + Len(rx) - Unread')
         /\ Len(rx') = 0 /\ Unread' \in Nat /\ UNCHANGED <<pc, current>>
<1> DEFINE r == Len(rx)
           F == FirstUnread
           u == Unread'
           c == Unread + r - u
<1>1. /\ UNCHANGED <<typed, kbd_head, pc, current, delivered>> /\ rx # <<>> /\ rx' = <<>>
      /\ kbd_tail' = Slot(kbd_tail, r)
  BY DEF Interrupt
<1>2. \A i \in 0 .. KBD_BUF_SIZE - 1 :
        kbd_buf'[i] = LET here == {k \in 1 .. r : Slot(kbd_tail, k - 1) = i}
                      IN IF here = {} THEN kbd_buf[i]
                         ELSE rx[CHOOSE k \in here : \A m \in here : m <= k]
  BY DEF Interrupt, TypeOK
<1>3. /\ KBD_BUF_SIZE \in Nat \ {0} /\ F \in 0 .. KBD_BUF_SIZE - 1 /\ F \in Int
      /\ Unread \in 0 .. KBD_BUF_SIZE /\ Unread \in Nat /\ r \in Nat /\ r > 0
      /\ kbd_tail = Slot(F, Unread) /\ kbd_tail \in Int
      /\ kbd_tail \in 0 .. KBD_BUF_SIZE - 1 /\ kbd_head \in 0 .. KBD_BUF_SIZE - 1
      /\ Places = 1 .. Unread + r
  <2>1. r \in Nat /\ r > 0
    BY <1>1 DEF TypeOK
  <2> QED BY <2>1, BufAssumption, RingIs DEF TypeOK, Places
<1>4. /\ FirstUnread' = F
      /\ u \in 0 .. KBD_BUF_SIZE /\ u \in Nat
      /\ kbd_tail' = Slot(F, u)
      /\ pc[current] = "take" /\ kbd_head = kbd_tail' => u = KBD_BUF_SIZE
      /\ ~(pc[current] = "take" /\ kbd_head = kbd_tail') => u < KBD_BUF_SIZE
  <2>1. FirstUnread' = F
    BY <1>1 DEF FirstUnread, Slot
  <2>2. CASE pc[current] = "take" /\ kbd_head = kbd_tail'
    <3>1. u = KBD_BUF_SIZE
      BY <1>1, <2>2 DEF Unread
    <3>2. F = kbd_head
      BY <2>2 DEF FirstUnread
    <3>3. Slot(F, KBD_BUF_SIZE) = F
      BY <1>3, SlotWhole
    <3> HIDE DEF F, u
    <3> QED BY <1>3, <2>1, <2>2, <3>1, <3>2, <3>3
  <2>3. CASE ~(pc[current] = "take" /\ kbd_head = kbd_tail')
    <3>1. u = Distance(FirstUnread', kbd_tail')
      BY <1>1, <2>3 DEF Unread, Distance
    <3>2. kbd_tail' \in 0 .. KBD_BUF_SIZE - 1
      BY <1>1, <1>3, SlotIs
    <3>3. Distance(F, kbd_tail') \in 0 .. KBD_BUF_SIZE - 1 /\ kbd_tail' = Slot(F, Distance(F, kbd_tail'))
      BY <1>3, <3>2, DistanceIs
    <3> HIDE DEF F, u
    <3> QED BY <1>3, <2>1, <2>3, <3>1, <3>3
  <2> QED BY <2>2, <2>3
<1> HIDE DEF F, u
<1>5. Slot(F, u) = Slot(F, Unread + r)
  <2>1. r \in Int /\ Unread \in Int
    BY <1>3
  <2>2. Slot(Slot(F, Unread), r) = Slot(F, Unread + r)
    BY <1>3, <2>1, SlotOn
  <2> QED BY <1>1, <1>3, <1>4, <2>2
(* What is cut off is a number of rings. *)
<1>6. c \in Nat /\ (c = 0 \/ c >= KBD_BUF_SIZE)
  <2>1. CASE u < Unread + r
    <3>1. u + KBD_BUF_SIZE <= Unread + r
      BY <1>3, <1>4, <1>5, <2>1, SlotSame
    <3> QED BY <1>3, <1>4, <3>1
  <2>2. CASE u > Unread + r
    <3>1. Unread + r + KBD_BUF_SIZE <= u
      BY <1>3, <1>4, <1>5, <2>2, SlotSame
    <3> QED BY <1>3, <1>4, <3>1
  <2>3. CASE u = Unread + r
    BY <1>3, <1>4, <2>3
  <2> QED BY <1>3, <1>4, <2>1, <2>2, <2>3
<1>7. c <= Unread + r /\ u = Unread + r - c /\ (c # 0 => c >= Unread /\ Unread + r >= KBD_BUF_SIZE)
  BY <1>3, <1>4, <1>6
(* So the slot i places on is the one i + c places on. *)
<1>8. ASSUME NEW i \in 0 .. u - 1
      PROVE  /\ Slot(F, i) = Slot(F, i + c) /\ i \in Nat /\ i + c \in 0 .. Unread + r - 1
             /\ Slot(F, i) \in 0 .. KBD_BUF_SIZE - 1
  <2>1. i - u \in Int /\ u \in Int /\ Unread + r \in Int /\ i \in Int
    BY <1>3, <1>4
  <2>2. Slot(Slot(F, u), i - u) = Slot(F, u + (i - u)) /\ u + (i - u) = i
    BY <1>3, <2>1, SlotOn
  <2>3. Slot(Slot(F, Unread + r), i - u) = Slot(F, (Unread + r) + (i - u))
    BY <1>3, <2>1, SlotOn
  <2>4. (Unread + r) + (i - u) = i + c
    BY <1>3, <1>4, <2>1
  <2>5. Slot(F, i) \in 0 .. KBD_BUF_SIZE - 1
    BY <1>3, <2>1, SlotIs
  <2>6. i \in Nat /\ i + c \in 0 .. Unread + r - 1
    BY <1>3, <1>4, <1>6, <1>7
  <2> HIDE DEF c
  <2> QED BY <1>5, <2>2, <2>3, <2>4, <2>5, <2>6
<1>9. ASSUME NEW i \in 0 .. u - 1, NEW k \in 1 .. r
      PROVE  /\ Slot(kbd_tail, k - 1) = Slot(F, Unread + (k - 1))
             /\ Unread + (k - 1) \in Int
  <2>1. k - 1 \in Int /\ Unread \in Int
    BY <1>3
  <2> QED BY <1>3, <2>1, SlotOn
<1> HIDE DEF c
<1>10. ASSUME NEW i \in 0 .. u - 1, i + c < Unread
       PROVE  kbd_buf'[Slot(F, i)] = kbd_buf[Slot(F, i)]
  <2>1. c = 0 /\ u <= KBD_BUF_SIZE
    BY <1>3, <1>4, <1>6, <1>7, <1>8, <1>10
  <2>2. ASSUME NEW k \in 1 .. r, Slot(kbd_tail, k - 1) = Slot(F, i) PROVE FALSE
    <3>1. i \in Int /\ i < Unread + (k - 1) /\ Unread + (k - 1) < i + KBD_BUF_SIZE
      BY <1>3, <1>4, <1>7, <1>8, <1>10, <2>1
    <3>2. Slot(F, i) = Slot(F, Unread + (k - 1))
      BY <1>9, <2>2
    <3> QED BY <1>3, <1>9, <3>1, <3>2, SlotSame
  <2>3. {k \in 1 .. r : Slot(kbd_tail, k - 1) = Slot(F, i)} = {}
    BY <2>2
  <2> QED BY <1>2, <1>8, <2>3
<1>11. ASSUME NEW i \in 0 .. u - 1, ~(i + c < Unread)
       PROVE  kbd_buf'[Slot(F, i)] = rx[i + c - Unread + 1]
  <2> DEFINE here == {k \in 1 .. r : Slot(kbd_tail, k - 1) = Slot(F, i)}
             last == i + c - Unread + 1
  <2>1. last \in 1 .. r /\ Unread + (last - 1) = i + c
    BY <1>3, <1>6, <1>8, <1>11
  <2>2. last \in here
    BY <1>8, <1>9, <2>1
  <2>3. ASSUME NEW m \in here PROVE m <= last
    <3>1. m \in 1 .. r /\ Slot(F, Unread + (m - 1)) = Slot(F, i + c)
      BY <1>8, <1>9, <2>3
    <3>2. CASE i + c < Unread + (m - 1)
      <4>1. i + c \in Int /\ Unread + (m - 1) \in Int
        BY <1>3, <1>8, <3>1
      <4>2. i + c + KBD_BUF_SIZE <= Unread + (m - 1)
        BY <1>3, <3>1, <3>2, <4>1, SlotSame
      <4>3. Unread + (m - 1) < u + c /\ u <= KBD_BUF_SIZE
        BY <1>3, <1>4, <1>6, <1>7, <3>1
      <4> QED BY <1>3, <1>4, <1>6, <1>8, <4>1, <4>2, <4>3
    <3> QED BY <1>3, <1>6, <1>8, <2>1, <3>1, <3>2
  <2>4. \A k \in here : (\A m \in here : m <= k) => k = last
    <3>1. \A k \in here : k \in Int
      OBVIOUS
    <3> HIDE DEF here, last
    <3> QED BY <2>1, <2>2, <2>3, <3>1
  <2>5. (CHOOSE k \in here : \A m \in here : m <= k) = last
    <3> HIDE DEF here, last
    <3> QED BY <2>2, <2>3, <2>4
  <2> QED BY <1>2, <1>8, <2>2, <2>5
<1>12. Places' = 1 .. Unread + r - c /\ Places' = 1 .. u /\ Len(rx') = 0
  <2>1. Places' = 1 .. u + Len(rx') /\ Len(rx') = 0
    BY <1>1 DEF Places, u
  <2> QED BY <1>3, <1>4, <1>6, <1>7, <2>1
<1>13. \A n \in Places' : n <= u => Queue'[n] = kbd_buf'[Slot(F, n - 1)]
  BY <1>4 DEF Queue, Slot, u
<1>14. ASSUME NEW n \in Places' PROVE Queue'[n] = Queue[n + c]
  <2> DEFINE i == n - 1
             m == n + c
  <2>1. /\ i \in 0 .. u - 1 /\ Queue'[n] = kbd_buf'[Slot(F, i)] /\ i + c = m - 1
        /\ m \in Nat /\ m \in Places /\ i + c - Unread + 1 = m - Unread
        /\ i + c < Unread <=> m <= Unread
    BY <1>3, <1>4, <1>6, <1>7, <1>12, <1>13
  <2> HIDE DEF i, m
  <2>2. CASE i + c < Unread
    <3>1. Queue[m] = kbd_buf[Slot(F, m - 1)]
      BY <2>1, <2>2, QueueTypes DEF F
    <3> QED BY <1>8, <1>10, <2>1, <2>2, <3>1 DEF m
  <2>3. CASE ~(i + c < Unread)
    <3>1. m > Unread
      BY <1>3, <2>1, <2>3
    <3>2. Queue[m] = rx[m - Unread]
      BY <2>1, <3>1, QueueTypes
    <3> QED BY <1>11, <2>1, <2>3, <3>2 DEF m
  <2> QED BY <2>2, <2>3
<1>15. Cut(c)
  BY <1>1, <1>6, <1>7, <1>12, <1>14 DEF Cut
<1> QED BY <1>1, <1>4, <1>12, <1>15 DEF c, u

-----------------------------------------------------------------------------
(* The inductive invariant. *)

(* The queue is in the order typed, and nothing in it or delivered has not *)
(* been typed.                                                             *)
Ordered == /\ \A n \in Places : Queue[n] \in 1 .. typed
           /\ \A m \in Places, n \in Places : m < n => Queue[m] < Queue[n]
           /\ \A k \in 1 .. Len(delivered) : delivered[k] \in 1 .. typed

(* The CPU is with a process that has found the ring empty and is going to *)
(* ask the device.                                                         *)
Polling == pc[current] \in {"status", "data"}

(* What is in the device is newer than all that was delivered, and while   *)
(* the device is asked so is what an interrupt has put in the ring.        *)
Fresh == \A n \in Places : n > Unread \/ Polling =>
           \A k \in 1 .. Len(delivered) : delivered[k] < Queue[n]

(* Of the first n that were delivered one at most is newer than c. *)
AtMostOne(c, n) == \A k \in 1 .. n, l \in 1 .. n : delivered[k] > c /\ delivered[l] > c => k = l

Overtaken == /\ \A n \in Places : AtMostOne(Queue[n], Len(delivered))
             /\ \A n \in 1 .. Len(delivered) : AtMostOne(delivered[n], n - 1)

InOrder == Ordered /\ Fresh /\ Overtaken

IInv == TypeOK /\ InOrder

LEMMA Types ==
  ASSUME TypeOK
  PROVE  /\ Unread \in Nat /\ Len(rx) \in Nat /\ Places = 1 .. Unread + Len(rx)
         /\ Len(delivered) \in Nat /\ typed \in Nat /\ MaxTyped \in Nat /\ typed <= MaxTyped
BY QueueTypes, TypedAssumption DEF TypeOK, Places

LEMMA StillInOrder ==
  ASSUME TypeOK, InOrder, Still, Polling' => Polling \/ Unread = 0
  PROVE  InOrder'
<1>1. /\ Queue' = Queue /\ Places' = Places /\ Unread' = Unread
      /\ delivered' = delivered /\ typed' = typed
  BY DEF Still
<1>2. Ordered'
  BY <1>1 DEF InOrder, Ordered
<1>3. Overtaken'
  BY <1>1 DEF InOrder, Overtaken, AtMostOne
<1>4. \A n \in Places : n > Unread \/ Polling' => n > Unread \/ Polling
  BY Types
<1>5. Fresh'
  BY <1>1, <1>4 DEF InOrder, Fresh
<1> QED BY <1>2, <1>3, <1>5 DEF InOrder

LEMMA AddedInOrder ==
  ASSUME TypeOK, InOrder, Added, Polling' = Polling
  PROVE  InOrder'
<1> DEFINE last == Unread + Len(rx) + 1
<1>1. /\ Unread' = Unread /\ delivered' = delivered /\ typed' = typed + 1
      /\ \A n \in Places : Queue'[n] = Queue[n]
      /\ Queue'[last] = typed + 1
  BY DEF Added
<1>2. \A n \in Places' : n \in Places \/ n = last
  BY Types DEF Added
<1>3. \A n \in Places : n < last
  BY Types
<1> HIDE DEF last
<1>4. /\ \A n \in Places : Queue[n] \in 1 .. typed
      /\ \A m \in Places, n \in Places : m < n => Queue[m] < Queue[n]
      /\ \A k \in 1 .. Len(delivered) : delivered[k] \in 1 .. typed
      /\ typed \in Nat /\ Len(delivered) \in Nat
  BY Types DEF InOrder, Ordered
<1>5. Ordered'
  <2>1. \A n \in Places' : Queue'[n] \in 1 .. typed + 1
    BY <1>1, <1>2, <1>4
  <2>2. ASSUME NEW m \in Places', NEW n \in Places', m < n PROVE Queue'[m] < Queue'[n]
    <3>1. CASE m \in Places /\ n \in Places
      BY <1>1, <1>4, <2>2, <3>1
    <3>2. CASE m \in Places /\ n = last
      <4>1. Queue'[m] \in 1 .. typed /\ Queue'[n] = typed + 1
        BY <1>1, <1>4, <3>2
      <4> QED BY <1>4, <4>1
    <3>3. m # last
      BY <1>2, <1>3, <2>2, Types DEF last
    <3> QED BY <1>2, <3>1, <3>2, <3>3
  <2>3. \A k \in 1 .. Len(delivered) : delivered[k] \in 1 .. typed + 1
    BY <1>4
  <2> QED BY <1>1, <2>1, <2>2, <2>3 DEF Ordered
<1>6. Fresh'
  <2> SUFFICES ASSUME NEW n \in Places', n > Unread \/ Polling, NEW k \in 1 .. Len(delivered)
               PROVE  delivered[k] < Queue'[n]
    BY <1>1 DEF Fresh
  <2>1. CASE n \in Places
    BY <1>1, <2>1 DEF InOrder, Fresh
  <2>2. CASE n = last
    <3>1. Queue'[n] = typed + 1 /\ delivered[k] \in 1 .. typed
      BY <1>1, <1>4, <2>2
    <3> QED BY <1>4, <3>1
  <2> QED BY <1>2, <2>1, <2>2
<1>7. Overtaken'
  <2>1. \A n \in 1 .. Len(delivered) : AtMostOne(delivered[n], n - 1)
    BY DEF InOrder, Overtaken
  <2>2. AtMostOne(typed + 1, Len(delivered))
    BY <1>4 DEF AtMostOne
  <2>3. \A n \in Places : AtMostOne(Queue[n], Len(delivered))
    BY DEF InOrder, Overtaken
  <2>4. \A n \in Places' : AtMostOne(Queue'[n], Len(delivered))
    BY <1>1, <1>2, <2>2, <2>3
  <2> QED BY <1>1, <2>1, <2>4 DEF Overtaken, AtMostOne
<1> QED BY <1>5, <1>6, <1>7 DEF InOrder

LEMMA CutInOrder ==
  ASSUME TypeOK, InOrder, NEW c, Cut(c), Len(rx') = 0, Unread' \in Nat, Polling' = Polling
  PROVE  InOrder'
<1>1. /\ delivered' = delivered /\ typed' = typed /\ c \in Nat
      /\ \A n \in Places' : Queue'[n] = Queue[n + c]
  BY DEF Cut
<1>2. \A n \in Places' : n + c \in Places /\ n \in Nat
  BY <1>1, Types DEF Cut
<1>3. \A n \in Places' : ~(n > Unread')
  <2>1. Places' = 1 .. Unread' + Len(rx')
    BY DEF Places
  <2>2. Len(rx') = 0 /\ Unread' \in Nat
    OBVIOUS
  <2>3. Places' = 1 .. Unread'
    BY ONLY <2>1, <2>2
  <2> QED BY ONLY <2>2, <2>3
<1>4. Ordered'
  <2>1. \A n \in Places' : Queue'[n] \in 1 .. typed
    BY <1>1, <1>2 DEF InOrder, Ordered
  <2>2. ASSUME NEW m \in Places', NEW n \in Places', m < n PROVE Queue'[m] < Queue'[n]
    <3>1. m + c \in Places /\ n + c \in Places /\ m + c < n + c
      BY <1>1, <1>2, <2>2
    <3> QED BY <1>1, <3>1 DEF InOrder, Ordered
  <2>3. \A k \in 1 .. Len(delivered) : delivered[k] \in 1 .. typed
    BY DEF InOrder, Ordered
  <2> QED BY <1>1, <2>1, <2>2, <2>3 DEF Ordered
<1>5. Fresh'
  <2> SUFFICES ASSUME NEW n \in Places', Polling, NEW k \in 1 .. Len(delivered)
               PROVE  delivered[k] < Queue'[n]
    BY <1>1, <1>3 DEF Fresh
  <2> QED BY <1>1, <1>2 DEF InOrder, Fresh
<1>6. Overtaken'
  <2>1. \A n \in 1 .. Len(delivered) : AtMostOne(delivered[n], n - 1)
    BY DEF InOrder, Overtaken
  <2>2. \A n \in Places : AtMostOne(Queue[n], Len(delivered))
    BY DEF InOrder, Overtaken
  <2>3. \A n \in Places' : AtMostOne(Queue'[n], Len(delivered))
    BY <1>1, <1>2, <2>2
  <2> QED BY <1>1, <2>1, <2>3 DEF Overtaken, AtMostOne
<1> QED BY <1>4, <1>5, <1>6 DEF InOrder

(* Delivering the first of the ring, or the first of the device while it   *)
(* is asked.                                                               *)
LEMMA RemovedInOrder ==
  ASSUME TypeOK, InOrder, NEW k, Removed(k), ~Polling',
         \/ k = 1 /\ Unread' = Unread - 1
         \/ k = Unread + 1 /\ Unread' = Unread /\ Polling
  PROVE  InOrder'
<1> DEFINE last == Len(delivered) + 1
           from(n) == IF n < k THEN n ELSE n + 1
<1>1. /\ typed' = typed /\ k \in Places /\ k \in Nat
      /\ delivered' = Append(delivered, Queue[k])
      /\ Len(delivered) \in Nat
  BY Types DEF Removed
<1>2. /\ Len(delivered') = last /\ delivered'[last] = Queue[k] /\ last \in Nat
      /\ \A l \in 1 .. Len(delivered) : delivered'[l] = delivered[l]
      /\ \A l \in 1 .. last : l \in 1 .. Len(delivered) \/ l = last
  BY <1>1 DEF TypeOK
<1>3. \A n \in Places' : /\ from(n) \in Places \ {k} /\ n \in Nat /\ from(n) \in Nat
                         /\ Queue'[n] = Queue[from(n)]
  BY <1>1, Types DEF Removed
<1>4. \A m \in Places', n \in Places' : m < n => from(m) < from(n)
  BY <1>1, <1>3
<1>5. \A n \in Places' : n > Unread' => from(n) > Unread /\ from(n) > k
  BY <1>1, <1>3, Types
<1> HIDE DEF last, from
<1>6. /\ \A n \in Places : Queue[n] \in 1 .. typed
      /\ \A m \in Places, n \in Places : m < n => Queue[m] < Queue[n]
      /\ \A l \in 1 .. Len(delivered) : delivered[l] \in 1 .. typed
      /\ typed \in Nat
  BY Types DEF InOrder, Ordered
<1>7. Ordered'
  <2>1. \A n \in Places' : Queue'[n] \in 1 .. typed
    BY <1>3, <1>6
  <2>2. ASSUME NEW m \in Places', NEW n \in Places', m < n PROVE Queue'[m] < Queue'[n]
    <3>1. from(m) \in Places /\ from(n) \in Places /\ from(m) < from(n)
      BY <1>3, <1>4, <2>2
    <3> QED BY <1>3, <1>6, <3>1
  <2>3. \A l \in 1 .. last : delivered'[l] \in 1 .. typed
    BY <1>1, <1>2, <1>6
  <2> QED BY <1>1, <1>2, <2>1, <2>2, <2>3 DEF Ordered
<1>8. Fresh'
  <2> SUFFICES ASSUME NEW n \in Places', n > Unread', NEW l \in 1 .. last
               PROVE  delivered'[l] < Queue'[n]
    BY <1>2 DEF Fresh
  <2>1. from(n) \in Places /\ from(n) > Unread /\ k < from(n) /\ Queue'[n] = Queue[from(n)]
    BY <1>1, <1>3, <1>5
  <2>2. CASE l \in 1 .. Len(delivered)
    BY <1>2, <2>1, <2>2 DEF InOrder, Fresh
  <2>3. CASE l = last
    BY <1>1, <1>2, <1>6, <2>1, <2>3
  <2> QED BY <1>2, <2>2, <2>3
(* Of all that is delivered one at most is newer than what is pending. *)
<1>9. ASSUME NEW n \in Places', NEW l \in 1 .. last, NEW m \in 1 .. last,
             delivered'[l] > Queue'[n], delivered'[m] > Queue'[n]
      PROVE  l = m
  <2>1. from(n) \in Places /\ from(n) # k /\ Queue'[n] = Queue[from(n)]
    BY <1>3
  <2>2. AtMostOne(Queue[from(n)], Len(delivered))
    BY <2>1 DEF InOrder, Overtaken
  <2>3. CASE k = 1
    <3>1. k < from(n)
      BY <1>1, <1>3, <2>1, <2>3, Types
    <3>2. Queue[k] < Queue[from(n)] /\ Queue[k] \in Int /\ Queue[from(n)] \in Int
      <4>1. Queue[k] < Queue[from(n)]
        BY ONLY <1>1, <1>6, <2>1, <3>1, Zenon
      <4>2. Queue[k] \in 1 .. typed /\ Queue[from(n)] \in 1 .. typed
        BY ONLY <1>1, <1>6, <2>1, Zenon
      <4> QED BY <4>1, <4>2
    <3>3. l # last /\ m # last
      BY <1>2, <1>9, <2>1, <3>2
    <3>4. l \in 1 .. Len(delivered) /\ m \in 1 .. Len(delivered)
      BY <1>2, <3>3
    <3> QED BY <1>2, <1>9, <2>1, <2>2, <3>4 DEF AtMostOne
  <2>4. CASE Polling
    <3>1. \A j \in 1 .. Len(delivered) : delivered[j] < Queue[from(n)] /\ delivered[j] \in Int
      BY <1>6, <2>1, <2>4 DEF InOrder, Fresh
    <3>2. Queue[from(n)] \in Int
      BY <1>6, <2>1
    <3>3. \A j \in 1 .. Len(delivered) : ~(delivered'[j] > Queue'[n])
      BY <1>2, <2>1, <3>1, <3>2
    <3> QED BY <1>2, <1>9, <3>3
  <2> QED BY <2>3, <2>4
<1>10. ASSUME NEW n \in 1 .. last, NEW l \in 1 .. n - 1, NEW m \in 1 .. n - 1,
              delivered'[l] > delivered'[n], delivered'[m] > delivered'[n]
       PROVE  l = m
  <2>1. l \in 1 .. Len(delivered) /\ m \in 1 .. Len(delivered)
    BY <1>1, <1>2 DEF last
  <2>2. delivered'[l] = delivered[l] /\ delivered'[m] = delivered[m]
    BY <1>2, <2>1
  <2>3. CASE n \in 1 .. Len(delivered)
    <3>1. delivered'[n] = delivered[n] /\ AtMostOne(delivered[n], n - 1)
      BY <1>2, <2>3 DEF InOrder, Overtaken
    <3> QED BY <1>10, <2>2, <3>1 DEF AtMostOne
  <2>4. CASE n = last
    <3>1. delivered'[n] = Queue[k] /\ AtMostOne(Queue[k], Len(delivered))
      BY <1>1, <1>2, <2>4 DEF InOrder, Overtaken
    <3> QED BY <1>10, <2>1, <2>2, <3>1 DEF AtMostOne
  <2> QED BY <1>2, <2>3, <2>4
<1>11. Overtaken'
  BY <1>2, <1>9, <1>10 DEF Overtaken, AtMostOne
<1> QED BY <1>7, <1>8, <1>11 DEF InOrder

LEMMA InitEmpty == Init => Places = {}
<1> SUFFICES ASSUME Init PROVE Places = {}
  OBVIOUS
<1>1. 0 \in 0 .. KBD_BUF_SIZE - 1
  BY BufAssumption
<1>2. kbd_tail = 0 /\ kbd_head = 0 /\ pc[current] = "out" /\ Len(rx) = 0
  BY ProcsAssumption DEF Init
<1>3. Unread = Distance(0, 0)
  BY <1>2 DEF Unread, FirstUnread, Distance
<1>4. Slot(0, 0) = 0
  BY <1>1, SlotWhole
<1>5. Unread = 0
  BY <1>1, <1>3, <1>4, DistanceIs
<1> QED BY <1>2, <1>5 DEF Places

LEMMA InitInv == Init => IInv
<1> SUFFICES ASSUME Init PROVE IInv
  OBVIOUS
<1>1. KBD_BUF_SIZE \in Nat \ {0} /\ RxSize \in Nat \ {0} /\ MaxTyped \in Nat /\ Shell \in Procs
  BY BufAssumption, TypedAssumption, ProcsAssumption
<1>2. TypeOK
  BY <1>1 DEF Init, TypeOK, Labels, Chars
<1>3. Places = {}
  BY InitEmpty
<1>4. Len(delivered) = 0
  BY DEF Init
<1>5. InOrder
  BY <1>3, <1>4 DEF InOrder, Ordered, Fresh, Overtaken
<1> QED BY <1>2, <1>5 DEF IInv

LEMMA QuietTypes ==
  ASSUME TypeOK, NEW p \in Procs,
         Call(p) \/ Test(p) \/ Status(p) \/ DataGone(p) \/ YieldAlone(p) \/ SwitchTo(p) \/ Kill(p)
  PROVE  TypeOK'
<1>1. UNCHANGED <<typed, rx, kbd_buf, kbd_head, kbd_tail, delivered>>
  BY DEF Call, Test, Status, DataGone, YieldAlone, SwitchTo, Kill, ringVars
<1>2. /\ pc' \in [Procs -> Labels] /\ current' \in Procs /\ sie' \in BOOLEAN
      /\ \A q \in Procs \ {current'} : pc'[q] \in {"out", "test"}
  BY DEF Call, Test, Status, DataGone, YieldAlone, SwitchTo, Kill, At, Goto, TypeOK, Labels
<1> QED BY <1>1, <1>2 DEF TypeOK

LEMMA NextInv == IInv /\ [Next]_vars => IInv'
<1> SUFFICES ASSUME TypeOK, InOrder, [Next]_vars PROVE TypeOK' /\ InOrder'
  BY DEF IInv
<1>1. ASSUME Type PROVE TypeOK' /\ InOrder'
  <2>1. TypeOK'
    <3>1. rx' \in Seq(Chars) /\ Len(rx') <= RxSize /\ typed' \in 0 .. MaxTyped
      BY <1>1, BufAssumption, TypedAssumption DEF Type, TypeOK, Chars
    <3> QED BY <1>1, <3>1 DEF Type, TypeOK, ringVars
  <2>2. Polling' = Polling
    BY <1>1 DEF Type, Polling
  <2> QED BY <1>1, <2>1, <2>2, TypeStep, AddedInOrder
<1>2. ASSUME Interrupt PROVE TypeOK' /\ InOrder'
  <2>1. TypeOK'
    <3>1. kbd_buf' \in [0 .. KBD_BUF_SIZE - 1 -> Chars \cup {0}]
      <4> DEFINE here(i) == {k \in 1 .. Len(rx) : Slot(kbd_tail, k - 1) = i}
                 last(i) == CHOOSE k \in here(i) : \A m \in here(i) : m <= k
      <4>1. kbd_buf' = [i \in 0 .. KBD_BUF_SIZE - 1 |->
                          IF here(i) = {} THEN kbd_buf[i] ELSE rx[last(i)]]
        BY <1>2 DEF Interrupt, TypeOK
      <4>2. ASSUME NEW i \in 0 .. KBD_BUF_SIZE - 1, here(i) # {} PROVE last(i) \in 1 .. Len(rx)
        <5>1. here(i) \in SUBSET (1 .. Len(rx)) /\ Len(rx) \in Nat
          BY Types
        <5> HIDE DEF here
        <5>2. \E k \in here(i) : \A m \in here(i) : m <= k
          BY <4>2, <5>1, Greatest
        <5> QED BY <5>1, <5>2
      <4> HIDE DEF here, last
      <4> QED BY <4>1, <4>2 DEF TypeOK
    <3>2. kbd_tail' \in 0 .. KBD_BUF_SIZE - 1
      <4>1. kbd_tail \in Int /\ Len(rx) \in Int
        BY Types, BufAssumption DEF TypeOK
      <4> QED BY <1>2, <4>1, SlotIs DEF Interrupt
    <3>3. rx' \in Seq(Chars) /\ Len(rx') <= RxSize
      BY <1>2, BufAssumption DEF Interrupt
    <3> QED BY <1>2, <3>1, <3>2, <3>3 DEF Interrupt, TypeOK
  <2>2. Polling' = Polling
    BY <1>2 DEF Interrupt, Polling
  <2> QED BY <1>2, <2>1, <2>2, InterruptStep, CutInOrder
<1>3. ASSUME NEW p \in Procs,
             Call(p) \/ Test(p) \/ Status(p) \/ DataGone(p) \/ YieldAlone(p) \/ SwitchTo(p) \/ Kill(p)
      PROVE  TypeOK' /\ InOrder'
  <2>1. Polling' => Polling \/ Unread = 0
    <3>1. CASE Test(p)
      <4>1. pc[current] = "test" /\ (Polling' => kbd_head = kbd_tail)
        BY <3>1 DEF Test, At, Goto, Polling, RingEmpty, TypeOK
      <4>2. FirstUnread = kbd_head /\ Unread = Distance(kbd_head, kbd_tail)
        BY <4>1 DEF FirstUnread, Unread, Distance
      <4>3. kbd_head \in 0 .. KBD_BUF_SIZE - 1 /\ 0 \in 0 .. KBD_BUF_SIZE - 1
        BY BufAssumption DEF TypeOK
      <4>4. kbd_head = Slot(kbd_head, 0)
        BY <4>3, SlotWhole
      <4>5. Distance(kbd_head, kbd_head) = 0
        BY <4>3, <4>4, DistanceIs
      <4> QED BY <4>1, <4>2, <4>5
    <3>2. CASE ~Test(p)
      BY <1>3, <3>2
      DEF Call, Status, DataGone, YieldAlone, SwitchTo, Kill, At, Goto, Polling, TypeOK
    <3> QED BY <3>1, <3>2
  <2> QED BY <1>3, <2>1, QuietTypes, QuietSteps, StillInOrder
<1>4. ASSUME NEW p \in Procs, Data(p) PROVE TypeOK' /\ InOrder'
  <2>1. Removed(Unread + 1) /\ Unread' = Unread /\ Polling /\ ~Polling'
    BY <1>4, DataStep DEF Polling
  <2>2. TypeOK'
    <3>1. rx' \in Seq(Chars) /\ Len(rx') <= RxSize /\ delivered' \in Seq(Chars)
      BY <1>4, BufAssumption DEF Data, TypeOK
    <3>2. /\ pc' \in [Procs -> Labels] /\ sie' \in BOOLEAN
          /\ \A q \in Procs \ {current} : pc'[q] \in {"out", "test"}
      BY <1>4 DEF Data, Return, At, Goto, TypeOK, Labels
    <3> QED BY <1>4, <3>1, <3>2 DEF Data, TypeOK, ringVars
  <2> QED BY <2>1, <2>2, RemovedInOrder
<1>5. ASSUME NEW p \in Procs, Take(p) PROVE TypeOK' /\ InOrder'
  <2>1. Removed(1) /\ Unread' = Unread - 1 /\ ~Polling'
    BY <1>5, TakeStep DEF Polling
  <2>2. TypeOK'
    <3>1. delivered' \in Seq(Chars)
      <4>1. Queue[1] \in Chars /\ delivered' = Append(delivered, Queue[1])
        BY <2>1, Types DEF Removed, InOrder, Ordered, Chars
      <4> QED BY <4>1 DEF TypeOK
    <3>2. /\ pc' \in [Procs -> Labels]
          /\ \A q \in Procs \ {current} : pc'[q] \in {"out", "test"}
      BY <1>5 DEF Take, At, Goto, TypeOK, Labels
    <3> QED BY <1>5, <3>1, <3>2 DEF Take, TypeOK, ringVars
  <2> QED BY <2>1, <2>2, RemovedInOrder
<1>6. ASSUME NEW p \in Procs, Advance(p) PROVE TypeOK' /\ InOrder'
  <2>1. TypeOK'
    <3>1. kbd_head' \in 0 .. KBD_BUF_SIZE - 1
      <4>1. kbd_head \in Int /\ 1 \in Int
        BY BufAssumption DEF TypeOK
      <4> QED BY <1>6, <4>1, SlotIs DEF Advance
    <3>2. /\ pc' \in [Procs -> Labels] /\ sie' \in BOOLEAN
          /\ \A q \in Procs \ {current} : pc'[q] \in {"out", "test"}
      BY <1>6 DEF Advance, Return, At, Goto, TypeOK, Labels
    <3> QED BY <1>6, <3>1, <3>2 DEF Advance, TypeOK
  <2>2. ~Polling'
    BY <1>6 DEF Advance, Return, At, Goto, TypeOK, Polling
  <2> QED BY <1>6, <2>1, <2>2, AdvanceStep, StillInOrder
<1>7. CASE UNCHANGED vars
  <2>1. TypeOK'
    BY <1>7 DEF vars, TypeOK
  <2>2. Still
    <3>1. UNCHANGED <<typed, rx, kbd_buf, delivered>> /\ FirstUnread' = FirstUnread /\ Unread' = Unread
      BY <1>7 DEF vars, FirstUnread, Unread
    <3> QED BY <3>1, StillIs
  <2>3. Polling' => Polling
    BY <1>7 DEF vars, Polling
  <2>4. InOrder'
    BY <2>2, <2>3, StillInOrder
  <2> QED BY <2>1, <2>4
<1> QED BY <1>1, <1>2, <1>3, <1>4, <1>5, <1>6, <1>7 DEF Next, Step

(* Every reachable state satisfies the invariant. *)
THEOREM Invariant == Spec => []IInv
BY InitInv, NextInv, PTL DEF Spec

(* Indices stay within the ring, and only the process on the CPU is inside *)
(* uart_getc_blocking() anywhere but at its first test.                    *)
THEOREM Typing == Spec => []TypeOK
<1>1. IInv => TypeOK
  BY DEF IInv
<1> QED BY <1>1, Invariant, PTL

(* No character is overtaken by two that were typed after it, however the  *)
(* interrupt, the poll of the device and the switches are interleaved.     *)
THEOREM OvertakenOnceHolds == Spec => []OvertakenOnce
<1>1. ASSUME IInv, NEW c \in Pending \cup {delivered[k] : k \in DOMAIN delivered}
      PROVE  Cardinality({d \in DeliveredBefore(c) : d > c}) <= 1
  <2> DEFINE S == {d \in DeliveredBefore(c) : d > c}
  <2>1. Len(delivered) \in Nat /\ DOMAIN delivered = 1 .. Len(delivered)
    BY <1>1, Types DEF IInv, TypeOK
  <2>2. ASSUME NEW d \in S
        PROVE  \E k \in 1 .. Len(delivered) :
                 delivered[k] = d /\ d > c /\ \A m \in 1 .. k : delivered[m] # c
    BY <2>1 DEF DeliveredBefore
  <2>3. ASSUME NEW d \in S, NEW e \in S PROVE d = e
    <3>1. PICK k \in 1 .. Len(delivered) :
            delivered[k] = d /\ d > c /\ \A m \in 1 .. k : delivered[m] # c
      BY <2>2
    <3>2. PICK l \in 1 .. Len(delivered) :
            delivered[l] = e /\ e > c /\ \A m \in 1 .. l : delivered[m] # c
      BY <2>2
    <3> HIDE DEF S
    <3>3. CASE c \in Pending
      <4>1. PICK n \in Places : c = Queue[n]
        BY <1>1, <3>3, PendingIs DEF IInv
      <4>2. AtMostOne(c, Len(delivered))
        BY <1>1, <4>1 DEF IInv, InOrder, Overtaken
      <4> QED BY <3>1, <3>2, <4>2 DEF AtMostOne
    <3>4. CASE c \notin Pending
      <4>1. PICK n \in 1 .. Len(delivered) : c = delivered[n]
        BY <1>1, <2>1, <3>4
      <4>2. AtMostOne(c, n - 1)
        BY <1>1, <4>1 DEF IInv, InOrder, Overtaken
      <4>3. k \in 1 .. n - 1 /\ l \in 1 .. n - 1
        BY <2>1, <3>1, <3>2, <4>1
      <4> QED BY <3>1, <3>2, <4>2, <4>3 DEF AtMostOne
    <3> QED BY <3>3, <3>4
  <2> HIDE DEF S
  <2>4. CASE S = {}
    <3>1. Cardinality(S) = 0
      BY <2>4, FS_EmptySet
    <3> QED BY <3>1 DEF S
  <2>5. CASE S # {}
    <3>1. PICK d \in S : TRUE
      BY <2>5
    <3>2. S = {d}
      BY <2>3, <3>1
    <3>3. Cardinality(S) = 1
      BY <3>2, FS_Singleton
    <3> QED BY <3>3 DEF S
  <2> QED BY <2>4, <2>5
<1>2. IInv => OvertakenOnce
  BY <1>1 DEF OvertakenOnce
<1> QED BY <1>2, Invariant, PTL

-----------------------------------------------------------------------------
(* Console does what Keyboard promises. *)

Queued == Pending = {Queue[n] : n \in Places}

LEMMA PendingNext == TypeOK' => Pending' = {Queue'[n] : n \in Places'}
<1>1. TypeOK => Queued
  BY PendingIs DEF Queued
<1>2. TypeOK' => Queued'
  BY <1>1, PTL
<1> QED BY <1>2 DEF Queued

(* Keyboard and Console count alike. *)
LEMMA SameCardinality == \A S : Abstract!Cardinality(S) = Cardinality(S)
BY DEF Abstract!Cardinality, Cardinality

(* As many are pending as the queue is long. *)
LEMMA HowManyPending ==
  ASSUME TypeOK, Ordered
  PROVE  Cardinality(Pending) = Unread + Len(rx)
<1> DEFINE n == Unread + Len(rx)
<1>1. n \in Nat /\ Places = 1 .. n
  BY Types
<1> HIDE DEF n
<1>2. Queue \in [1 .. n -> Pending]
  BY <1>1, PendingIs DEF Queue
<1>3. ASSUME NEW i \in 1 .. n, NEW j \in 1 .. n, Queue[i] = Queue[j] PROVE i = j
  <2>1. Queue[i] \in Int /\ ~(Queue[i] < Queue[j]) /\ ~(Queue[j] < Queue[i])
    BY <1>1, <1>3 DEF Ordered
  <2>2. ~(i < j) /\ ~(j < i)
    BY <1>1, <2>1 DEF Ordered
  <2> QED BY <2>2
<1>4. \A c \in Pending : \E i \in 1 .. n : Queue[i] = c
  BY <1>1, PendingIs
<1>5. Queue \in Bijection(1 .. n, Pending)
  BY <1>2, <1>3, <1>4 DEF Bijection, Injection, IsInjective, Surjection
<1>6. ExistsBijection(1 .. n, Pending)
  BY <1>5 DEF ExistsBijection
<1> QED BY <1>1, <1>6, FS_CountingElements DEF n

LEMMA StillIsStutter ==
  ASSUME TypeOK, TypeOK', Still
  PROVE  UNCHANGED Abstract!vars
BY PendingIs, PendingNext DEF Still, Abstract!vars

LEMMA AddedIsType ==
  ASSUME TypeOK, TypeOK', Added
  PROVE  Abstract!Type
<1> DEFINE last == Unread + Len(rx) + 1
<1>1. Places' = Places \cup {last} /\ last \notin Places
  BY Types DEF Added
<1>2. /\ \A n \in Places : Queue'[n] = Queue[n]
      /\ Queue'[last] = typed' /\ typed' = typed + 1 /\ delivered' = delivered
  BY DEF Added
<1> HIDE DEF last
<1>3. {Queue'[n] : n \in Places'} = {Queue[n] : n \in Places} \cup {typed'}
  BY <1>1, <1>2
<1> QED BY <1>2, <1>3, PendingIs, PendingNext DEF Abstract!Type

LEMMA RemovedIsDeliver ==
  ASSUME TypeOK, TypeOK', InOrder, NEW k, Removed(k)
  PROVE  Abstract!Deliver
<1> DEFINE from(n) == IF n < k THEN n ELSE n + 1
<1>1. /\ k \in Places /\ k \in Nat /\ typed' = typed /\ delivered' = Append(delivered, Queue[k])
  BY Types DEF Removed
<1>2. \A n \in Places' : from(n) \in Places \ {k} /\ Queue'[n] = Queue[from(n)]
  BY <1>1, Types DEF Removed
<1>3. \A m \in Places \ {k} : \E n \in Places' : from(n) = m
  <2> TAKE m \in Places \ {k}
  <2>1. CASE m < k
    <3>1. m \in Places' /\ from(m) = m
      BY <1>1, <2>1, Types DEF Removed
    <3> QED BY <3>1
  <2>2. CASE m > k
    <3>1. m - 1 \in Places' /\ from(m - 1) = m
      BY <1>1, <2>2, Types DEF Removed
    <3> QED BY <3>1
  <2> QED BY <1>1, <2>1, <2>2, Types
<1> HIDE DEF from
<1>4. \A m \in Places \ {k} : Queue[m] # Queue[k]
  <2> TAKE m \in Places \ {k}
  <2>1. Queue[m] \in Int /\ Queue[k] \in Int
    BY <1>1 DEF InOrder, Ordered
  <2>2. m < k \/ k < m
    BY <1>1, Types
  <2>3. Queue[m] < Queue[k] \/ Queue[k] < Queue[m]
    BY <1>1, <2>2 DEF InOrder, Ordered
  <2> QED BY <2>1, <2>3
<1>5. {Queue'[n] : n \in Places'} = {Queue[n] : n \in Places} \ {Queue[k]}
  <2>1. \A n \in Places' : Queue'[n] \in {Queue[m] : m \in Places} \ {Queue[k]}
    BY <1>2, <1>4
  <2>2. \A m \in Places \ {k} : Queue[m] \in {Queue'[n] : n \in Places'}
    BY <1>2, <1>3
  <2> QED BY <2>1, <2>2
<1>6. Queue[k] \in Pending /\ Pending' = Pending \ {Queue[k]}
  BY <1>1, <1>5, PendingIs, PendingNext
<1> QED BY <1>1, <1>6 DEF Abstract!Deliver

LEMMA CutIsLose ==
  ASSUME TypeOK, TypeOK', InOrder, NEW c, Cut(c)
  PROVE  Abstract!Lose \/ UNCHANGED Abstract!vars
<1>1. /\ c \in Nat /\ typed' = typed /\ delivered' = delivered
      /\ Places' = 1 .. Unread + Len(rx) - c
      /\ \A n \in Places' : Queue'[n] = Queue[n + c]
      /\ c # 0 => Unread + Len(rx) >= KBD_BUF_SIZE
      /\ c <= Unread + Len(rx)
  BY DEF Cut
<1>2. Pending = {Queue[n] : n \in Places} /\ Pending' = {Queue[n + c] : n \in Places'}
  BY <1>1, PendingIs, PendingNext
<1>3. CASE c = 0
  <2>1. Places' = Places /\ \A n \in Places' : n + c = n
    BY <1>1, <1>3, Types
  <2>2. {Queue[n + c] : n \in Places'} = {Queue[n] : n \in Places}
    BY <2>1
  <2> QED BY <1>1, <1>2, <2>2 DEF Abstract!vars
<1>4. CASE c # 0
  <2>1. Cardinality(Pending) >= KBD_BUF_SIZE
    BY <1>1, <1>4, HowManyPending DEF InOrder
  <2>2. \A n \in Places' : n + c \in Places /\ n + c > c
    BY <1>1, Types
  <2>3. \A n \in Places : n > c => \E m \in Places' : n = m + c
    <3> TAKE n \in Places
    <3>1. n > c => n - c \in Places' /\ n = (n - c) + c
      BY <1>1, Types
    <3> QED BY <3>1
  <2>4. \A m \in Places, n \in Places : m < n => Queue[m] < Queue[n]
    BY DEF InOrder, Ordered
  <2>5. Pending' \in SUBSET Pending
    BY <1>2, <2>2
  <2>6. ASSUME NEW kept \in Pending', NEW lost \in Pending \ Pending' PROVE lost < kept
    <3>1. PICK m \in Places' : kept = Queue[m + c]
      BY <1>2
    <3>2. PICK n \in Places : lost = Queue[n]
      BY <1>2
    <3>3. ~(n > c)
      BY <1>2, <2>3, <2>6, <3>2
    <3>4. m + c \in Places /\ n < m + c
      BY <1>1, <2>2, <3>3, Types
    <3> QED BY <2>4, <3>1, <3>2, <3>4
  <2>7. Pending' # Pending
    <3>1. 1 \in Places /\ \A n \in Places' : 1 < n + c
      BY <1>1, <1>4, Types
    <3>2. Queue[1] \in Pending
      BY <1>2, <3>1
    <3>3. ASSUME NEW n \in Places' PROVE Queue[1] # Queue[n + c]
      <4>1. Queue[1] < Queue[n + c] /\ Queue[1] \in Int
        BY <2>2, <2>4, <3>1 DEF InOrder, Ordered
      <4> QED BY <4>1
    <3> QED BY <1>2, <3>2, <3>3
  <2>8. /\ Pending' \in (SUBSET Pending) \ {Pending}
        /\ \A kept \in Pending', lost \in Pending \ Pending' : lost < kept
    BY <2>5, <2>6, <2>7
  <2>9. UNCHANGED <<typed, delivered>>
    BY <1>1
  <2>10. Abstract!Cardinality(Pending) >= KBD_BUF_SIZE
    BY <2>1, SameCardinality
  <2>11. Abstract!Lose
    BY ONLY <2>8, <2>9, <2>10 DEF Abstract!Lose
  <2> QED BY <2>11
<1> QED BY <1>3, <1>4

LEMMA InitKeyboard == Init => Abstract!Init
<1> SUFFICES ASSUME Init PROVE Abstract!Init
  OBVIOUS
<1>1. Places = {} /\ TypeOK
  BY InitEmpty, InitInv DEF IInv
<1> QED BY <1>1, PendingIs DEF Init, Abstract!Init

LEMMA NextKeyboard == IInv /\ IInv' /\ [Next]_vars => [Abstract!Next]_(Abstract!vars)
<1> SUFFICES ASSUME TypeOK, TypeOK', InOrder, [Next]_vars
             PROVE  Abstract!Next \/ UNCHANGED Abstract!vars
  BY DEF IInv
<1>1. CASE Type
  BY <1>1, TypeStep, AddedIsType DEF Abstract!Next
<1>2. CASE Interrupt
  BY <1>2, InterruptStep, CutIsLose DEF Abstract!Next
<1>3. ASSUME NEW p \in Procs,
             Call(p) \/ Test(p) \/ Status(p) \/ DataGone(p) \/ YieldAlone(p) \/ SwitchTo(p) \/ Kill(p)
      PROVE  UNCHANGED Abstract!vars
  BY <1>3, QuietSteps, StillIsStutter
<1>4. ASSUME NEW p \in Procs, Data(p) PROVE Abstract!Next
  BY <1>4, DataStep, RemovedIsDeliver DEF Abstract!Next
<1>5. ASSUME NEW p \in Procs, Take(p) PROVE Abstract!Next
  BY <1>5, TakeStep, RemovedIsDeliver DEF Abstract!Next
<1>6. ASSUME NEW p \in Procs, Advance(p) PROVE UNCHANGED Abstract!vars
  BY <1>6, AdvanceStep, StillIsStutter
<1>7. CASE UNCHANGED vars
  BY <1>7 DEF vars, Abstract!vars, Pending, InRing, InDevice, Unread, FirstUnread, Slot
<1> QED BY <1>1, <1>2, <1>3, <1>4, <1>5, <1>6, <1>7 DEF Next, Step

(* The ring, the interrupt and the poll do what Keyboard promises: every   *)
(* character is delivered once at most, and none is lost but the oldest,   *)
(* by an interrupt, when KBD_BUF_SIZE are pending.                         *)
THEOREM KeyboardImplemented == Spec => ImplementsKeyboard
BY Invariant, InitKeyboard, NextKeyboard, PTL DEF Spec, ImplementsKeyboard, Abstract!Spec
=============================================================================
