-------------------------- MODULE ResourcesProofs ---------------------------
(* Proofs about the lists of storage pools and networks, for any number of *)
(* objects, of concurrent reads and of changes.                            *)
EXTENDS Resources, SequenceTheorems, TLAPS

-----------------------------------------------------------------------------
(* What is said of the inbox, which is handled in order: the messages that *)
(* are in it, that a message is in it at most once, that a message of A    *)
(* has none of B behind it, and that one of A comes before m.              *)

In(s) == {s[i] : i \in 1..Len(s)}

Once(s, m) == \A i, j \in 1..Len(s) : s[i] = m /\ s[j] = m => i = j

Unfollowed(s, A, B) ==
    \E i \in 1..Len(s) : s[i] \in A /\ \A j \in 1..Len(s) : j > i => s[j] \notin B

Heralded(s, A, m) ==
    \E i \in 1..Len(s) : s[i] \in A /\ \A j \in 1..Len(s) : j <= i => s[j] # m

LEMMA EmptyInbox ==
    ASSUME NEW A, NEW B
    PROVE  In(<<>>) = {} /\ ~Unfollowed(<<>>, A, B)
BY DEF In, Unfollowed

(* A message arrives. *)
LEMMA Arrives ==
    ASSUME NEW S, NEW s \in Seq(S), NEW x \in S
    PROVE  /\ In(Append(s, x)) = In(s) \cup {x}
           /\ x \notin In(s) => Once(Append(s, x), x)
           /\ \A m : m # x /\ Once(s, m) => Once(Append(s, x), m)
           /\ \A A, B : x \in A => Unfollowed(Append(s, x), A, B)
           /\ \A A, B : x \notin B /\ Unfollowed(s, A, B) => Unfollowed(Append(s, x), A, B)
           /\ \A A, m : Heralded(s, A, m) => Heralded(Append(s, x), A, m)
<1> DEFINE t == Append(s, x)
<1>1. /\ Len(s) \in Nat /\ Len(t) = Len(s) + 1
      /\ \A i \in 1..Len(s) : t[i] = s[i]
      /\ t[Len(s) + 1] = x
  BY AppendProperties, LenProperties
<1>2. \A i \in 1..Len(t) : i \in 1..Len(s) \/ i = Len(s) + 1
  BY <1>1
<1>3. 1..Len(s) \subseteq 1..Len(t) /\ Len(s) + 1 \in 1..Len(t)
  BY <1>1
<1> HIDE DEF t
<1>4. In(t) = In(s) \cup {x}
  BY <1>1, <1>2, <1>3 DEF In
<1>5. x \notin In(s) => Once(t, x)
  BY <1>1, <1>2 DEF Once, In
<1>6. \A m : m # x /\ Once(s, m) => Once(t, m)
  BY <1>1, <1>2 DEF Once
<1>7. \A A, B : x \in A => Unfollowed(t, A, B)
  BY <1>1, <1>2, <1>3 DEF Unfollowed
<1>8. \A A, B : x \notin B /\ Unfollowed(s, A, B) => Unfollowed(t, A, B)
  BY <1>1, <1>2, <1>3 DEF Unfollowed
<1>9. \A A, m : Heralded(s, A, m) => Heralded(t, A, m)
  BY <1>1, <1>2, <1>3 DEF Heralded
<1> QED
  BY <1>4, <1>5, <1>6, <1>7, <1>8, <1>9 DEF t

(* The first message is handled. *)
LEMMA Leaves ==
    ASSUME NEW S, NEW s \in Seq(S), s # <<>>
    PROVE  /\ Tail(s) \in Seq(S) /\ Head(s) \in S
           /\ In(s) = In(Tail(s)) \cup {Head(s)}
           /\ \A m : Once(s, m) => Once(Tail(s), m)
           /\ Once(s, Head(s)) => Head(s) \notin In(Tail(s))
           /\ \A A, B : Unfollowed(s, A, B) =>
                            \/ Unfollowed(Tail(s), A, B)
                            \/ Head(s) \in A /\ In(Tail(s)) \cap B = {}
           /\ \A A, m : Heralded(s, A, m) =>
                            /\ Head(s) # m
                            /\ Heralded(Tail(s), A, m) \/ Head(s) \in A
<1> DEFINE t == Tail(s)
<1>1. /\ t \in Seq(S) /\ Head(s) \in S /\ Len(s) \in Nat \ {0} /\ Len(t) = Len(s) - 1
      /\ \A i \in 1..Len(t) : t[i] = s[i + 1]
      /\ Head(s) = s[1]
  BY HeadTailProperties, EmptySeq
<1>2. \A i \in 1..Len(t) : i + 1 \in 1..Len(s) /\ i + 1 # 1
  BY <1>1
<1>3. \A j \in 1..Len(s) : j = 1 \/ (j - 1 \in 1..Len(t) /\ t[j - 1] = s[j])
  BY <1>1
<1>4. 1 \in 1..Len(s)
  BY <1>1
<1> HIDE DEF t
<1>5. In(s) = In(t) \cup {Head(s)}
  <2>1. ASSUME NEW m \in In(s) PROVE m \in In(t) \/ m = Head(s)
    <3> PICK j \in 1..Len(s) : m = s[j]
      BY <2>1 DEF In
    <3> QED  BY <1>1, <1>3 DEF In
  <2>2. ASSUME NEW m \in In(t) PROVE m \in In(s)
    BY <1>1, <1>2, <2>2 DEF In
  <2> QED  BY <1>1, <1>4, <2>1, <2>2 DEF In
<1>6. ASSUME NEW m, Once(s, m) PROVE Once(t, m)
  <2> SUFFICES ASSUME NEW i \in 1..Len(t), NEW j \in 1..Len(t), t[i] = m, t[j] = m PROVE i = j
    BY DEF Once
  <2>1. i + 1 = j + 1
    BY <1>1, <1>2, <1>6 DEF Once
  <2> QED  BY <2>1
<1>7. ASSUME Once(s, Head(s)) PROVE Head(s) \notin In(t)
  <2> SUFFICES ASSUME NEW i \in 1..Len(t), t[i] = Head(s) PROVE FALSE
    BY DEF In
  <2>1. i + 1 = 1
    BY <1>1, <1>2, <1>4, <1>7 DEF Once
  <2> QED  BY <1>2, <2>1
<1>8. ASSUME NEW A, NEW B, Unfollowed(s, A, B)
      PROVE  Unfollowed(t, A, B) \/ (Head(s) \in A /\ In(t) \cap B = {})
  <2> PICK i \in 1..Len(s) : s[i] \in A /\ \A j \in 1..Len(s) : j > i => s[j] \notin B
    BY <1>8 DEF Unfollowed
  <2>1. CASE i = 1
    <3>1. \A j \in 1..Len(t) : t[j] \notin B
      BY <1>1, <1>2, <2>1
    <3> QED  BY <1>1, <2>1, <3>1 DEF In
  <2>2. CASE i # 1
    <3>1. i - 1 \in 1..Len(t) /\ t[i - 1] \in A
      BY <1>3, <2>2
    <3>2. \A j \in 1..Len(t) : j > i - 1 => t[j] \notin B
      BY <1>1, <1>2
    <3> QED  BY <3>1, <3>2 DEF Unfollowed
  <2> QED  BY <2>1, <2>2
<1>9. ASSUME NEW A, NEW m, Heralded(s, A, m)
      PROVE  Head(s) # m /\ (Heralded(t, A, m) \/ Head(s) \in A)
  <2> PICK i \in 1..Len(s) : s[i] \in A /\ \A j \in 1..Len(s) : j <= i => s[j] # m
    BY <1>9 DEF Heralded
  <2>1. Head(s) # m
    BY <1>1, <1>4
  <2>2. CASE i = 1
    BY <1>1, <2>1, <2>2
  <2>3. CASE i # 1
    <3>1. i - 1 \in 1..Len(t) /\ t[i - 1] \in A
      BY <1>3, <2>3
    <3>2. \A j \in 1..Len(t) : j <= i - 1 => t[j] # m
      BY <1>1, <1>2
    <3> QED  BY <2>1, <3>1, <3>2 DEF Heralded
  <2> QED  BY <2>2, <2>3
<1> QED
  BY <1>1, <1>5, <1>6, <1>7, <1>8, <1>9 DEF t

(* Only the messages that are there matter. *)
LEMMA UnfollowedByFewer ==
    ASSUME NEW s, NEW A, NEW B, NEW C, NEW D, Unfollowed(s, A, B),
           \A m \in In(s) : (m \in A => m \in C) /\ (m \in D => m \in B)
    PROVE  Unfollowed(s, C, D)
BY DEF Unfollowed, In

LEMMA Announces ==
    ASSUME NEW s, NEW A, NEW m, NEW x \in A, x \in In(s), m \notin In(s)
    PROVE  Heralded(s, A, m)
BY DEF Heralded, In

-----------------------------------------------------------------------------
(* The inductive invariant *)

Reply(r) == [kind |-> "read", read |-> r]

ReadsOf(o) == {r \in Reads : reads[r] # NoRead /\ reads[r].obj = o}

(* A transient object that is not active is gone.                          *)
PersistInv ==
    \A o \in Objects : /\ object[o] = "inactive" => persistent[o]
                       /\ object[o] = "gone" => ~persistent[o]

(* The inbox holds one reply for each read that has been answered.         *)
ReplyInv ==
    \A r \in Reads : /\ Once(inbox, Reply(r))
                     /\ Reply(r) \in In(inbox) <=> reads[r] # NoRead /\ reads[r].answer # "none"

(* What a read may ask, and what it may be told.                           *)
StepInv ==
    \A r \in Reads : reads[r] # NoRead =>
        /\ reads[r].answer = "absent" => reads[r].step = "list"
        /\ reads[r].step = "list" => reads[r].answer # "error"
        /\ reads[r].step = "volumes" => reads[r].active = "active"
        /\ kind[reads[r].obj] = "network" => reads[r].step \in {"list", "props", "xml"}

(* The messages that have an object read: the answer to the first call,    *)
(* and signals.                                                            *)
Listed(o) == {[kind |-> "all", objs |-> S] : S \in {T \in SUBSET Objects : o \in T}}

Announcing(o) == {Signal(o, e) : e \in {"DEFINED", "CREATED", "STARTED", "STOPPED", "Refresh"}}

Announced(o) == In(inbox) \cap Announcing(o) # {}

Expected(o) == load = "asked" \/ In(inbox) \cap Listed(o) # {}

LoadInv == load = "asked" => \A m \in In(inbox) : m.kind # "all"

(* The read knows the state its object had when it answered for it.        *)
Seen(r) ==
    \/ reads[r].step = "props" /\ reads[r].answer = "ok"
    \/ reads[r].step = "xml" /\ kind[reads[r].obj] = "network"
    \/ reads[r].step \in {"volumes", "volumeXml"}

(* The read will end without a row, since its object did not exist.        *)
Lost(r) ==
    /\ reads[r].answer \in {"absent", "error"}
    /\ reads[r].step \notin {"getActive", "refresh", "volumes"}

Known(o) == o \notin missed /\ o \notin overlapped

SingleInv(o) == o \notin overlapped => \A r, q \in ReadsOf(o) : r = q

(* What a read knows is true, or a signal that has it read again is there. *)
SeenInv(o) ==
    Known(o) => \A r \in ReadsOf(o) :
        /\ Seen(r) /\ (object[o] # "gone" \/ reads[r].active = "active") =>
               reads[r].active = object[o] \/ Announced(o)
        /\ Lost(r) /\ object[o] # "gone" => Announced(o)

(* So is what a row says, unless a read is under way or is to come.        *)
RowInv(o) ==
    Known(o) /\ object[o] # "gone" =>
        \/ Expected(o) \/ Announced(o) \/ ReadsOf(o) # {}
        \/ rows[o] \in {"unlisted", object[o]}

(* The volumes cannot be listed because the pool has been stopped, and the *)
(* signal that says so is handled first.                                   *)
VolumesInv(o) ==
    Known(o) => \A r \in ReadsOf(o) :
        reads[r].step = "volumes" /\ reads[r].answer = "error" =>
            Heralded(inbox, Announcing(o), Reply(r))

(* The messages that add a row, and those after which there may be none.   *)
Adding(o) ==
    {Signal(o, e) : e \in {"DEFINED", "CREATED", "Refresh"}
                          \cup (IF kind[o] = "network" THEN {"STARTED"} ELSE {})}
    \cup Listed(o)

LostReplies(o) == {Reply(r) : r \in {q \in ReadsOf(o) : Lost(q)}}

Unwelcome(o) == {Signal(o, "UNDEFINED")} \cup LostReplies(o)

(* What exists has a row, or a message that gives it one comes last.       *)
Tracked(o) ==
    /\ o \notin missed
    /\ kind[o] = "network" \/ (persistent[o] /\ o \notin overlapped)

ThereInv(o) ==
    Tracked(o) /\ object[o] # "gone" =>
        \/ load = "asked"
        \/ Unfollowed(inbox, Adding(o), Unwelcome(o))
        \/ /\ Signal(o, "UNDEFINED") \notin In(inbox)
           /\ \A r \in ReadsOf(o) : ~Lost(r)
           /\ rows[o] # "unlisted" \/ \E r \in ReadsOf(o) : ~reads[r].updateOnly

(* The row of a network that is gone is removed, or a signal that has it   *)
(* removed comes after the last read that found it.                        *)
Landing(r) == reads[r].step = "xml" /\ reads[r].answer = "ok"

LandingReplies(o) == {Reply(r) : r \in {q \in ReadsOf(o) : Landing(q)}}

Removing(o) == {Signal(o, "STOPPED"), Signal(o, "UNDEFINED")}

GoneInv(o) ==
    o \notin missed /\ kind[o] = "network" /\ object[o] = "gone" =>
        \/ Unfollowed(inbox, Removing(o), LandingReplies(o))
        \/ /\ \A r \in ReadsOf(o) : ~Landing(r)
           /\ \/ rows[o] = "unlisted"
              \/ \E r \in ReadsOf(o) : reads[r].step = "list" /\ reads[r].answer \in {"none", "absent"}

ObjInv(o) ==
    /\ SingleInv(o) /\ SeenInv(o) /\ RowInv(o) /\ VolumesInv(o) /\ ThereInv(o) /\ GoneInv(o)

CommonInv == TypeOK /\ PersistInv /\ ReplyInv /\ StepInv /\ LoadInv

IInv == CommonInv /\ \A o \in Objects : ObjInv(o)

-----------------------------------------------------------------------------
(* The messages *)

LEMMA MessagesDiffer ==
    /\ \A o, p, e, f : Signal(o, e) = Signal(p, f) => o = p /\ e = f
    /\ \A r, q : Reply(r) = Reply(q) => r = q
    /\ \A o, e, r : Signal(o, e) # Reply(r)
    /\ \A o, e, p : Signal(o, e) \notin Listed(p)
    /\ \A o, r : Reply(r) \notin Listed(o)
    /\ \A o, S : [kind |-> "all", objs |-> S] \in Listed(o) <=> S \in SUBSET Objects /\ o \in S
<1>1. \A o, p, e, f : Signal(o, e) = Signal(p, f) => o = p /\ e = f
  BY DEF Signal
<1>2. \A r, q : Reply(r) = Reply(q) => r = q
  BY DEF Reply
<1>3. \A o, e, r : Signal(o, e).kind = "signal" /\ Reply(r).kind = "read"
  BY DEF Signal, Reply
<1>4. \A o, m : m \in Listed(o) => m.kind = "all"
  BY DEF Listed
<1>5. \A o, S : [kind |-> "all", objs |-> S] \in Listed(o) <=> S \in SUBSET Objects /\ o \in S
  BY DEF Listed
<1> QED
  BY <1>1, <1>2, <1>3, <1>4, <1>5

LEMMA MessageTypes ==
    /\ \A o \in Objects, e \in Events : Signal(o, e) \in Message
    /\ \A r \in Reads : Reply(r) \in Message
    /\ \A S \in SUBSET Objects : [kind |-> "all", objs |-> S] \in Message
    /\ \A m \in Message : m.kind = "all" =>
           m.objs \in SUBSET Objects /\ m = [kind |-> "all", objs |-> m.objs]
BY DEF Message, Signal, Reply

-----------------------------------------------------------------------------
(* Steps that are about other objects *)

(* The messages whose place in the inbox matters for an object.            *)
Relevant(o) ==
    {Signal(o, e) : e \in Events \ {"DELETED"}} \cup Listed(o) \cup {Reply(r) : r \in ReadsOf(o)}

(* The messages of R are in t as they were in s.                           *)
Stay(R, s, t) ==
    /\ In(t) \cap R = In(s) \cap R
    /\ \A A \in SUBSET R, B \in SUBSET R : Unfollowed(s, A, B) => Unfollowed(t, A, B)
    /\ \A A \in SUBSET R, m \in R : Heralded(s, A, m) => Heralded(t, A, m)

LEMMA StayWhenSame ==
    ASSUME NEW R, NEW s
    PROVE  Stay(R, s, s)
BY DEF Stay

LEMMA StayAfterAppend ==
    ASSUME NEW S, NEW R, NEW s, NEW t \in Seq(S), NEW x \in S, x \notin R, Stay(R, s, t)
    PROVE  Stay(R, s, Append(t, x))
<1>1. /\ In(Append(t, x)) = In(t) \cup {x}
      /\ \A A, B : x \notin B /\ Unfollowed(t, A, B) => Unfollowed(Append(t, x), A, B)
      /\ \A A, m : Heralded(t, A, m) => Heralded(Append(t, x), A, m)
  BY Arrives
<1> QED
  BY <1>1 DEF Stay

LEMMA StayAfterTail ==
    ASSUME NEW S, NEW R, NEW s \in Seq(S), s # <<>>, Head(s) \notin R
    PROVE  Stay(R, s, Tail(s))
<1>1. /\ In(s) = In(Tail(s)) \cup {Head(s)}
      /\ \A A, B : Unfollowed(s, A, B) => Unfollowed(Tail(s), A, B) \/ Head(s) \in A
      /\ \A A, m : Heralded(s, A, m) => Heralded(Tail(s), A, m) \/ Head(s) \in A
  BY Leaves
<1> QED
  BY <1>1 DEF Stay

(* The reads of an object go on as they are.                               *)
Same(o) == ReadsOf(o)' = ReadsOf(o) /\ \A r \in ReadsOf(o) : reads'[r] = reads[r]

LEMMA SetsAreRelevant ==
    ASSUME NEW o
    PROVE  /\ Announcing(o) \subseteq Relevant(o) /\ Adding(o) \subseteq Relevant(o)
           /\ Removing(o) \subseteq Relevant(o) /\ Unwelcome(o) \subseteq Relevant(o)
           /\ LandingReplies(o) \subseteq Relevant(o) /\ Listed(o) \subseteq Relevant(o)
           /\ Signal(o, "UNDEFINED") \in Relevant(o)
           /\ \A r \in ReadsOf(o) : Reply(r) \in Relevant(o)
BY DEF Relevant, Announcing, Adding, Removing, Unwelcome, LandingReplies, LostReplies, Events

(* What is said of an object stays true when nothing of it changes.        *)
LEMMA Unconcerned ==
    ASSUME NEW o \in Objects, ObjInv(o), kind' = kind, object'[o] = object[o],
           persistent'[o] = persistent[o], rows'[o] = rows[o], Same(o),
           load = "asked" => load' = "asked", Stay(Relevant(o), inbox, inbox'),
           missed \subseteq missed', overlapped \subseteq overlapped'
    PROVE  ObjInv(o)'
<1>1. ASSUME NEW r \in ReadsOf(o)
      PROVE  /\ reads'[r] = reads[r]
             /\ Seen(r)' <=> Seen(r)
             /\ Lost(r)' <=> Lost(r)
             /\ Landing(r)' <=> Landing(r)
  BY DEF Same, Seen, Lost, Landing
<1>2. /\ Announcing(o)' = Announcing(o) /\ Listed(o)' = Listed(o)
      /\ Adding(o)' = Adding(o) /\ Removing(o)' = Removing(o)
  BY DEF Announcing, Listed, Adding, Removing, Signal
<1>3. ReadsOf(o)' = ReadsOf(o)
  BY DEF Same
<1>4. Unwelcome(o)' = Unwelcome(o) /\ LandingReplies(o)' = LandingReplies(o)
  <2>1. {q \in ReadsOf(o)' : Lost(q)'} = {q \in ReadsOf(o) : Lost(q)}
    BY <1>1, <1>3
  <2>2. {q \in ReadsOf(o)' : Landing(q)'} = {q \in ReadsOf(o) : Landing(q)}
    BY <1>1, <1>3
  <2> QED
    BY <2>1, <2>2 DEF Unwelcome, LandingReplies, LostReplies, Signal, Reply
<1>5. /\ \A m \in Relevant(o) : m \in In(inbox') <=> m \in In(inbox)
      /\ \A A \in SUBSET Relevant(o), B \in SUBSET Relevant(o) :
             Unfollowed(inbox, A, B) => Unfollowed(inbox', A, B)
      /\ \A A \in SUBSET Relevant(o), m \in Relevant(o) :
             Heralded(inbox, A, m) => Heralded(inbox', A, m)
  BY DEF Stay
<1>6. Announced(o)' <=> Announced(o)
  BY <1>2, <1>5, SetsAreRelevant DEF Announced
<1>7. Expected(o) => Expected(o)'
  BY <1>2, <1>5, SetsAreRelevant DEF Expected
<1>8. Known(o)' => Known(o)
  BY DEF Known
<1>9. SingleInv(o)'
  BY <1>3 DEF ObjInv, SingleInv
<1>10. SeenInv(o)'
  BY <1>1, <1>3, <1>6, <1>8 DEF ObjInv, SeenInv
<1>11. RowInv(o)'
  BY <1>3, <1>6, <1>7, <1>8 DEF ObjInv, RowInv
<1>12. VolumesInv(o)'
  BY <1>1, <1>2, <1>3, <1>5, <1>8, SetsAreRelevant DEF ObjInv, VolumesInv, Reply
<1>13. ThereInv(o)'
  <2>1. Tracked(o)' => Tracked(o)
    BY DEF Tracked
  <2>2. Unfollowed(inbox, Adding(o), Unwelcome(o)) => Unfollowed(inbox, Adding(o), Unwelcome(o))'
    BY <1>2, <1>4, <1>5, SetsAreRelevant
  <2>3. Signal(o, "UNDEFINED")' \in In(inbox)' => Signal(o, "UNDEFINED") \in In(inbox)
    BY <1>5, SetsAreRelevant DEF Signal
  <2> QED
    BY <1>1, <1>3, <2>1, <2>2, <2>3 DEF ObjInv, ThereInv
<1>14. GoneInv(o)'
  <2>1. Unfollowed(inbox, Removing(o), LandingReplies(o)) => Unfollowed(inbox, Removing(o), LandingReplies(o))'
    BY <1>2, <1>4, <1>5, SetsAreRelevant
  <2> QED
    BY <1>1, <1>3, <2>1 DEF ObjInv, GoneInv
<1> QED
  BY <1>9, <1>10, <1>11, <1>12, <1>13, <1>14 DEF ObjInv

-----------------------------------------------------------------------------
(* Type correctness *)

(* What a step that begins reads does to them.                             *)
Begun(objs, step, u) ==
    /\ reads' \in [Reads -> Read \cup {NoRead}]
    /\ rows' = rows /\ overlapped' = overlapped \cup (objs \cap BeingRead)
    /\ \A r \in Reads : reads[r] # NoRead => reads'[r] = reads[r]
    /\ \A r \in Reads : reads[r] = NoRead /\ reads'[r] # NoRead =>
           reads'[r].obj \in objs /\ reads'[r] = At(reads'[r].obj, step[reads'[r].obj], u)
    /\ \A o \in Objects \ objs : Same(o)
    /\ \A o \in objs :
           \E q \in Reads : /\ reads[q] = NoRead
                            /\ reads'[q] = At(o, step[o], u)
                            /\ ReadsOf(o)' = ReadsOf(o) \cup {q}

LEMMA Begins ==
    ASSUME TypeOK, NEW objs \in SUBSET Objects, NEW step, NEW u, BeginReads(objs, step, u),
           \A o \in objs : At(o, step[o], u) \in Read
    PROVE  Begun(objs, step, u)
<1> DEFINE slot == CHOOSE f \in Slots(objs) : TRUE
<1>1. slot \in Slots(objs)
  BY DEF BeginReads
<1>2. reads' = [r \in Reads |->
               IF \E o \in objs : slot[o] = r
               THEN LET o == CHOOSE p \in objs : slot[p] = r IN At(o, step[o], u)
               ELSE reads[r]]
  BY DEF BeginReads
<1> HIDE DEF slot
<1>3. /\ \A o \in objs : slot[o] \in Reads /\ reads[slot[o]] = NoRead
      /\ \A o, p \in objs : slot[o] = slot[p] => o = p
  BY <1>1 DEF Slots
<1>4. \A o \in objs : (CHOOSE p \in objs : slot[p] = slot[o]) = o
  BY <1>3
<1>5. \A o \in objs : reads'[slot[o]] = At(o, step[o], u)
  BY <1>2, <1>3, <1>4
<1>6. \A r \in Reads : (\A o \in objs : slot[o] # r) => reads'[r] = reads[r]
  BY <1>2
<1>7. ASSUME NEW o \in objs
      PROVE  /\ At(o, step[o], u) \in Read /\ At(o, step[o], u).obj = o
             /\ At(o, step[o], u) # NoRead
  <2>1. At(o, step[o], u) \in Read
    OBVIOUS
  <2> QED
    BY <2>1, ResourcesAssumption DEF At
<1>8. \A r \in Reads : reads[r] \in Read \cup {NoRead} /\ (reads[r] # NoRead => \A o \in objs : slot[o] # r)
  BY <1>3 DEF TypeOK
<1>9. reads' \in [Reads -> Read \cup {NoRead}]
  <2>1. \A r \in Reads : reads'[r] \in Read \cup {NoRead}
    BY <1>5, <1>6, <1>7, <1>8
  <2> QED
    BY <1>2, <2>1
<1>10. \A r \in Reads : reads[r] # NoRead => reads'[r] = reads[r]
  BY <1>6, <1>8
<1>11. ASSUME NEW r \in Reads, reads[r] = NoRead, reads'[r] # NoRead
       PROVE  reads'[r].obj \in objs /\ reads'[r] = At(reads'[r].obj, step[reads'[r].obj], u)
  <2>1. PICK o \in objs : slot[o] = r
    BY <1>6, <1>11
  <2> QED
    BY <1>5, <1>7, <2>1
<1>12. ASSUME NEW o \in Objects \ objs PROVE Same(o)
  BY <1>10, <1>11, <1>12 DEF Same, ReadsOf
<1>13. ASSUME NEW o \in objs
       PROVE  /\ reads[slot[o]] = NoRead /\ reads'[slot[o]] = At(o, step[o], u)
              /\ ReadsOf(o)' = ReadsOf(o) \cup {slot[o]}
  <2>1. ASSUME NEW r \in ReadsOf(o)' PROVE r \in ReadsOf(o) \cup {slot[o]}
    <3>1. r \in Reads /\ reads'[r] # NoRead /\ reads'[r].obj = o
      BY <2>1 DEF ReadsOf
    <3>2. CASE \A p \in objs : slot[p] # r
      BY <1>6, <3>1, <3>2 DEF ReadsOf
    <3>3. CASE \E p \in objs : slot[p] = r
      BY <1>5, <1>7, <3>1, <3>3
    <3> QED
      BY <3>2, <3>3
  <2>2. ReadsOf(o) \subseteq ReadsOf(o)'
    BY <1>10 DEF ReadsOf
  <2>3. slot[o] \in ReadsOf(o)'
    BY <1>3, <1>5, <1>7 DEF ReadsOf
  <2> QED
    BY <1>3, <1>5, <2>1, <2>2, <2>3
<1> QED
  BY <1>3, <1>9, <1>10, <1>11, <1>12, <1>13 DEF BeginReads, Begun

(* How the inbox changes.                                                  *)
LEMMA InboxChanges ==
    ASSUME TypeOK
    PROVE  /\ inbox \in Seq(Message)
           /\ \A m \in Message : Append(inbox, m) \in Seq(Message)
           /\ inbox # <<>> => Head(inbox) \in Message /\ Tail(inbox) \in Seq(Message)
<1>1. inbox \in Seq(Message)
  BY DEF TypeOK
<1>2. \A m \in Message : Append(inbox, m) \in Seq(Message)
  BY <1>1, AppendProperties
<1>3. inbox # <<>> => Head(inbox) \in Message /\ Tail(inbox) \in Seq(Message)
  BY <1>1, Leaves
<1> QED
  BY <1>1, <1>2, <1>3

(* A change is one of these.                                               *)
LEMMA ChangeEffect ==
    ASSUME TypeOK, PersistInv, LibvirtChanges
    PROVE  \E o \in Objects, s \in States, p \in BOOLEAN, e \in Events :
               /\ Change(o, s, p, e)
               /\ s = "inactive" => p
               /\ s = "gone" => ~p /\ object[o] # "gone" /\ e \in {"STOPPED", "UNDEFINED"}
               /\ e = "UNDEFINED" => object[o] = "inactive" /\ s = "gone"
               /\ e = "DELETED" => s = object[o] /\ p = persistent[o]
               /\ s # object[o] => e \in {"DEFINED", "STARTED", "STOPPED", "UNDEFINED"}
               /\ object[o] = "gone" => e = "DEFINED" \/ (e = "STARTED" /\ ~p)
               /\ p /\ ~persistent[o] => e = "DEFINED"
<1> PICK o \in Objects : Define(o) \/ Start(o) \/ Stop(o) \/ Undefine(o) \/ Build(o) \/ Refresh(o)
  BY DEF LibvirtChanges
<1>1. /\ object[o] \in States /\ persistent[o] \in BOOLEAN
      /\ object[o] = "inactive" => persistent[o]
      /\ object[o] = "gone" => ~persistent[o]
  BY DEF TypeOK, PersistInv
<1>2. CASE Define(o)
  <2> DEFINE s == IF object[o] = "gone" THEN "inactive" ELSE object[o]
  <2>1. Change(o, s, TRUE, "DEFINED") /\ s \in States
    BY <1>1, <1>2 DEF Define, States
  <2> QED
    BY <1>1, <2>1 DEF Events, States
<1>3. CASE Start(o)
  <2>1. Change(o, "active", persistent[o], "STARTED")
    BY <1>3 DEF Start
  <2> QED
    BY <1>1, <2>1 DEF Events, States
<1>4. CASE Stop(o)
  <2> DEFINE s == IF persistent[o] THEN "inactive" ELSE "gone"
  <2>1. object[o] = "active" /\ Change(o, s, persistent[o], "STOPPED")
    BY <1>4 DEF Stop
  <2> QED
    BY <1>1, <2>1 DEF Events, States
<1>5. CASE Undefine(o)
  <2>1. object[o] = "inactive" /\ Change(o, "gone", FALSE, "UNDEFINED")
    BY <1>5 DEF Undefine
  <2> QED
    BY <1>1, <2>1 DEF Events, States
<1>6. CASE Build(o)
  <2>1. object[o] = "inactive" /\ \E e \in {"CREATED", "DELETED"} : Change(o, "inactive", TRUE, e)
    BY <1>6 DEF Build
  <2> QED
    BY <1>1, <2>1 DEF Events, States
<1>7. CASE Refresh(o)
  <2>1. object[o] = "active" /\ Change(o, "active", persistent[o], "Refresh")
    BY <1>7 DEF Refresh
  <2> QED
    BY <1>1, <2>1 DEF Events, States
<1> QED
  BY <1>2, <1>3, <1>4, <1>5, <1>6, <1>7

-----------------------------------------------------------------------------
(* libvirt's steps *)

LEMMA ChangeKeepsCommonInv ==
    ASSUME CommonInv, LibvirtChanges
    PROVE  CommonInv'
<1> USE DEF CommonInv
<1> PICK o \in Objects, s \in States, p \in BOOLEAN, e \in Events :
        Change(o, s, p, e) /\ (s = "inactive" => p) /\ (s = "gone" => ~p)
  BY ChangeEffect
<1> DEFINE x == Signal(o, e)
<1>1. x \in Message /\ inbox \in Seq(Message) /\ Append(inbox, x) \in Seq(Message)
  BY InboxChanges, MessageTypes
<1>2. /\ inbox' = Append(inbox, x) /\ load' = load /\ reads' = reads /\ kind' = kind /\ rows' = rows
      /\ missed' = missed /\ overlapped' = overlapped /\ changes < MaxChanges /\ changes' = changes + 1
      /\ object' = [object EXCEPT ![o] = s] /\ persistent' = [persistent EXCEPT ![o] = p]
  BY DEF Change, history
<1>3. /\ In(inbox') = In(inbox) \cup {x}
      /\ \A m : m # x /\ Once(inbox, m) => Once(inbox', m)
  BY <1>1, <1>2, Arrives
<1> HIDE DEF x
<1>4. TypeOK'
  BY <1>1, <1>2, ResourcesAssumption DEF TypeOK
<1>5. PersistInv'
  BY <1>2 DEF PersistInv, TypeOK
<1>6. ReplyInv'
  BY <1>2, <1>3, MessagesDiffer DEF ReplyInv, Reply, x
<1>7. StepInv'
  BY <1>2 DEF StepInv
<1>8. LoadInv'
  BY <1>2, <1>3 DEF LoadInv, Signal, x
<1> QED
  BY <1>4, <1>5, <1>6, <1>7, <1>8

LEMMA ChangeKeepsObjInv ==
    ASSUME IInv, LibvirtChanges
    PROVE  \A q \in Objects : ObjInv(q)'
<1> USE DEF IInv, CommonInv
<1> PICK o \in Objects, s \in States, p \in BOOLEAN, e \in Events :
        /\ Change(o, s, p, e)
        /\ s = "gone" => ~p /\ object[o] # "gone" /\ e \in {"STOPPED", "UNDEFINED"}
        /\ e = "UNDEFINED" => object[o] = "inactive" /\ s = "gone"
        /\ e = "DELETED" => s = object[o] /\ p = persistent[o]
        /\ s # object[o] => e \in {"DEFINED", "STARTED", "STOPPED", "UNDEFINED"}
        /\ object[o] = "gone" => e = "DEFINED" \/ (e = "STARTED" /\ ~p)
        /\ p /\ ~persistent[o] => e = "DEFINED"
  BY ChangeEffect
<1> DEFINE x == Signal(o, e)
<1>1. x \in Message /\ inbox \in Seq(Message)
  BY InboxChanges, MessageTypes
<1>2. /\ inbox' = Append(inbox, x) /\ load' = load /\ reads' = reads /\ kind' = kind /\ rows' = rows
      /\ missed' = missed /\ overlapped' = overlapped
      /\ object' = [object EXCEPT ![o] = s] /\ persistent' = [persistent EXCEPT ![o] = p]
      /\ object'[o] = s /\ persistent'[o] = p
  BY DEF Change, history, TypeOK
<1>3. /\ In(inbox') = In(inbox) \cup {x}
      /\ \A A, B : x \in A => Unfollowed(inbox', A, B)
      /\ \A A, B : x \notin B /\ Unfollowed(inbox, A, B) => Unfollowed(inbox', A, B)
      /\ \A A, m : Heralded(inbox, A, m) => Heralded(inbox', A, m)
  BY <1>1, <1>2, Arrives
<1> HIDE DEF x
<1>4. \A r \in Reads : Reply(r)' = Reply(r) /\ Reply(r) # x
  BY MessagesDiffer DEF Reply, x
<1>5. ASSUME NEW q \in Objects
      PROVE  /\ ReadsOf(q)' = ReadsOf(q) /\ Announcing(q)' = Announcing(q) /\ Listed(q)' = Listed(q)
             /\ Adding(q)' = Adding(q) /\ Unwelcome(q)' = Unwelcome(q) /\ Removing(q)' = Removing(q)
             /\ LandingReplies(q)' = LandingReplies(q) /\ Same(q) /\ Signal(q, "UNDEFINED")' = Signal(q, "UNDEFINED")
             /\ \A r \in Reads : (Seen(r)' <=> Seen(r)) /\ (Lost(r)' <=> Lost(r)) /\ (Landing(r)' <=> Landing(r))
  BY <1>2 DEF ReadsOf, Announcing, Listed, Adding, Unwelcome, LostReplies, Removing, LandingReplies,
              Landing, Lost, Seen, Same, Reply, Signal
<1>6. ASSUME NEW q \in Objects, q # o PROVE ObjInv(q)'
  <2>1. x \notin Relevant(q)
    BY <1>6, MessagesDiffer DEF Relevant, x
  <2>2. Stay(Relevant(q), inbox, inbox')
    BY <1>1, <1>2, <2>1, StayWhenSame, StayAfterAppend
  <2> QED
    BY <1>2, <1>5, <1>6, <2>2, Unconcerned DEF TypeOK
<1>7. ObjInv(o)'
  <2>1. Announced(o) => Announced(o)'
    BY <1>3, <1>5 DEF Announced
  <2>2. s # object[o] /\ e # "UNDEFINED" => Announced(o)'
    BY <1>3, <1>5 DEF Announced, Announcing, x
  <2>3. Expected(o) => Expected(o)'
    BY <1>2, <1>3, <1>5 DEF Expected
  <2>4. object[o] \in States /\ persistent[o] \in BOOLEAN
    BY DEF TypeOK
  <2>5. SingleInv(o)'
    BY <1>2, <1>5 DEF ObjInv, SingleInv
  <2>6. SeenInv(o)'
    <3> SUFFICES ASSUME Known(o)', NEW r \in ReadsOf(o)
                 PROVE  /\ Seen(r)' /\ (object'[o] # "gone" \/ reads'[r].active = "active") =>
                               reads'[r].active = object'[o] \/ Announced(o)'
                        /\ Lost(r)' /\ object'[o] # "gone" => Announced(o)'
      BY <1>5 DEF SeenInv
    <3>1. Known(o)
      BY <1>2 DEF Known
    <3>2. r \in Reads
      BY DEF ReadsOf
    <3>3. /\ Seen(r) /\ (object[o] # "gone" \/ reads[r].active = "active") => reads[r].active = object[o] \/ Announced(o)
          /\ Lost(r) /\ object[o] # "gone" => Announced(o)
      BY <3>1 DEF ObjInv, SeenInv
    <3> QED
      BY <1>2, <1>5, <2>1, <2>2, <2>4, <3>2, <3>3
  <2>7. RowInv(o)'
    <3>1. Known(o)' => Known(o)
      BY <1>2 DEF Known
    <3> QED
      BY <1>2, <1>5, <2>1, <2>2, <2>3, <2>4, <3>1 DEF ObjInv, RowInv
  <2>8. VolumesInv(o)'
    <3>1. Known(o)' => Known(o)
      BY <1>2 DEF Known
    <3> QED
      BY <1>2, <1>3, <1>4, <1>5, <3>1 DEF ObjInv, VolumesInv, ReadsOf
  <2>9. ThereInv(o)'
    <3> SUFFICES ASSUME Tracked(o)', s # "gone", load # "asked",
                        ~Unfollowed(inbox', Adding(o), Unwelcome(o))
                 PROVE  /\ Signal(o, "UNDEFINED") \notin In(inbox')
                        /\ \A r \in ReadsOf(o) : ~Lost(r)
                        /\ rows[o] # "unlisted" \/ \E r \in ReadsOf(o) : ~reads[r].updateOnly
      BY <1>2, <1>5 DEF ThereInv, ReadsOf
    <3>1. x \notin Adding(o)
      BY <1>3
    <3>2. e # "DEFINED" /\ (kind[o] = "network" => e # "STARTED")
      BY <3>1 DEF Adding, x
    <3>3. object[o] # "gone"
      BY <1>2, <2>4, <3>2 DEF Tracked
    <3>4. Tracked(o)
      BY <1>2, <2>4, <3>2 DEF Tracked
    <3>5. x # Signal(o, "UNDEFINED")
      BY MessagesDiffer DEF x
    <3>6. x \notin Unwelcome(o)
      BY <3>5, MessagesDiffer DEF Unwelcome, LostReplies, x
    <3>7. ~Unfollowed(inbox, Adding(o), Unwelcome(o))
      BY <1>3, <3>6
    <3> QED
      BY <1>3, <3>3, <3>4, <3>5, <3>7 DEF ObjInv, ThereInv
  <2>10. GoneInv(o)'
    <3> SUFFICES ASSUME s = "gone" PROVE Unfollowed(inbox', Removing(o), LandingReplies(o))
      BY <1>2, <1>3, <1>5, <2>4 DEF GoneInv
    <3>1. x \in Removing(o)
      BY DEF Removing, x
    <3> QED
      BY <1>3, <3>1
  <2> QED
    BY <2>5, <2>6, <2>7, <2>8, <2>9, <2>10 DEF ObjInv
<1> QED
  BY <1>6, <1>7

(* What an answer does to the read that asked.                             *)
LEMMA AnswerEffect ==
    ASSUME CommonInv, NEW r \in Reads, AnswerRead(r)
    PROVE  \E o \in Objects, a \in {"none", "ok", "absent", "error"}, mid \in Seq(Message), e \in Events :
               /\ o = reads[r].obj /\ reads[r] # NoRead /\ reads[r].answer = "none" /\ a # "none"
               /\ e = "Refresh" /\ mid \in {inbox, Append(inbox, Signal(o, e))}
               /\ inbox' = Append(mid, Reply(r))
               /\ kind' = kind /\ object' = object /\ persistent' = persistent /\ changes' = changes
               /\ load' = load /\ rows' = rows /\ missed' = missed /\ overlapped' = overlapped
               /\ reads' \in [Reads -> Read \cup {NoRead}]
               /\ \A q \in Reads \ {r} : reads'[q] = reads[q]
               /\ reads'[r] # NoRead
               /\ reads'[r].obj = o /\ reads'[r].step = reads[r].step /\ reads'[r].answer = a
               /\ reads'[r].updateOnly = reads[r].updateOnly
               /\ reads'[r].active = (IF reads[r].step \in {"props", "getActive"} /\ a = "ok"
                                      THEN StateSeen(o) ELSE reads[r].active)
               /\ a = "absent" => reads[r].step = "list" /\ object[o] = "gone"
               /\ a = "error" /\ reads[r].step \notin {"refresh", "volumes"} =>
                      reads[r].step # "list" /\ object[o] = "gone"
               /\ a = "error" /\ reads[r].step = "volumes" => object[o] # "active"
               /\ a = "ok" /\ reads[r].step = "xml" => object[o] # "gone"
               /\ a = "ok" /\ reads[r].step = "list" => object[o] # "gone"
<1> USE DEF CommonInv
<1> DEFINE o == reads[r].obj
           s == reads[r].step
<1>1. /\ reads \in [Reads -> Read \cup {NoRead}] /\ reads[r] \in Read /\ reads[r].answer = "none"
      /\ reads[r] # NoRead
      /\ o \in Objects /\ s \in Steps /\ reads[r].updateOnly \in BOOLEAN
      /\ reads[r].active \in RowStates \ {"unlisted"} /\ object[o] \in States
  BY DEF AnswerRead, TypeOK, Read
<1>2. PICK a \in Answers(o, s) :
        /\ reads' = [reads EXCEPT ![r] =
               [obj |-> o, step |-> s, updateOnly |-> reads[r].updateOnly, answer |-> a,
                active |-> IF s \in {"props", "getActive"} /\ a = "ok"
                           THEN StateSeen(o) ELSE reads[r].active]]
        /\ inbox' = (IF s = "refresh" /\ a = "ok" THEN Append(inbox, Signal(o, "Refresh")) ELSE inbox)
                    \o <<[kind |-> "read", read |-> r]>>
  BY DEF AnswerRead
<1> DEFINE mid == IF s = "refresh" /\ a = "ok" THEN Append(inbox, Signal(o, "Refresh")) ELSE inbox
           v == IF s \in {"props", "getActive"} /\ a = "ok" THEN StateSeen(o) ELSE reads[r].active
           new == [obj |-> o, step |-> s, updateOnly |-> reads[r].updateOnly, answer |-> a, active |-> v]
<1>3. /\ a \in {"ok", "absent", "error"}
      /\ a = "absent" => s = "list" /\ object[o] = "gone"
      /\ a = "error" /\ s \notin {"refresh", "volumes"} => s # "list" /\ object[o] = "gone"
      /\ a = "error" /\ s = "volumes" => object[o] # "active"
      /\ a = "ok" /\ s = "xml" => object[o] # "gone"
      /\ a = "ok" /\ s = "list" => object[o] # "gone"
  <2> HIDE DEF o, s
  <2> QED
    BY <1>1 DEF Answers, Steps
<1>4. v \in RowStates \ {"unlisted"}
  BY <1>1 DEF StateSeen, RowStates, States
<1>5. new \in Read
  <2> HIDE DEF v, o, s
  <2> QED
    BY <1>1, <1>3, <1>4 DEF Read
<1>6. mid \in Seq(Message)
  BY <1>1, InboxChanges, MessageTypes DEF Events
<1>7. inbox' = Append(mid, Reply(r))
  <2>1. Reply(r) \in Message
    BY MessageTypes
  <2> HIDE DEF mid
  <2> QED
    BY <1>2, <1>6, <2>1, AppendIsConcat DEF Reply, mid
<1>8. reads' = [reads EXCEPT ![r] = new]
  BY <1>2
<1>9. reads'[r] = new /\ \A q \in Reads \ {r} : reads'[q] = reads[q]
  BY <1>1, <1>8
<1>10. reads' \in [Reads -> Read \cup {NoRead}]
  <2> HIDE DEF new
  <2> QED
    BY <1>1, <1>5, <1>8
<1>11. new # NoRead
  BY <1>5, ResourcesAssumption
<1>12. /\ kind' = kind /\ object' = object /\ persistent' = persistent /\ changes' = changes
       /\ load' = load /\ rows' = rows /\ missed' = missed /\ overlapped' = overlapped
  BY DEF AnswerRead, libvirtVars, history
<1>13. /\ reads'[r] # NoRead /\ reads'[r].obj = o /\ reads'[r].step = s /\ reads'[r].answer = a
       /\ reads'[r].updateOnly = reads[r].updateOnly /\ reads'[r].active = v
  <2> HIDE DEF v, o, s
  <2> QED
    BY <1>9, <1>11
<1>14. PICK e \in Events : e = "Refresh"
  BY DEF Events
<1>15. mid \in {inbox, Append(inbox, Signal(o, e))}
  BY <1>14
<1> HIDE DEF mid
<1> QED
  BY <1>1, <1>3, <1>6, <1>7, <1>9, <1>10, <1>12, <1>13, <1>14, <1>15

LEMMA AnswerReadKeepsIInv ==
    ASSUME IInv, NEW r \in Reads, AnswerRead(r)
    PROVE  IInv'
<1> USE DEF IInv, CommonInv
<1> PICK o \in Objects, a \in {"none", "ok", "absent", "error"}, mid \in Seq(Message), e \in Events :
        /\ o = reads[r].obj /\ reads[r] # NoRead /\ reads[r].answer = "none" /\ a # "none"
        /\ e = "Refresh" /\ mid \in {inbox, Append(inbox, Signal(o, e))}
        /\ inbox' = Append(mid, Reply(r))
        /\ kind' = kind /\ object' = object /\ persistent' = persistent /\ changes' = changes
        /\ load' = load /\ rows' = rows /\ missed' = missed /\ overlapped' = overlapped
        /\ reads' \in [Reads -> Read \cup {NoRead}]
        /\ \A q \in Reads \ {r} : reads'[q] = reads[q]
        /\ reads'[r] # NoRead
        /\ reads'[r].obj = o /\ reads'[r].step = reads[r].step /\ reads'[r].answer = a
        /\ reads'[r].updateOnly = reads[r].updateOnly
        /\ reads'[r].active = (IF reads[r].step \in {"props", "getActive"} /\ a = "ok"
                               THEN StateSeen(o) ELSE reads[r].active)
        /\ a = "absent" => reads[r].step = "list" /\ object[o] = "gone"
        /\ a = "error" /\ reads[r].step \notin {"refresh", "volumes"} =>
               reads[r].step # "list" /\ object[o] = "gone"
        /\ a = "error" /\ reads[r].step = "volumes" => object[o] # "active"
        /\ a = "ok" /\ reads[r].step = "xml" => object[o] # "gone"
        /\ a = "ok" /\ reads[r].step = "list" => object[o] # "gone"
  BY AnswerEffect
<1> DEFINE x == Signal(o, e)
<1>1. x \in Message /\ Reply(r) \in Message /\ inbox \in Seq(Message) /\ x # Reply(r)
  <2>2. x \in Message /\ Reply(r) \in Message
    BY MessageTypes
  <2>3. x # Reply(r)
    BY MessagesDiffer
  <2> QED
    BY <2>2, <2>3, InboxChanges
<1>2. Reply(r) \notin In(inbox)
  BY DEF ReplyInv
<1>3. /\ In(inbox) \subseteq In(mid) /\ In(mid) \subseteq In(inbox) \cup {x}
      /\ \A m : m # x /\ Once(inbox, m) => Once(mid, m)
      /\ \A A, B : x \notin B /\ Unfollowed(inbox, A, B) => Unfollowed(mid, A, B)
      /\ \A A, m : Heralded(inbox, A, m) => Heralded(mid, A, m)
  <2>1. CASE mid = inbox
    BY <2>1
  <2>2. CASE mid = Append(inbox, x)
    <3> HIDE DEF x
    <3> QED
      BY <1>1, <2>2, Arrives
  <2> QED
    BY <2>1, <2>2
<1>4. /\ In(inbox') = In(mid) \cup {Reply(r)}
      /\ Reply(r) \notin In(mid) => Once(inbox', Reply(r))
      /\ \A m : m # Reply(r) /\ Once(mid, m) => Once(inbox', m)
      /\ \A A, B : Reply(r) \notin B /\ Unfollowed(mid, A, B) => Unfollowed(inbox', A, B)
      /\ \A A, m : Heralded(mid, A, m) => Heralded(inbox', A, m)
  <2>1. inbox' = Append(mid, Reply(r)) /\ mid \in Seq(Message)
    OBVIOUS
  <2> QED
    BY <1>1, <2>1, Arrives
<1>5. /\ In(inbox) \subseteq In(inbox') /\ In(inbox') \subseteq In(inbox) \cup {x, Reply(r)}
      /\ Reply(r) \in In(inbox')
      /\ Once(inbox', Reply(r))
      /\ \A m : m \notin {x, Reply(r)} /\ Once(inbox, m) => Once(inbox', m)
      /\ \A A, B : x \notin B /\ Reply(r) \notin B /\ Unfollowed(inbox, A, B) => Unfollowed(inbox', A, B)
      /\ \A A, m : Heralded(inbox, A, m) => Heralded(inbox', A, m)
  BY <1>1, <1>2, <1>3, <1>4
<1>6. inbox' \in Seq(Message)
  BY <1>1, AppendProperties
<1> HIDE DEF x
<1>7. /\ \A q : Reply(q)' = Reply(q) /\ (Reply(q) = Reply(r) => q = r) /\ Reply(q) # x
      /\ \A p, f : Signal(p, f) # Reply(r) /\ (Signal(p, f) = x => p = o /\ f = e)
      /\ \A p : Listed(p)' = Listed(p) /\ x \notin Listed(p) /\ Reply(r) \notin Listed(p)
  <2>1. /\ \A q : Reply(q)' = Reply(q)
        /\ \A p : Listed(p)' = Listed(p)
    BY DEF Reply, Listed
  <2> QED
    BY <2>1, MessagesDiffer DEF x
<1>8. TypeOK'
  BY <1>6 DEF TypeOK
<1>9. PersistInv'
  BY DEF PersistInv
<1>10. ReplyInv'
  <2> SUFFICES ASSUME NEW q \in Reads
               PROVE  /\ Once(inbox', Reply(q))
                      /\ Reply(q) \in In(inbox') <=> reads'[q] # NoRead /\ reads'[q].answer # "none"
    BY <1>7 DEF ReplyInv
  <2>1. CASE q = r
    BY <1>5, <2>1
  <2>2. CASE q # r
    BY <1>5, <1>7, <2>2 DEF ReplyInv
  <2> QED
    BY <2>1, <2>2
<1>11. StepInv'
  <2> SUFFICES ASSUME NEW q \in Reads, reads'[q] # NoRead
               PROVE  /\ reads'[q].answer = "absent" => reads'[q].step = "list"
                      /\ reads'[q].step = "list" => reads'[q].answer # "error"
                      /\ reads'[q].step = "volumes" => reads'[q].active = "active"
                      /\ kind[reads'[q].obj] = "network" => reads'[q].step \in {"list", "props", "xml"}
    BY DEF StepInv
  <2>1. CASE q = r
    BY <2>1 DEF StepInv
  <2>2. CASE q # r
    BY <2>2 DEF StepInv
  <2> QED
    BY <2>1, <2>2
<1>12. LoadInv'
  <2>1. x.kind # "all" /\ Reply(r).kind # "all"
    BY DEF x, Signal, Reply
  <2> QED
    BY <1>5, <2>1 DEF LoadInv
<1>13. ASSUME NEW p \in Objects, p # o PROVE ObjInv(p)'
  <2>1. Same(p)
    BY <1>13 DEF Same, ReadsOf
  <2>2. r \notin ReadsOf(p)
    BY <1>13 DEF ReadsOf
  <2>3. x \notin Relevant(p) /\ Reply(r) \notin Relevant(p)
    BY <1>7, <1>13, <2>2 DEF Relevant
  <2>4. Stay(Relevant(p), inbox, mid)
    <3>1. Stay(Relevant(p), inbox, inbox) /\ Stay(Relevant(p), inbox, Append(inbox, x))
      BY <1>1, <2>3, StayWhenSame, StayAfterAppend
    <3> QED
      BY <3>1 DEF x
  <2>5. Stay(Relevant(p), inbox, inbox')
    BY <1>1, <2>3, <2>4, StayAfterAppend
  <2> QED
    BY <1>13, <2>1, <2>5, Unconcerned
<1>14. ObjInv(o)'
  <2>1. ReadsOf(o)' = ReadsOf(o) /\ r \in ReadsOf(o) /\ ReadsOf(o) \subseteq Reads
    BY DEF ReadsOf
  <2>2. ASSUME NEW q \in ReadsOf(o), q # r
        PROVE  /\ Seen(q)' <=> Seen(q)
               /\ Lost(q)' <=> Lost(q)
               /\ Landing(q)' <=> Landing(q)
               /\ reads'[q] = reads[q]
    BY <2>1, <2>2 DEF Seen, Lost, Landing
  <2>3. ~Lost(r) /\ ~Landing(r) /\ (Lost(r)' => object[o] = "gone") /\ (Landing(r)' => object[o] # "gone")
    BY DEF Lost, Landing
  <2>4. Announcing(o)' = Announcing(o) /\ Adding(o)' = Adding(o) /\ Removing(o)' = Removing(o)
        /\ Signal(o, "UNDEFINED")' = Signal(o, "UNDEFINED") /\ (Announced(o) => Announced(o)')
        /\ (Expected(o) => Expected(o)') /\ (Known(o)' <=> Known(o)) /\ (Tracked(o)' <=> Tracked(o))
    <3>1. Announcing(o)' = Announcing(o) /\ Adding(o)' = Adding(o) /\ Removing(o)' = Removing(o)
          /\ Signal(o, "UNDEFINED")' = Signal(o, "UNDEFINED")
      BY <1>7 DEF Announcing, Adding, Removing, Signal
    <3>2. (Announced(o) => Announced(o)') /\ (Expected(o) => Expected(o)')
      BY <1>5, <1>7, <3>1 DEF Announced, Expected
    <3> QED
      BY <3>1, <3>2 DEF Known, Tracked
  <2>5. object[o] # "gone" => Unwelcome(o)' \subseteq Unwelcome(o)
    <3>1. object[o] # "gone" => {q \in ReadsOf(o)' : Lost(q)'} \subseteq {q \in ReadsOf(o) : Lost(q)}
      BY <2>1, <2>2, <2>3
    <3> QED
      BY <2>4, <3>1, <1>7 DEF Unwelcome, LostReplies
  <2>6. object[o] = "gone" => LandingReplies(o)' \subseteq LandingReplies(o)
    <3>1. object[o] = "gone" => {q \in ReadsOf(o)' : Landing(q)'} \subseteq {q \in ReadsOf(o) : Landing(q)}
      BY <2>1, <2>2, <2>3
    <3> QED
      BY <3>1, <1>7 DEF LandingReplies
  <2>7. x \notin Unwelcome(o) /\ x \notin LandingReplies(o) /\ Reply(r) \notin Unwelcome(o)
        /\ Reply(r) \notin LandingReplies(o)
    BY <1>7, <2>3 DEF Unwelcome, LandingReplies, LostReplies
  <2>8. SingleInv(o)'
    BY <2>1 DEF ObjInv, SingleInv
  <2>9. SeenInv(o)'
    <3> SUFFICES ASSUME Known(o), NEW q \in ReadsOf(o)
                 PROVE  /\ Seen(q)' /\ (object[o] # "gone" \/ reads'[q].active = "active") =>
                               reads'[q].active = object[o] \/ Announced(o)'
                        /\ Lost(q)' /\ object[o] # "gone" => Announced(o)'
      BY <2>1, <2>4 DEF SeenInv
    <3>1. /\ Seen(q) /\ (object[o] # "gone" \/ reads[q].active = "active") => reads[q].active = object[o] \/ Announced(o)
          /\ Lost(q) /\ object[o] # "gone" => Announced(o)
      BY DEF ObjInv, SeenInv
    <3>2. CASE q # r
      BY <2>2, <2>4, <3>1, <3>2
    <3>3. CASE q = r
      <4>1. CASE reads[r].step \in {"props", "getActive"} /\ a = "ok"
        <5>1. reads'[r].active = StateSeen(o)
          BY <4>1
        <5> QED
          BY <2>3, <3>3, <5>1 DEF StateSeen
      <4>2. CASE ~(reads[r].step \in {"props", "getActive"} /\ a = "ok")
        <5>1. Seen(r)' => Seen(r)
          BY <4>2 DEF Seen
        <5> QED
          BY <2>3, <2>4, <3>1, <3>3, <4>2, <5>1
      <4> QED
        BY <4>1, <4>2
    <3> QED
      BY <3>2, <3>3
  <2>10. RowInv(o)'
    BY <2>1, <2>4 DEF ObjInv, RowInv
  <2>11. VolumesInv(o)'
    <3> SUFFICES ASSUME Known(o), NEW q \in ReadsOf(o), reads'[q].step = "volumes", reads'[q].answer = "error"
                 PROVE  Heralded(inbox', Announcing(o), Reply(q))
      BY <1>7, <2>1, <2>4 DEF VolumesInv
    <3>1. CASE q # r
      BY <1>5, <2>2, <3>1 DEF ObjInv, VolumesInv
    <3>2. CASE q = r
      <4>1. reads[r].step = "volumes" /\ reads[r].active = "active" /\ object[o] # "active"
        BY <2>1, <3>2 DEF StepInv
      <4>2. Announced(o)
        BY <2>1, <4>1 DEF ObjInv, SeenInv, Seen
      <4>3. Heralded(inbox, Announcing(o), Reply(r))
        BY <1>2, <4>2, Announces DEF Announced
      <4> QED
        BY <1>5, <3>2, <4>3
    <3> QED
      BY <3>1, <3>2
  <2>12. ThereInv(o)'
    <3> SUFFICES ASSUME Tracked(o), object[o] # "gone", load # "asked"
                 PROVE  \/ Unfollowed(inbox', Adding(o), Unwelcome(o)')
                        \/ /\ Signal(o, "UNDEFINED") \notin In(inbox')
                           /\ \A q \in ReadsOf(o) : ~Lost(q)'
                           /\ rows[o] # "unlisted" \/ \E q \in ReadsOf(o) : ~reads'[q].updateOnly
      BY <2>1, <2>4 DEF ThereInv
    <3>1. CASE Unfollowed(inbox, Adding(o), Unwelcome(o))
      <4>1. Unfollowed(inbox', Adding(o), Unwelcome(o))
        BY <1>5, <2>7, <3>1
      <4> QED
        BY <2>5, <4>1, UnfollowedByFewer
    <3>2. CASE /\ Signal(o, "UNDEFINED") \notin In(inbox)
               /\ \A q \in ReadsOf(o) : ~Lost(q)
               /\ rows[o] # "unlisted" \/ \E q \in ReadsOf(o) : ~reads[q].updateOnly
      <4>1. Signal(o, "UNDEFINED") \notin In(inbox')
        <5>1. Signal(o, "UNDEFINED") \notin {x, Reply(r)}
          BY <1>7
        <5> QED
          BY <1>5, <3>2, <5>1
      <4>2. \A q \in ReadsOf(o) : ~Lost(q)' /\ reads'[q].updateOnly = reads[q].updateOnly
        BY <2>2, <2>3, <3>2
      <4> QED
        BY <3>2, <4>1, <4>2
    <3> QED
      BY <3>1, <3>2 DEF ObjInv, ThereInv
  <2>13. GoneInv(o)'
    <3> SUFFICES ASSUME o \notin missed, kind[o] = "network", object[o] = "gone"
                 PROVE  \/ Unfollowed(inbox', Removing(o), LandingReplies(o)')
                        \/ /\ \A q \in ReadsOf(o) : ~Landing(q)'
                           /\ \/ rows[o] = "unlisted"
                              \/ \E q \in ReadsOf(o) : reads'[q].step = "list" /\ reads'[q].answer \in {"none", "absent"}
      BY <2>1, <2>4 DEF GoneInv
    <3>1. CASE Unfollowed(inbox, Removing(o), LandingReplies(o))
      <4>1. Unfollowed(inbox', Removing(o), LandingReplies(o))
        BY <1>5, <2>7, <3>1
      <4> QED
        BY <2>6, <4>1, UnfollowedByFewer
    <3>2. CASE /\ \A q \in ReadsOf(o) : ~Landing(q)
               /\ \/ rows[o] = "unlisted"
                  \/ \E q \in ReadsOf(o) : reads[q].step = "list" /\ reads[q].answer \in {"none", "absent"}
      <4>1. \A q \in ReadsOf(o) : ~Landing(q)'
        BY <2>2, <2>3, <3>2
      <4>2. reads[r].step = "list" => reads'[r].step = "list" /\ reads'[r].answer = "absent"
        OBVIOUS
      <4>3. CASE \E q \in ReadsOf(o) : reads[q].step = "list" /\ reads[q].answer \in {"none", "absent"}
        BY <2>2, <4>1, <4>2, <4>3
      <4> QED
        BY <3>2, <4>1, <4>3
    <3> QED
      BY <3>1, <3>2 DEF ObjInv, GoneInv
  <2> QED
    BY <2>8, <2>9, <2>10, <2>11, <2>12, <2>13 DEF ObjInv
<1> QED
  BY <1>8, <1>9, <1>10, <1>11, <1>12, <1>13, <1>14

LEMMA AnswerAllKeepsIInv ==
    ASSUME IInv, AnswerAll
    PROVE  IInv'
<1> USE DEF IInv, CommonInv
<1> DEFINE S == {o \in Objects : object[o] # "gone"}
           x == [kind |-> "all", objs |-> S]
<1>1. x \in Message /\ inbox \in Seq(Message)
  BY InboxChanges, MessageTypes
<1>2. /\ inbox' = Append(inbox, x) /\ load = "asked" /\ load' = "answered"
      /\ reads' = reads /\ kind' = kind /\ rows' = rows /\ missed' = missed /\ overlapped' = overlapped
      /\ object' = object /\ persistent' = persistent /\ changes' = changes
  BY DEF AnswerAll, libvirtVars, history
<1>3. \A p \in Objects : x \in Listed(p) <=> p \in S
  BY MessagesDiffer
<1>4. \A r : x # Reply(r)
  BY DEF Reply
<1>5. \A p, e : x # Signal(p, e)
  BY DEF Signal
<1> HIDE DEF x
<1>6. /\ In(inbox') = In(inbox) \cup {x}
      /\ \A m : m # x /\ Once(inbox, m) => Once(inbox', m)
      /\ \A A, B : x \in A => Unfollowed(inbox', A, B)
      /\ \A A, B : x \notin B /\ Unfollowed(inbox, A, B) => Unfollowed(inbox', A, B)
      /\ \A A, m : Heralded(inbox, A, m) => Heralded(inbox', A, m)
  BY <1>1, <1>2, Arrives
<1>7. inbox' \in Seq(Message)
  BY <1>1, <1>2, InboxChanges
<1>8. TypeOK'
  BY <1>2, <1>7 DEF TypeOK
<1>9. PersistInv'
  BY <1>2 DEF PersistInv
<1>10. ReplyInv'
  BY <1>2, <1>4, <1>6 DEF ReplyInv, Reply
<1>11. StepInv' /\ LoadInv'
  BY <1>2 DEF StepInv, LoadInv
<1>12. ASSUME NEW o \in Objects PROVE ObjInv(o)'
  <2>1. /\ ReadsOf(o)' = ReadsOf(o) /\ Announcing(o)' = Announcing(o) /\ Listed(o)' = Listed(o)
        /\ Adding(o)' = Adding(o) /\ Unwelcome(o)' = Unwelcome(o) /\ Removing(o)' = Removing(o)
        /\ LandingReplies(o)' = LandingReplies(o)
        /\ \A r \in ReadsOf(o) : (Seen(r)' <=> Seen(r)) /\ (Lost(r)' <=> Lost(r)) /\ (Landing(r)' <=> Landing(r))
    BY <1>2 DEF ReadsOf, Announcing, Listed, Adding, Unwelcome, LostReplies, Removing, LandingReplies,
                Landing, Lost, Seen, Reply, Signal
  <2>2. x \notin LandingReplies(o) /\ x \notin Announcing(o)
    BY <1>4, <1>5 DEF LandingReplies, Announcing
  <2>3. Announced(o)' <=> Announced(o)
    BY <1>6, <2>1, <2>2 DEF Announced
  <2>4. Known(o)' <=> Known(o)
    BY <1>2 DEF Known
  <2>5. SingleInv(o)' /\ SeenInv(o)'
    BY <1>2, <2>1, <2>3, <2>4 DEF ObjInv, SingleInv, SeenInv
  <2>6. RowInv(o)'
    <3>1. object[o] # "gone" => Expected(o)'
      BY <1>3, <1>6, <2>1 DEF Expected
    <3> QED
      BY <1>2, <3>1 DEF RowInv
  <2>7. VolumesInv(o)'
    BY <1>2, <1>6, <2>1, <2>4 DEF ObjInv, VolumesInv, Reply
  <2>8. ThereInv(o)'
    <3>1. object[o] # "gone" => x \in Adding(o)
      BY <1>3 DEF Adding
    <3>2. object[o] # "gone" => Unfollowed(inbox', Adding(o), Unwelcome(o))
      BY <1>6, <3>1
    <3> QED
      BY <1>2, <2>1, <3>2 DEF ThereInv
  <2>9. GoneInv(o)'
    <3>1. Unfollowed(inbox, Removing(o), LandingReplies(o)) => Unfollowed(inbox', Removing(o), LandingReplies(o))
      BY <1>6, <2>2
    <3> QED
      BY <1>2, <2>1, <3>1 DEF ObjInv, GoneInv
  <2> QED
    BY <2>5, <2>6, <2>7, <2>8, <2>9 DEF ObjInv
<1> QED
  BY <1>8, <1>9, <1>10, <1>11, <1>12

-----------------------------------------------------------------------------
(* Reads that end *)

LEMMA EndEffect ==
    ASSUME TypeOK, NEW r \in Reads, reads[r] # NoRead, End(r)
    PROVE  /\ reads' \in [Reads -> Read \cup {NoRead}] /\ reads'[r] = NoRead
           /\ \A q \in Reads \ {r} : reads'[q] = reads[q]
           /\ \E o \in Objects : /\ o = reads[r].obj /\ r \in ReadsOf(o)
                                 /\ ReadsOf(o)' = ReadsOf(o) \ {r}
           /\ \A p : p # reads[r].obj => Same(p) /\ r \notin ReadsOf(p)
<1>1. /\ reads \in [Reads -> Read \cup {NoRead}]
      /\ reads' = [reads EXCEPT ![r] = NoRead]
  BY DEF TypeOK, End
<1>2. reads'[r] = NoRead /\ \A q \in Reads \ {r} : reads'[q] = reads[q]
  BY <1>1
<1>3. reads[r] \in Read
  BY <1>1
<1>4. PICK o \in Objects : o = reads[r].obj
  BY <1>3 DEF Read
<1>5. reads' \in [Reads -> Read \cup {NoRead}]
  BY <1>1
<1>6. ReadsOf(o)' = ReadsOf(o) \ {r} /\ r \in ReadsOf(o)
  BY <1>2, <1>4 DEF ReadsOf
<1>7. \A p : p # reads[r].obj => Same(p) /\ r \notin ReadsOf(p)
  BY <1>2 DEF Same, ReadsOf
<1> QED
  BY <1>2, <1>4, <1>5, <1>6, <1>7

LEMMA EndKeepsCommonInv ==
    ASSUME CommonInv, NEW r \in Reads, reads[r] # NoRead, End(r),
           kind' = kind, object' = object, persistent' = persistent, changes' = changes,
           load' = load \/ load' = "done", rows' \in [Objects -> RowStates],
           missed' \subseteq Objects, overlapped' = overlapped,
           inbox' \in Seq(Message), In(inbox') = In(inbox) \ {Reply(r)},
           \A m : Once(inbox, m) => Once(inbox', m)
    PROVE  CommonInv'
<1> USE DEF CommonInv
<1>1. /\ reads' \in [Reads -> Read \cup {NoRead}] /\ reads'[r] = NoRead
      /\ \A q \in Reads \ {r} : reads'[q] = reads[q]
  BY EndEffect
<1>2. TypeOK'
  BY <1>1 DEF TypeOK
<1>3. PersistInv'
  BY DEF PersistInv
<1>4. ReplyInv'
  <2>1. \A q \in Reads \ {r} : Reply(q) # Reply(r)
    BY MessagesDiffer
  <2> QED
    BY <1>1, <2>1 DEF ReplyInv, Reply
<1>5. StepInv'
  BY <1>1 DEF StepInv
<1>6. LoadInv'
  <2>1. load' = "asked" => load = "asked"
    OBVIOUS
  <2> QED
    BY <2>1 DEF LoadInv
<1> QED
  BY <1>2, <1>3, <1>4, <1>5, <1>6

LEMMA TimeOutKeepsIInv ==
    ASSUME IInv, NEW r \in Reads, TimeOut(r)
    PROVE  IInv'
<1> USE DEF IInv, CommonInv
<1>1. /\ reads[r] # NoRead /\ reads[r].answer = "none" /\ End(r) /\ missed' = missed \cup {reads[r].obj}
      /\ kind' = kind /\ object' = object /\ persistent' = persistent /\ changes' = changes
      /\ inbox' = inbox /\ load' = load /\ rows' = rows /\ overlapped' = overlapped
  BY DEF TimeOut, libvirtVars
<1>2. PICK o \in Objects : o = reads[r].obj /\ ReadsOf(o)' = ReadsOf(o) \ {r}
  BY <1>1, EndEffect
<1>3. Reply(r) \notin In(inbox)
  BY <1>1 DEF ReplyInv
<1>4. CommonInv'
  <2>1. inbox' \in Seq(Message) /\ rows' \in [Objects -> RowStates] /\ missed' \subseteq Objects
    BY <1>1, <1>2 DEF TypeOK
  <2> QED
    BY <1>1, <1>3, <2>1, EndKeepsCommonInv
<1>5. ASSUME NEW p \in Objects, p # o PROVE ObjInv(p)'
  <2>1. Stay(Relevant(p), inbox, inbox')
    BY <1>1, StayWhenSame
  <2>2. Same(p)
    BY <1>1, <1>2, <1>5, EndEffect
  <2> QED
    BY <1>1, <2>1, <2>2, Unconcerned
<1>6. ASSUME NEW p \in Objects, p = o PROVE ObjInv(p)'
  <2>1. p \in missed' /\ ReadsOf(p)' \subseteq ReadsOf(p)
    BY <1>1, <1>2, <1>6
  <2>2. SingleInv(p)'
    BY <1>1, <2>1 DEF ObjInv, SingleInv
  <2> QED
    BY <2>1, <2>2 DEF ObjInv, SeenInv, RowInv, VolumesInv, ThereInv, GoneInv, Known, Tracked
<1> QED
  BY <1>4, <1>5, <1>6

LEMMA TimeOutAllKeepsIInv ==
    ASSUME IInv, TimeOutAll
    PROVE  IInv'
<1> USE DEF IInv, CommonInv
<1>1. /\ kind' = kind /\ object' = object /\ persistent' = persistent /\ changes' = changes
      /\ inbox' = inbox /\ load' = "done" /\ rows' = rows /\ overlapped' = overlapped /\ reads' = reads
      /\ missed' = Objects
  BY DEF TimeOutAll, libvirtVars
<1>2. TypeOK' /\ PersistInv' /\ ReplyInv' /\ StepInv' /\ LoadInv'
  BY <1>1 DEF TypeOK, PersistInv, ReplyInv, StepInv, LoadInv, Reply
<1>3. ASSUME NEW p \in Objects PROVE ObjInv(p)'
  <2>1. ReadsOf(p)' = ReadsOf(p)
    BY <1>1 DEF ReadsOf
  <2> QED
    BY <1>1, <2>1 DEF ObjInv, SingleInv, SeenInv, RowInv, VolumesInv, ThereInv, GoneInv, Known, Tracked
<1> QED
  BY <1>2, <1>3

(* The answer of a read is handled.                                        *)
LEMMA ReturnEffect ==
    ASSUME CommonInv, NEW r \in Reads, NEW a, Returns(r, a)
    PROVE  /\ reads[r] # NoRead /\ reads[r].answer = a
           /\ kind' = kind /\ object' = object /\ persistent' = persistent /\ changes' = changes
           /\ load' = load /\ overlapped' = overlapped
           /\ inbox' \in Seq(Message) /\ In(inbox') = In(inbox) \ {Reply(r)} /\ Reply(r) \in In(inbox)
           /\ \A m : Once(inbox, m) => Once(inbox', m)
           /\ \A A, B : Unfollowed(inbox, A, B) => Unfollowed(inbox', A, B) \/ Reply(r) \in A
           /\ \A A, m : Heralded(inbox, A, m) =>
                            Reply(r) # m /\ (Heralded(inbox', A, m) \/ Reply(r) \in A)
           /\ \A p : r \notin ReadsOf(p) => Stay(Relevant(p), inbox, inbox')
<1> USE DEF CommonInv
<1>1. /\ inbox # <<>> /\ inbox' = Tail(inbox) /\ Head(inbox) = Reply(r)
      /\ reads[r] # NoRead /\ reads[r].answer = a
      /\ kind' = kind /\ object' = object /\ persistent' = persistent /\ changes' = changes
      /\ load' = load /\ overlapped' = overlapped
  BY DEF Returns, Receive, Reply, libvirtVars
<1>2. inbox \in Seq(Message) /\ inbox' \in Seq(Message)
  BY <1>1, InboxChanges
<1>3. /\ In(inbox) = In(inbox') \cup {Reply(r)}
      /\ \A m : Once(inbox, m) => Once(inbox', m)
      /\ Once(inbox, Reply(r)) => Reply(r) \notin In(inbox')
      /\ \A A, B : Unfollowed(inbox, A, B) => Unfollowed(inbox', A, B) \/ Reply(r) \in A
      /\ \A A, m : Heralded(inbox, A, m) =>
                       Reply(r) # m /\ (Heralded(inbox', A, m) \/ Reply(r) \in A)
  BY <1>1, <1>2, Leaves
<1>4. Once(inbox, Reply(r))
  BY DEF ReplyInv
<1>5. ASSUME NEW p, r \notin ReadsOf(p) PROVE Stay(Relevant(p), inbox, inbox')
  <2>1. Reply(r) \notin Relevant(p)
    BY <1>5, MessagesDiffer DEF Relevant
  <2> QED
    BY <1>1, <1>2, <2>1, StayAfterTail
<1> QED
  BY <1>1, <1>2, <1>3, <1>4, <1>5

(* What stays true of the object of a read that has been answered, whether *)
(* the read makes its next call or ends.                                   *)
LEMMA Returned ==
    ASSUME CommonInv, NEW r \in Reads, NEW a, Returns(r, a), NEW o \in Objects, ObjInv(o),
           missed \subseteq missed',
           ReadsOf(o)' \subseteq ReadsOf(o),
           \A q \in Reads \ {r} : reads'[q] = reads[q],
           r \in ReadsOf(o)' => /\ reads'[r].answer = "none" /\ reads'[r].active = reads[r].active
                                /\ Seen(r)' => Seen(r)
    PROVE  /\ \A q \in ReadsOf(o)' \ {r} : reads'[q] = reads[q] /\ (Lost(q)' <=> Lost(q)) /\ (Landing(q)' <=> Landing(q))
           /\ r \in ReadsOf(o)' => ~Lost(r)' /\ ~Landing(r)'
           /\ Announced(o)' <=> Announced(o)
           /\ Expected(o)' <=> Expected(o)
           /\ Known(o)' => Known(o)
           /\ Unfollowed(inbox, Adding(o), Unwelcome(o)) => Unfollowed(inbox, Adding(o), Unwelcome(o))'
           /\ Unfollowed(inbox, Removing(o), LandingReplies(o)) => Unfollowed(inbox, Removing(o), LandingReplies(o))'
           /\ Signal(o, "UNDEFINED")' \in In(inbox') => Signal(o, "UNDEFINED") \in In(inbox)
           /\ SingleInv(o)' /\ SeenInv(o)' /\ VolumesInv(o)'
<1>1. /\ reads[r] # NoRead /\ reads[r].answer = a
      /\ kind' = kind /\ object' = object /\ persistent' = persistent
      /\ load' = load /\ overlapped' = overlapped
      /\ inbox' \in Seq(Message) /\ In(inbox') = In(inbox) \ {Reply(r)} /\ Reply(r) \in In(inbox)
      /\ \A A, B : Unfollowed(inbox, A, B) => Unfollowed(inbox', A, B) \/ Reply(r) \in A
      /\ \A A, m : Heralded(inbox, A, m) => Reply(r) # m /\ (Heralded(inbox', A, m) \/ Reply(r) \in A)
  BY ReturnEffect
<1>2. Announcing(o)' = Announcing(o) /\ Adding(o)' = Adding(o) /\ Removing(o)' = Removing(o)
      /\ Signal(o, "UNDEFINED")' = Signal(o, "UNDEFINED") /\ Listed(o)' = Listed(o)
      /\ \A q : Reply(q)' = Reply(q)
  BY <1>1 DEF Announcing, Adding, Removing, Listed, Signal, Reply
<1>3. Reply(r) \notin Announcing(o) /\ Reply(r) \notin Adding(o) /\ Reply(r) \notin Removing(o)
      /\ Reply(r) \notin Listed(o)
  BY MessagesDiffer DEF Announcing, Adding, Removing
<1>4. ReadsOf(o)' \subseteq Reads
  BY DEF ReadsOf
<1>5. \A q \in ReadsOf(o)' \ {r} :
          /\ reads'[q] = reads[q]
          /\ Seen(q)' <=> Seen(q)
          /\ Lost(q)' <=> Lost(q)
          /\ Landing(q)' <=> Landing(q)
  BY <1>1, <1>4 DEF Seen, Lost, Landing
<1>6. r \in ReadsOf(o)' => ~Lost(r)' /\ ~Landing(r)'
  BY DEF Lost, Landing
<1>7. Announced(o)' <=> Announced(o)
  BY <1>1, <1>2, <1>3 DEF Announced
<1>8. Expected(o)' <=> Expected(o)
  BY <1>1, <1>2, <1>3 DEF Expected
<1>9. Known(o)' => Known(o)
  BY <1>1 DEF Known
<1>10. Unfollowed(inbox, Adding(o), Unwelcome(o)) => Unfollowed(inbox, Adding(o), Unwelcome(o))'
  <2>1. {q \in ReadsOf(o)' : Lost(q)'} \subseteq {q \in ReadsOf(o) : Lost(q)}
    BY <1>5, <1>6
  <2>2. Unwelcome(o)' \subseteq Unwelcome(o)
    BY <1>2, <2>1 DEF Unwelcome, LostReplies
  <2>3. Unfollowed(inbox, Adding(o), Unwelcome(o)) => Unfollowed(inbox', Adding(o), Unwelcome(o))
    BY <1>1, <1>3
  <2>4. Unfollowed(inbox', Adding(o), Unwelcome(o)) => Unfollowed(inbox', Adding(o), Unwelcome(o)')
    BY <2>2, UnfollowedByFewer
  <2> QED
    BY <1>2, <2>3, <2>4
<1>11. Unfollowed(inbox, Removing(o), LandingReplies(o)) => Unfollowed(inbox, Removing(o), LandingReplies(o))'
  <2>1. {q \in ReadsOf(o)' : Landing(q)'} \subseteq {q \in ReadsOf(o) : Landing(q)}
    BY <1>5, <1>6
  <2>2. LandingReplies(o)' \subseteq LandingReplies(o)
    BY <1>2, <2>1 DEF LandingReplies
  <2>3. Unfollowed(inbox, Removing(o), LandingReplies(o)) => Unfollowed(inbox', Removing(o), LandingReplies(o))
    BY <1>1, <1>3
  <2>4. Unfollowed(inbox', Removing(o), LandingReplies(o)) => Unfollowed(inbox', Removing(o), LandingReplies(o)')
    BY <2>2, UnfollowedByFewer
  <2> QED
    BY <1>2, <2>3, <2>4
<1>12. SingleInv(o)'
  BY <1>1 DEF ObjInv, SingleInv
<1>13. SeenInv(o)'
  <2> SUFFICES ASSUME Known(o), NEW q \in ReadsOf(o)'
               PROVE  /\ Seen(q)' /\ (object[o] # "gone" \/ reads'[q].active = "active") =>
                             reads'[q].active = object[o] \/ Announced(o)
                      /\ Lost(q)' /\ object[o] # "gone" => Announced(o)
    BY <1>1, <1>7, <1>9 DEF SeenInv
  <2>1. /\ Seen(q) /\ (object[o] # "gone" \/ reads[q].active = "active") => reads[q].active = object[o] \/ Announced(o)
        /\ Lost(q) /\ object[o] # "gone" => Announced(o)
    BY DEF ObjInv, SeenInv
  <2>2. CASE q = r
    BY <1>6, <2>1, <2>2
  <2>3. CASE q # r
    BY <1>5, <2>1, <2>3
  <2> QED
    BY <2>2, <2>3
<1>14. VolumesInv(o)'
  <2> SUFFICES ASSUME Known(o), NEW q \in ReadsOf(o)', reads'[q].step = "volumes", reads'[q].answer = "error"
               PROVE  Heralded(inbox', Announcing(o), Reply(q))
    BY <1>2, <1>9 DEF VolumesInv
  <2>1. q # r
    OBVIOUS
  <2>2. Heralded(inbox, Announcing(o), Reply(q))
    BY <1>5, <2>1 DEF ObjInv, VolumesInv
  <2> QED
    BY <1>1, <1>3, <2>2
<1>15. Signal(o, "UNDEFINED")' \in In(inbox') => Signal(o, "UNDEFINED") \in In(inbox)
  BY <1>1, <1>2
<1> QED
  BY <1>5, <1>6, <1>7, <1>8, <1>9, <1>10, <1>11, <1>12, <1>13, <1>14, <1>15

(* A read that has been answered ends.                                     *)
LEMMA AnsweredReadEnds ==
    ASSUME IInv, NEW r \in Reads, NEW a, Returns(r, a), End(r), NEW o \in Objects, o = reads[r].obj,
           rows' \in [Objects -> RowStates], \A p \in Objects \ {o} : rows'[p] = rows[p],
           missed \subseteq missed', missed' \subseteq Objects
    PROVE  /\ CommonInv'
           /\ \A p \in Objects \ {o} : ObjInv(p)'
           /\ ReadsOf(o)' = ReadsOf(o) \ {r} /\ r \in ReadsOf(o)
           /\ \A q \in ReadsOf(o)' : reads'[q] = reads[q] /\ (Lost(q)' <=> Lost(q)) /\ (Landing(q)' <=> Landing(q))
           /\ Announced(o)' <=> Announced(o)
           /\ Known(o)' => Known(o)
           /\ Unfollowed(inbox, Adding(o), Unwelcome(o)) => Unfollowed(inbox, Adding(o), Unwelcome(o))'
           /\ Unfollowed(inbox, Removing(o), LandingReplies(o)) => Unfollowed(inbox, Removing(o), LandingReplies(o))'
           /\ Signal(o, "UNDEFINED")' \in In(inbox') => Signal(o, "UNDEFINED") \in In(inbox)
           /\ SingleInv(o)' /\ SeenInv(o)' /\ VolumesInv(o)'
<1> USE DEF IInv
<1>1. /\ reads[r] # NoRead /\ reads[r].answer = a
      /\ kind' = kind /\ object' = object /\ persistent' = persistent /\ changes' = changes
      /\ load' = load /\ overlapped' = overlapped
      /\ inbox' \in Seq(Message) /\ In(inbox') = In(inbox) \ {Reply(r)}
      /\ \A m : Once(inbox, m) => Once(inbox', m)
      /\ \A p : r \notin ReadsOf(p) => Stay(Relevant(p), inbox, inbox')
  BY ReturnEffect
<1>2. /\ \A q \in Reads \ {r} : reads'[q] = reads[q]
      /\ ReadsOf(o)' = ReadsOf(o) \ {r} /\ r \in ReadsOf(o)
      /\ \A p : p # o => Same(p) /\ r \notin ReadsOf(p)
  BY <1>1, EndEffect DEF CommonInv
<1>3. CommonInv'
  BY <1>1, EndKeepsCommonInv
<1>4. ASSUME NEW p \in Objects \ {o} PROVE ObjInv(p)'
  BY <1>1, <1>2, Unconcerned
<1> QED
  BY <1>1, <1>2, <1>3, <1>4, Returned

LEMMA FinishKeepsIInv ==
    ASSUME IInv, NEW r \in Reads, Finish(r)
    PROVE  IInv'
<1> USE DEF IInv, CommonInv
<1>1. /\ Returns(r, "ok") /\ StepAfter(r) = "end" /\ End(r) /\ missed' = missed
      /\ reads[r] # NoRead /\ reads[r].answer = "ok"
      /\ kind' = kind /\ object' = object /\ persistent' = persistent /\ load' = load
      /\ overlapped' = overlapped
  BY ReturnEffect DEF Finish
<1>2. reads[r] \in Read /\ kind \in [Objects -> Kinds] /\ rows \in [Objects -> RowStates]
      /\ object \in [Objects -> States]
  BY <1>1 DEF TypeOK
<1>3. PICK o \in Objects : o = reads[r].obj
  BY <1>2 DEF Read
<1>4. /\ reads[r].active \in RowStates \ {"unlisted"}
      /\ object[o] \in States
  BY <1>2, <1>3 DEF Read
<1> DEFINE v == reads[r].active
           keep == reads[r].updateOnly /\ (rows[o] = "unlisted" \/ v = "unknown")
<1>5. rows' = IF keep THEN rows ELSE [rows EXCEPT ![o] = v]
  BY <1>3 DEF Finish
<1>6. /\ rows' \in [Objects -> RowStates]
      /\ \A p \in Objects \ {o} : rows'[p] = rows[p]
      /\ rows'[o] = IF keep THEN rows[o] ELSE v
  BY <1>2, <1>4, <1>5
<1> HIDE DEF keep
<1>7. Seen(r) /\ (kind[o] = "network" => Landing(r))
  <2>1. reads[r].step \in Steps
    BY <1>2 DEF Read
  <2>2. kind[o] = "network" => reads[r].step \in {"list", "props", "xml"}
    BY <1>1, <1>3 DEF StepInv
  <2>3. reads[r].step \notin {"list", "getActive", "refresh"}
    BY <1>1, <1>2, <1>3 DEF StepAfter, FirstStep
  <2>4. reads[r].step = "xml" => kind[o] = "network"
    BY <1>1, <1>2, <1>3, <2>3 DEF StepAfter, Kinds
  <2>5. reads[r].step = "props" => kind[o] # "network"
    BY <1>1, <1>2, <1>3, <2>3 DEF StepAfter, Kinds
  <2> QED
    BY <1>1, <1>3, <2>1, <2>2, <2>3, <2>4, <2>5 DEF Seen, Landing, Steps
<1>8. /\ CommonInv'
      /\ \A p \in Objects \ {o} : ObjInv(p)'
      /\ ReadsOf(o)' = ReadsOf(o) \ {r} /\ r \in ReadsOf(o)
      /\ \A q \in ReadsOf(o)' : reads'[q] = reads[q] /\ (Lost(q)' <=> Lost(q)) /\ (Landing(q)' <=> Landing(q))
      /\ Announced(o)' <=> Announced(o)
      /\ Known(o)' => Known(o)
      /\ Unfollowed(inbox, Adding(o), Unwelcome(o)) => Unfollowed(inbox, Adding(o), Unwelcome(o))'
      /\ Unfollowed(inbox, Removing(o), LandingReplies(o)) => Unfollowed(inbox, Removing(o), LandingReplies(o))'
      /\ Signal(o, "UNDEFINED")' \in In(inbox') => Signal(o, "UNDEFINED") \in In(inbox)
      /\ SingleInv(o)' /\ SeenInv(o)' /\ VolumesInv(o)'
  <2>1. missed \subseteq missed' /\ missed' \subseteq Objects
    BY <1>1 DEF TypeOK
  <2> QED
    BY <1>1, <1>3, <1>6, <2>1, AnsweredReadEnds
<1>9. RowInv(o)'
  <2> SUFFICES ASSUME Known(o), object[o] # "gone", ~Announced(o)
               PROVE  rows'[o] \in {"unlisted", object[o]}
    BY <1>1, <1>8 DEF RowInv
  <2>1. v = object[o]
    BY <1>7, <1>8 DEF ObjInv, SeenInv
  <2>2. keep => rows[o] = "unlisted"
    BY <1>4, <2>1 DEF keep, States
  <2> QED
    BY <1>6, <2>1, <2>2
<1>10. ThereInv(o)'
  <2> SUFFICES ASSUME Signal(o, "UNDEFINED") \notin In(inbox),
                      \A q \in ReadsOf(o) : ~Lost(q),
                      rows[o] # "unlisted" \/ \E q \in ReadsOf(o) : ~reads[q].updateOnly
               PROVE  /\ Signal(o, "UNDEFINED")' \notin In(inbox')
                      /\ \A q \in ReadsOf(o)' : ~Lost(q)'
                      /\ rows'[o] # "unlisted" \/ \E q \in ReadsOf(o)' : ~reads'[q].updateOnly
    <3>1. Tracked(o)' => Tracked(o)
      BY <1>1 DEF Tracked
    <3> QED
      BY <1>1, <1>8, <3>1 DEF ObjInv, ThereInv
  <2>1. keep => reads[r].updateOnly
    BY DEF keep
  <2>2. rows'[o] # "unlisted" \/ \E q \in ReadsOf(o)' : ~reads'[q].updateOnly
    <3>1. CASE ~keep
      BY <1>4, <1>6, <3>1
    <3>2. CASE keep
      BY <1>6, <1>8, <2>1, <3>2
    <3> QED
      BY <3>1, <3>2
  <2> QED
    BY <1>8, <2>2
<1>11. GoneInv(o)'
  BY <1>1, <1>7, <1>8 DEF ObjInv, GoneInv
<1>12. ObjInv(o)'
  BY <1>8, <1>9, <1>10, <1>11 DEF ObjInv
<1> QED
  BY <1>8, <1>12

LEMMA RemoveAbsentKeepsIInv ==
    ASSUME IInv, NEW r \in Reads, RemoveAbsent(r)
    PROVE  IInv'
<1> USE DEF IInv, CommonInv
<1>1. /\ Returns(r, "absent") /\ End(r) /\ missed' = missed
      /\ reads[r] # NoRead /\ reads[r].answer = "absent"
      /\ kind' = kind /\ object' = object /\ persistent' = persistent /\ load' = load
      /\ overlapped' = overlapped
  BY ReturnEffect DEF RemoveAbsent
<1>2. reads[r] \in Read /\ rows \in [Objects -> RowStates]
  BY <1>1 DEF TypeOK
<1>3. PICK o \in Objects : o = reads[r].obj
  BY <1>2 DEF Read
<1>4. /\ rows' \in [Objects -> RowStates]
      /\ \A p \in Objects \ {o} : rows'[p] = rows[p]
      /\ rows'[o] = "unlisted"
  BY <1>2, <1>3 DEF RemoveAbsent, RowStates
<1>5. Lost(r)
  BY <1>1 DEF StepInv, Lost
<1>6. /\ CommonInv'
      /\ \A p \in Objects \ {o} : ObjInv(p)'
      /\ ReadsOf(o)' = ReadsOf(o) \ {r} /\ r \in ReadsOf(o)
      /\ \A q \in ReadsOf(o)' : reads'[q] = reads[q] /\ (Lost(q)' <=> Lost(q)) /\ (Landing(q)' <=> Landing(q))
      /\ Unfollowed(inbox, Adding(o), Unwelcome(o)) => Unfollowed(inbox, Adding(o), Unwelcome(o))'
      /\ Unfollowed(inbox, Removing(o), LandingReplies(o)) => Unfollowed(inbox, Removing(o), LandingReplies(o))'
      /\ SingleInv(o)' /\ SeenInv(o)' /\ VolumesInv(o)'
  <2>1. missed \subseteq missed' /\ missed' \subseteq Objects
    BY <1>1 DEF TypeOK
  <2> QED
    BY <1>1, <1>3, <1>4, <2>1, AnsweredReadEnds
<1>7. RowInv(o)'
  BY <1>4 DEF RowInv
<1>8. ThereInv(o)'
  <2>1. Tracked(o)' => Tracked(o)
    BY <1>1 DEF Tracked
  <2> QED
    BY <1>1, <1>5, <1>6, <2>1 DEF ObjInv, ThereInv
<1>9. GoneInv(o)'
  BY <1>1, <1>4, <1>6 DEF ObjInv, GoneInv
<1>10. ObjInv(o)'
  BY <1>6, <1>7, <1>8, <1>9 DEF ObjInv
<1> QED
  BY <1>6, <1>10

LEMMA FailKeepsIInv ==
    ASSUME IInv, NEW r \in Reads, Fail(r)
    PROVE  IInv'
<1> USE DEF IInv, CommonInv
<1>1. /\ Returns(r, "error") /\ End(r) /\ rows' = rows
      /\ reads[r] # NoRead /\ reads[r].answer = "error"
      /\ kind' = kind /\ object' = object /\ persistent' = persistent /\ load' = load
      /\ overlapped' = overlapped
  BY ReturnEffect DEF Fail
<1>2. reads[r] \in Read /\ rows \in [Objects -> RowStates] /\ kind \in [Objects -> Kinds]
  BY <1>1 DEF TypeOK
<1>3. PICK o \in Objects : o = reads[r].obj
  BY <1>2 DEF Read
<1>4. missed' = IF reads[r].step \in {"getActive", "refresh"} THEN missed \cup {o} ELSE missed
  BY <1>3 DEF Fail
<1>5. /\ CommonInv'
      /\ \A p \in Objects \ {o} : ObjInv(p)'
      /\ ReadsOf(o)' = ReadsOf(o) \ {r} /\ r \in ReadsOf(o)
      /\ \A q \in ReadsOf(o)' : reads'[q] = reads[q] /\ (Lost(q)' <=> Lost(q)) /\ (Landing(q)' <=> Landing(q))
      /\ Announced(o)' <=> Announced(o)
      /\ Unfollowed(inbox, Adding(o), Unwelcome(o)) => Unfollowed(inbox, Adding(o), Unwelcome(o))'
      /\ Unfollowed(inbox, Removing(o), LandingReplies(o)) => Unfollowed(inbox, Removing(o), LandingReplies(o))'
      /\ SingleInv(o)' /\ SeenInv(o)' /\ VolumesInv(o)'
  <2>1. missed \subseteq missed' /\ missed' \subseteq Objects
    BY <1>4 DEF TypeOK
  <2>2. \A p \in Objects \ {o} : rows'[p] = rows[p]
    BY <1>1
  <2> QED
    BY <1>1, <1>2, <1>3, <2>1, <2>2, AnsweredReadEnds
<1>6. CASE reads[r].step \in {"getActive", "refresh"}
  <2>1. o \in missed'
    BY <1>4, <1>6
  <2>2. RowInv(o)' /\ ThereInv(o)' /\ GoneInv(o)'
    BY <2>1 DEF RowInv, ThereInv, GoneInv, Known, Tracked
  <2> QED
    BY <1>5, <2>2 DEF ObjInv
<1>7. CASE reads[r].step \notin {"getActive", "refresh"}
  <2>1. missed' = missed
    BY <1>4, <1>7
  <2>2. Known(o) => reads[r].step # "volumes"
    <3> SUFFICES ASSUME Known(o), reads[r].step = "volumes" PROVE FALSE
      OBVIOUS
    <3>1. Heralded(inbox, Announcing(o), Reply(r))
      BY <1>1, <1>5 DEF ObjInv, VolumesInv
    <3> QED
      BY <1>1, <3>1, ReturnEffect
  <2>3. Known(o) => Lost(r)
    BY <1>1, <1>7, <2>2 DEF Lost
  <2>4. Tracked(o) => Lost(r)
    <3>1. kind[o] = "network" => reads[r].step \in {"list", "props", "xml"}
      BY <1>1, <1>3 DEF StepInv
    <3>2. kind[o] = "network" => Lost(r)
      BY <1>1, <3>1 DEF Lost
    <3> QED
      BY <2>3, <3>2 DEF Tracked, Known
  <2>5. (Known(o)' <=> Known(o)) /\ (Tracked(o)' <=> Tracked(o))
    BY <1>1, <2>1 DEF Known, Tracked
  <2>6. RowInv(o)'
    BY <1>1, <1>5, <2>3, <2>5 DEF ObjInv, SeenInv, RowInv
  <2>7. ThereInv(o)'
    BY <1>1, <1>5, <2>4, <2>5 DEF ObjInv, ThereInv
  <2>8. GoneInv(o)'
    BY <1>1, <1>5, <2>1 DEF ObjInv, GoneInv
  <2> QED
    BY <1>5, <2>6, <2>7, <2>8 DEF ObjInv
<1> QED
  BY <1>6, <1>7

LEMMA ProceedKeepsIInv ==
    ASSUME IInv, NEW r \in Reads, Proceed(r)
    PROVE  IInv'
<1> USE DEF IInv, CommonInv
<1>1. /\ Returns(r, "ok") /\ rows' = rows /\ missed' = missed
      /\ reads[r] # NoRead /\ reads[r].answer = "ok"
      /\ kind' = kind /\ object' = object /\ persistent' = persistent /\ changes' = changes
      /\ load' = load /\ overlapped' = overlapped
      /\ inbox' \in Seq(Message) /\ In(inbox') = In(inbox) \ {Reply(r)}
      /\ \A m : Once(inbox, m) => Once(inbox', m)
      /\ \A p : r \notin ReadsOf(p) => Stay(Relevant(p), inbox, inbox')
  BY ReturnEffect DEF Proceed
<1>2. reads \in [Reads -> Read \cup {NoRead}] /\ reads[r] \in Read /\ kind \in [Objects -> Kinds]
  BY <1>1 DEF TypeOK
<1>3. PICK o \in Objects : o = reads[r].obj
  BY <1>2 DEF Read
<1>4. PICK s : s = StepAfter(r)
  OBVIOUS
<1>5. reads[r].step \in Steps /\ reads[r].active \in RowStates \ {"unlisted"}
      /\ reads[r].updateOnly \in BOOLEAN /\ kind[o] \in Kinds
  BY <1>2 DEF Read
<1>6. /\ s \in Steps
      /\ kind[o] = "network" => s \in {"props", "xml"} /\ (s = "xml" => reads[r].step = "props")
      /\ s \in {"volumes", "volumeXml"} => reads[r].step \in {"props", "volumes"}
      /\ s = "volumes" => reads[r].active = "active"
      /\ s # "list"
  <2>1. kind[o] = "network" => reads[r].step \in {"list", "props", "xml"}
    BY <1>1, <1>3 DEF StepInv
  <2>2. s # "end" /\ s = StepAfter(r)
    BY <1>4 DEF Proceed
  <2> QED
    BY <1>3, <1>5, <2>1, <2>2 DEF StepAfter, FirstStep, Steps, Kinds
<1> DEFINE new == [obj |-> o, step |-> s, updateOnly |-> reads[r].updateOnly,
                   answer |-> "none", active |-> reads[r].active]
<1>7. reads' = [reads EXCEPT ![r] = new]
  BY <1>3, <1>4 DEF Proceed
<1>8. new \in Read
  BY <1>5, <1>6 DEF Read
<1>9. new # NoRead
  BY <1>8, ResourcesAssumption
<1>10. reads'[r] = new /\ \A q \in Reads \ {r} : reads'[q] = reads[q]
  BY <1>2, <1>7
<1>11. /\ reads'[r] # NoRead /\ reads'[r].obj = o /\ reads'[r].step = s /\ reads'[r].answer = "none"
       /\ reads'[r].updateOnly = reads[r].updateOnly /\ reads'[r].active = reads[r].active
  BY <1>9, <1>10
<1>12. TypeOK'
  <2>1. reads' \in [Reads -> Read \cup {NoRead}]
    <3> HIDE DEF new
    <3> QED
      BY <1>2, <1>7, <1>8
  <2> QED
    BY <1>1, <2>1 DEF TypeOK
<1> HIDE DEF new
<1>13. PersistInv' /\ LoadInv'
  BY <1>1 DEF PersistInv, LoadInv
<1>14. ReplyInv'
  <2>1. \A q \in Reads \ {r} : Reply(q) # Reply(r)
    BY MessagesDiffer
  <2> QED
    BY <1>1, <1>10, <1>11, <2>1 DEF ReplyInv, Reply
<1>15. StepInv'
  <2> SUFFICES ASSUME NEW q \in Reads, reads'[q] # NoRead
               PROVE  /\ reads'[q].answer = "absent" => reads'[q].step = "list"
                      /\ reads'[q].step = "list" => reads'[q].answer # "error"
                      /\ reads'[q].step = "volumes" => reads'[q].active = "active"
                      /\ kind[reads'[q].obj] = "network" => reads'[q].step \in {"list", "props", "xml"}
    BY <1>1 DEF StepInv
  <2>1. CASE q = r
    BY <1>6, <1>11, <2>1
  <2>2. CASE q # r
    BY <1>10, <2>2 DEF StepInv
  <2> QED
    BY <2>1, <2>2
<1>16. ASSUME NEW p \in Objects, p # o PROVE ObjInv(p)'
  <2>1. Same(p) /\ r \notin ReadsOf(p)
    BY <1>3, <1>10, <1>11, <1>16 DEF Same, ReadsOf
  <2> QED
    BY <1>1, <2>1, Unconcerned
<1>17. ObjInv(o)'
  <2>1. ReadsOf(o)' = ReadsOf(o) /\ r \in ReadsOf(o)
    BY <1>1, <1>3, <1>10, <1>11 DEF ReadsOf
  <2>2. Seen(r)' => Seen(r)
    BY <1>1, <1>3, <1>5, <1>6, <1>11 DEF Seen, Kinds
  <2>3. /\ \A q \in ReadsOf(o) \ {r} : reads'[q] = reads[q] /\ (Lost(q)' <=> Lost(q)) /\ (Landing(q)' <=> Landing(q))
        /\ ~Lost(r)' /\ ~Landing(r)'
        /\ Announced(o)' <=> Announced(o)
        /\ Expected(o)' <=> Expected(o)
        /\ Known(o)' => Known(o)
        /\ Unfollowed(inbox, Adding(o), Unwelcome(o)) => Unfollowed(inbox, Adding(o), Unwelcome(o))'
        /\ Unfollowed(inbox, Removing(o), LandingReplies(o)) => Unfollowed(inbox, Removing(o), LandingReplies(o))'
        /\ Signal(o, "UNDEFINED")' \in In(inbox') => Signal(o, "UNDEFINED") \in In(inbox)
        /\ SingleInv(o)' /\ SeenInv(o)' /\ VolumesInv(o)'
    <3>1. missed \subseteq missed' /\ ReadsOf(o)' \subseteq ReadsOf(o)
      BY <1>1, <2>1
    <3> HIDE DEF IInv, CommonInv
    <3>2. CommonInv /\ ObjInv(o)
      BY DEF IInv
    <3> QED
      BY <1>1, <1>10, <1>11, <2>1, <2>2, <3>1, <3>2, Returned
  <2>4. RowInv(o)'
    BY <1>1, <2>1, <2>3 DEF ObjInv, RowInv
  <2>5. ThereInv(o)'
    <3>1. Tracked(o)' => Tracked(o)
      BY <1>1 DEF Tracked
    <3>2. (\A q \in ReadsOf(o) : ~Lost(q)) => (\A q \in ReadsOf(o)' : ~Lost(q)')
      BY <2>1, <2>3
    <3>3. (\E q \in ReadsOf(o) : ~reads[q].updateOnly) => (\E q \in ReadsOf(o)' : ~reads'[q].updateOnly)
      BY <1>11, <2>1, <2>3
    <3> QED
      BY <1>1, <2>3, <3>1, <3>2, <3>3 DEF ObjInv, ThereInv
  <2>6. GoneInv(o)'
    <3>1. (\A q \in ReadsOf(o) : ~Landing(q)) => (\A q \in ReadsOf(o)' : ~Landing(q)')
      BY <2>1, <2>3
    <3>2. (\E q \in ReadsOf(o) : reads[q].step = "list" /\ reads[q].answer \in {"none", "absent"})
          => (\E q \in ReadsOf(o)' : reads'[q].step = "list" /\ reads'[q].answer \in {"none", "absent"})
      BY <1>1, <2>1, <2>3
    <3> QED
      BY <1>1, <2>3, <3>1, <3>2 DEF ObjInv, GoneInv
  <2> QED
    BY <2>3, <2>4, <2>5, <2>6 DEF ObjInv
<1> QED
  BY <1>12, <1>13, <1>14, <1>15, <1>16, <1>17

-----------------------------------------------------------------------------
(* Signals, and the answer to the first call *)

(* A message that is not a reply is handled.                               *)
LEMMA HandleEffect ==
    ASSUME TypeOK, ReplyInv, Receive, \A r \in Reads : Head(inbox) # Reply(r)
    PROVE  /\ Head(inbox) \in Message /\ inbox' \in Seq(Message)
           /\ In(inbox) = In(inbox') \cup {Head(inbox)}
           /\ \A m : Once(inbox, m) => Once(inbox', m)
           /\ \A r \in Reads : Reply(r) \in In(inbox') <=> Reply(r) \in In(inbox)
           /\ \A A, B : Unfollowed(inbox, A, B) =>
                            \/ Unfollowed(inbox', A, B)
                            \/ Head(inbox) \in A /\ In(inbox') \cap B = {}
           /\ \A A, m : Heralded(inbox, A, m) => Heralded(inbox', A, m) \/ Head(inbox) \in A
           /\ \A p : Head(inbox) \notin Relevant(p) => Stay(Relevant(p), inbox, inbox')
<1>1. inbox # <<>> /\ inbox' = Tail(inbox) /\ inbox \in Seq(Message) /\ inbox' \in Seq(Message)
      /\ Head(inbox) \in Message
  BY InboxChanges DEF Receive
<1>2. /\ In(inbox) = In(inbox') \cup {Head(inbox)}
      /\ \A m : Once(inbox, m) => Once(inbox', m)
      /\ \A A, B : Unfollowed(inbox, A, B) =>
                       \/ Unfollowed(inbox', A, B)
                       \/ Head(inbox) \in A /\ In(inbox') \cap B = {}
      /\ \A A, m : Heralded(inbox, A, m) => Heralded(inbox', A, m) \/ Head(inbox) \in A
  BY <1>1, Leaves
<1>3. \A p : Head(inbox) \notin Relevant(p) => Stay(Relevant(p), inbox, inbox')
  BY <1>1, StayAfterTail
<1> QED
  BY <1>1, <1>2, <1>3

(* Reads of objs begin because of a message.                               *)
LEMMA BeginKeepsIInv ==
    ASSUME IInv, Receive, NEW m, m = Head(inbox), \A r \in Reads : m # Reply(r),
           NEW objs \in SUBSET Objects, NEW step, NEW u \in BOOLEAN, BeginReads(objs, step, u),
           kind' = kind, object' = object, persistent' = persistent, changes' = changes,
           missed' = missed, load' = load \/ load' = "done", load = "asked" => load' = "asked",
           \A p \in Objects \ objs : m \notin Relevant(p),
           \A p \in objs : /\ step[p] \in {"xml", "getActive", "list", "props"}
                           /\ kind[p] = "network" => step[p] \in {"props", "list"}
                           /\ kind[p] = "pool" => step[p] # "props"
                           /\ m \in Adding(p) => ~u
                           /\ m \in Removing(p) => step[p] = "list"
                           /\ m # Signal(p, "UNDEFINED")
    PROVE  IInv'
<1> USE DEF IInv, CommonInv
<1>1. /\ m \in Message /\ inbox' \in Seq(Message)
      /\ In(inbox) = In(inbox') \cup {m}
      /\ \A k : Once(inbox, k) => Once(inbox', k)
      /\ \A r \in Reads : Reply(r) \in In(inbox') <=> Reply(r) \in In(inbox)
      /\ \A A, B : Unfollowed(inbox, A, B) =>
                       \/ Unfollowed(inbox', A, B)
                       \/ m \in A /\ In(inbox') \cap B = {}
      /\ \A A, k : Heralded(inbox, A, k) => Heralded(inbox', A, k) \/ m \in A
      /\ \A p : m \notin Relevant(p) => Stay(Relevant(p), inbox, inbox')
  BY HandleEffect
<1>2. Begun(objs, step, u)
  <2>1. \A o \in objs : At(o, step[o], u) \in Read
    BY DEF At, Read, Steps, RowStates
  <2> QED
    BY <2>1, Begins
<1> USE DEF Begun
<1>3. TypeOK'
  <2>1. overlapped' \subseteq Objects /\ load' \in {"asked", "answered", "done"}
    BY <1>2 DEF TypeOK
  <2> QED
    BY <1>1, <1>2, <2>1 DEF TypeOK
<1>4. PersistInv' /\ LoadInv'
  <2>1. load' = "asked" => load = "asked"
    OBVIOUS
  <2> QED
    BY <1>1, <2>1 DEF PersistInv, LoadInv
<1>5. ASSUME NEW r \in Reads, reads[r] = NoRead, reads'[r] # NoRead
      PROVE  /\ reads'[r].answer = "none" /\ reads'[r].obj \in objs
             /\ reads'[r].step = step[reads'[r].obj] /\ reads'[r].updateOnly = u
  BY <1>2, <1>5 DEF At
<1>6. ReplyInv'
  <2> SUFFICES ASSUME NEW r \in Reads
               PROVE  /\ Once(inbox', Reply(r))
                      /\ Reply(r) \in In(inbox') <=> reads'[r] # NoRead /\ reads'[r].answer # "none"
    <3>1. \A r : Reply(r)' = Reply(r)
      BY DEF Reply
    <3> QED
      BY <3>1 DEF ReplyInv
  <2>1. /\ Once(inbox, Reply(r))
        /\ Reply(r) \in In(inbox) <=> reads[r] # NoRead /\ reads[r].answer # "none"
    BY DEF ReplyInv
  <2>2. reads'[r] # NoRead /\ reads'[r].answer # "none" <=> reads[r] # NoRead /\ reads[r].answer # "none"
    BY <1>2, <1>5
  <2> QED
    BY <1>1, <2>1, <2>2
<1>7. StepInv'
  <2> SUFFICES ASSUME NEW q \in Reads, reads'[q] # NoRead
               PROVE  /\ reads'[q].answer = "absent" => reads'[q].step = "list"
                      /\ reads'[q].step = "list" => reads'[q].answer # "error"
                      /\ reads'[q].step = "volumes" => reads'[q].active = "active"
                      /\ kind[reads'[q].obj] = "network" => reads'[q].step \in {"list", "props", "xml"}
    BY DEF StepInv
  <2>1. CASE reads[q] = NoRead
    BY <1>5, <2>1
  <2>2. CASE reads[q] # NoRead
    BY <1>2, <2>2 DEF StepInv
  <2> QED
    BY <2>1, <2>2
<1>8. ASSUME NEW p \in Objects \ objs PROVE ObjInv(p)'
  BY <1>1, <1>2, Unconcerned
<1>9. ASSUME NEW o \in objs PROVE ObjInv(o)'
  <2>1. PICK q \in Reads : /\ reads[q] = NoRead
                           /\ reads'[q] = At(o, step[o], u)
                           /\ ReadsOf(o)' = ReadsOf(o) \cup {q}
    BY <1>2
  <2>2. /\ reads'[q].answer = "none" /\ reads'[q].obj = o
        /\ reads'[q].step = step[o] /\ reads'[q].updateOnly = u
    BY <2>1 DEF At
  <2>3. ~Seen(q)' /\ ~Lost(q)' /\ ~Landing(q)'
    BY <2>2 DEF Seen, Lost, Landing
  <2>4. ASSUME NEW r \in ReadsOf(o)
        PROVE  /\ r \in Reads /\ reads[r] # NoRead /\ reads'[r] = reads[r]
               /\ Lost(r)' <=> Lost(r)
               /\ Landing(r)' <=> Landing(r)
    BY <1>2, <2>4 DEF ReadsOf, Lost, Landing
  <2>5. Known(o)' => ReadsOf(o) = {}
    <3>1. ReadsOf(o) # {} => o \in BeingRead
      BY DEF ReadsOf, BeingRead
    <3> QED
      BY <1>2, <3>1 DEF Known
  <2>6. o \notin overlapped' => ReadsOf(o) = {}
    <3>1. ReadsOf(o) # {} => o \in BeingRead
      BY DEF ReadsOf, BeingRead
    <3> QED
      BY <1>2, <3>1
  <2>7. SingleInv(o)'
    BY <2>1, <2>6 DEF SingleInv
  <2>8. SeenInv(o)' /\ VolumesInv(o)'
    BY <2>1, <2>2, <2>3, <2>5 DEF SeenInv, VolumesInv
  <2>9. RowInv(o)'
    BY <2>1 DEF RowInv
  <2>10. /\ Adding(o)' = Adding(o) /\ Removing(o)' = Removing(o)
         /\ Signal(o, "UNDEFINED")' = Signal(o, "UNDEFINED")
         /\ \A r : Reply(r)' = Reply(r)
    BY DEF Adding, Removing, Listed, Signal, Reply
  <2>11. Unwelcome(o)' \subseteq Unwelcome(o)
    <3>1. {r \in ReadsOf(o)' : Lost(r)'} \subseteq {r \in ReadsOf(o) : Lost(r)}
      BY <2>1, <2>3, <2>4
    <3> QED
      BY <2>10, <3>1 DEF Unwelcome, LostReplies
  <2>12. LandingReplies(o)' \subseteq LandingReplies(o)
    <3>1. {r \in ReadsOf(o)' : Landing(r)'} \subseteq {r \in ReadsOf(o) : Landing(r)}
      BY <2>1, <2>3, <2>4
    <3> QED
      BY <2>10, <3>1 DEF LandingReplies
  <2>13. ThereInv(o)'
    <3> SUFFICES ASSUME Tracked(o), object[o] # "gone", load # "asked"
                 PROVE  \/ Unfollowed(inbox', Adding(o), Unwelcome(o)')
                        \/ /\ Signal(o, "UNDEFINED") \notin In(inbox')
                           /\ \A r \in ReadsOf(o)' : ~Lost(r)'
                           /\ rows'[o] # "unlisted" \/ \E r \in ReadsOf(o)' : ~reads'[r].updateOnly
      <4>1. Tracked(o)' => Tracked(o)
        BY <1>2 DEF Tracked
      <4> QED
        BY <2>10, <4>1 DEF ThereInv
    <3>1. CASE Unfollowed(inbox', Adding(o), Unwelcome(o))
      BY <2>11, <3>1, UnfollowedByFewer
    <3>2. CASE m \in Adding(o) /\ In(inbox') \cap Unwelcome(o) = {}
      <4>1. Signal(o, "UNDEFINED") \notin In(inbox')
        BY <3>2 DEF Unwelcome
      <4>2. ASSUME NEW r \in ReadsOf(o), Lost(r) PROVE FALSE
        <5>1. Reply(r) \in In(inbox')
          BY <1>1, <2>4, <4>2 DEF ReplyInv, Lost
        <5>2. Reply(r) \in Unwelcome(o)
          BY <4>2 DEF Unwelcome, LostReplies
        <5> QED
          BY <3>2, <5>1, <5>2
      <4>3. \A r \in ReadsOf(o)' : ~Lost(r)'
        BY <2>1, <2>3, <2>4, <4>2
      <4>4. \E r \in ReadsOf(o)' : ~reads'[r].updateOnly
        BY <2>1, <2>2, <3>2
      <4> QED
        BY <4>1, <4>3, <4>4
    <3>3. CASE /\ Signal(o, "UNDEFINED") \notin In(inbox)
               /\ \A r \in ReadsOf(o) : ~Lost(r)
               /\ rows[o] # "unlisted" \/ \E r \in ReadsOf(o) : ~reads[r].updateOnly
      <4>1. \A r \in ReadsOf(o)' : ~Lost(r)'
        BY <2>1, <2>3, <2>4, <3>3
      <4>2. rows'[o] # "unlisted" \/ \E r \in ReadsOf(o)' : ~reads'[r].updateOnly
        BY <1>2, <2>1, <2>4, <3>3
      <4> QED
        BY <1>1, <3>3, <4>1, <4>2
    <3> QED
      BY <1>1, <3>1, <3>2, <3>3 DEF ObjInv, ThereInv
  <2>14. GoneInv(o)'
    <3> SUFFICES ASSUME o \notin missed, kind[o] = "network", object[o] = "gone"
                 PROVE  \/ Unfollowed(inbox', Removing(o), LandingReplies(o)')
                        \/ /\ \A r \in ReadsOf(o)' : ~Landing(r)'
                           /\ \/ rows'[o] = "unlisted"
                              \/ \E r \in ReadsOf(o)' : reads'[r].step = "list" /\ reads'[r].answer \in {"none", "absent"}
      BY <2>10 DEF GoneInv
    <3>1. CASE Unfollowed(inbox', Removing(o), LandingReplies(o))
      BY <2>12, <3>1, UnfollowedByFewer
    <3>2. CASE m \in Removing(o) /\ In(inbox') \cap LandingReplies(o) = {}
      <4>1. ASSUME NEW r \in ReadsOf(o), Landing(r) PROVE FALSE
        <5>1. Reply(r) \in In(inbox')
          BY <1>1, <2>4, <4>1 DEF ReplyInv, Landing
        <5>2. Reply(r) \in LandingReplies(o)
          BY <4>1 DEF LandingReplies
        <5> QED
          BY <3>2, <5>1, <5>2
      <4>2. \A r \in ReadsOf(o)' : ~Landing(r)'
        BY <2>1, <2>3, <2>4, <4>1
      <4>3. reads'[q].step = "list" /\ reads'[q].answer = "none" /\ q \in ReadsOf(o)'
        BY <2>1, <2>2, <3>2
      <4> QED
        BY <4>2, <4>3
    <3>3. CASE /\ \A r \in ReadsOf(o) : ~Landing(r)
               /\ \/ rows[o] = "unlisted"
                  \/ \E r \in ReadsOf(o) : reads[r].step = "list" /\ reads[r].answer \in {"none", "absent"}
      <4>1. \A r \in ReadsOf(o)' : ~Landing(r)'
        BY <2>1, <2>3, <2>4, <3>3
      <4>2. \/ rows'[o] = "unlisted"
            \/ \E r \in ReadsOf(o)' : reads'[r].step = "list" /\ reads'[r].answer \in {"none", "absent"}
        BY <1>2, <2>1, <2>4, <3>3
      <4> QED
        BY <4>1, <4>2
    <3> QED
      BY <1>1, <3>1, <3>2, <3>3 DEF ObjInv, GoneInv
  <2> QED
    BY <2>7, <2>8, <2>9, <2>13, <2>14 DEF ObjInv
<1> QED
  BY <1>3, <1>4, <1>6, <1>7, <1>8, <1>9

(* A signal that has nothing read is handled.                              *)
LEMMA QuietSignalKeepsCommonInv ==
    ASSUME CommonInv, NEW o, NEW e, ReceiveSignal(o, e), reads' = reads, overlapped' = overlapped,
           rows' \in [Objects -> RowStates]
    PROVE  /\ CommonInv'
           /\ kind' = kind /\ object' = object /\ persistent' = persistent /\ load' = load
           /\ missed' = missed /\ inbox \in Seq(Message)
           /\ In(inbox) = In(inbox') \cup {Signal(o, e)}
           /\ \A r \in Reads : Reply(r) \in In(inbox') <=> Reply(r) \in In(inbox)
           /\ \A A, B : Unfollowed(inbox, A, B) =>
                            \/ Unfollowed(inbox', A, B)
                            \/ Signal(o, e) \in A /\ In(inbox') \cap B = {}
           /\ \A A, m : Heralded(inbox, A, m) => Heralded(inbox', A, m) \/ Signal(o, e) \in A
           /\ \A p : Signal(o, e) \notin Relevant(p) => Stay(Relevant(p), inbox, inbox')
<1> USE DEF CommonInv
<1>1. /\ Receive /\ Head(inbox) = Signal(o, e) /\ load' = load /\ missed' = missed
      /\ kind' = kind /\ object' = object /\ persistent' = persistent /\ changes' = changes
  BY DEF ReceiveSignal, libvirtVars
<1>2. \A r \in Reads : Head(inbox) # Reply(r)
  BY <1>1, MessagesDiffer
<1>3. /\ inbox' \in Seq(Message)
      /\ In(inbox) = In(inbox') \cup {Signal(o, e)}
      /\ \A m : Once(inbox, m) => Once(inbox', m)
      /\ \A r \in Reads : Reply(r) \in In(inbox') <=> Reply(r) \in In(inbox)
      /\ \A A, B : Unfollowed(inbox, A, B) =>
                       \/ Unfollowed(inbox', A, B)
                       \/ Signal(o, e) \in A /\ In(inbox') \cap B = {}
      /\ \A A, m : Heralded(inbox, A, m) => Heralded(inbox', A, m) \/ Signal(o, e) \in A
      /\ \A p : Signal(o, e) \notin Relevant(p) => Stay(Relevant(p), inbox, inbox')
  BY <1>1, <1>2, HandleEffect
<1>4. TypeOK'
  BY <1>1, <1>3 DEF TypeOK
<1>5. PersistInv' /\ LoadInv' /\ StepInv'
  BY <1>1, <1>3 DEF PersistInv, LoadInv, StepInv
<1>6. ReplyInv'
  <2>1. \A r : Reply(r)' = Reply(r)
    BY DEF Reply
  <2> QED
    BY <1>3, <2>1 DEF ReplyInv
<1> QED
  BY <1>1, <1>3, <1>4, <1>5, <1>6 DEF TypeOK

LEMMA OnDeletedKeepsIInv ==
    ASSUME IInv, NEW o \in Objects, OnDeleted(o)
    PROVE  IInv'
<1> USE DEF IInv
<1> PICK e : e = "DELETED"
  OBVIOUS
<1>1. ReceiveSignal(o, e) /\ reads' = reads /\ overlapped' = overlapped /\ rows' = rows
  BY DEF OnDeleted
<1>2. rows' \in [Objects -> RowStates]
  BY <1>1 DEF CommonInv, TypeOK
<1>3. /\ CommonInv'
      /\ kind' = kind /\ object' = object /\ persistent' = persistent /\ load' = load
      /\ missed' = missed
      /\ \A p : Signal(o, e) \notin Relevant(p) => Stay(Relevant(p), inbox, inbox')
  BY <1>1, <1>2, QuietSignalKeepsCommonInv
<1>4. ASSUME NEW p \in Objects PROVE ObjInv(p)'
  <2>1. Signal(o, e) \notin Relevant(p)
    BY MessagesDiffer DEF Relevant
  <2>2. Same(p)
    BY <1>1 DEF Same, ReadsOf
  <2>3. Stay(Relevant(p), inbox, inbox')
    BY <1>3, <2>1
  <2> QED
    BY <1>1, <1>3, <2>2, <2>3, Unconcerned
<1> QED
  BY <1>3, <1>4

LEMMA OnUndefinedKeepsIInv ==
    ASSUME IInv, NEW o \in Objects, OnUndefined(o)
    PROVE  IInv'
<1> USE DEF IInv
<1> PICK e : e = "UNDEFINED"
  OBVIOUS
<1>1. ReceiveSignal(o, e) /\ reads' = reads /\ overlapped' = overlapped
      /\ rows' = [rows EXCEPT ![o] = "unlisted"]
  BY DEF OnUndefined
<1>2. rows' \in [Objects -> RowStates] /\ rows'[o] = "unlisted" /\ \A p \in Objects \ {o} : rows'[p] = rows[p]
  BY <1>1 DEF CommonInv, TypeOK, RowStates
<1>3. /\ CommonInv'
      /\ kind' = kind /\ object' = object /\ persistent' = persistent /\ load' = load
      /\ missed' = missed
      /\ In(inbox) = In(inbox') \cup {Signal(o, e)}
      /\ \A r \in Reads : Reply(r) \in In(inbox') <=> Reply(r) \in In(inbox)
      /\ \A A, B : Unfollowed(inbox, A, B) =>
                       \/ Unfollowed(inbox', A, B)
                       \/ Signal(o, e) \in A /\ In(inbox') \cap B = {}
      /\ \A A, m : Heralded(inbox, A, m) => Heralded(inbox', A, m) \/ Signal(o, e) \in A
      /\ \A p : Signal(o, e) \notin Relevant(p) => Stay(Relevant(p), inbox, inbox')
  BY <1>1, <1>2, QuietSignalKeepsCommonInv
<1>4. ASSUME NEW p \in Objects, p # o PROVE ObjInv(p)'
  <2>1. Signal(o, e) \notin Relevant(p)
    BY <1>4, MessagesDiffer DEF Relevant
  <2>2. Same(p)
    BY <1>1 DEF Same, ReadsOf
  <2>3. Stay(Relevant(p), inbox, inbox')
    BY <1>3, <2>1
  <2> QED
    BY <1>1, <1>2, <1>3, <1>4, <2>2, <2>3, Unconcerned
<1>5. ObjInv(o)'
  <2>1. /\ ReadsOf(o)' = ReadsOf(o) /\ Announcing(o)' = Announcing(o) /\ Unwelcome(o)' = Unwelcome(o)
        /\ Adding(o)' = Adding(o) /\ Removing(o)' = Removing(o) /\ LandingReplies(o)' = LandingReplies(o)
        /\ \A r \in ReadsOf(o) : (Seen(r)' <=> Seen(r)) /\ (Lost(r)' <=> Lost(r)) /\ (Landing(r)' <=> Landing(r))
    BY <1>1, <1>3 DEF ReadsOf, Announcing, Listed, Adding, Unwelcome, LostReplies, Removing, LandingReplies,
                      Landing, Lost, Seen, Reply, Signal
  <2>2. Signal(o, e) \notin Announcing(o) /\ Signal(o, e) \notin Adding(o)
    BY MessagesDiffer DEF Announcing, Adding
  <2>3. (Announced(o)' <=> Announced(o)) /\ (Known(o)' <=> Known(o)) /\ (Tracked(o)' <=> Tracked(o))
    BY <1>1, <1>3, <2>1, <2>2 DEF Announced, Known, Tracked
  <2>4. SingleInv(o)' /\ SeenInv(o)'
    BY <1>1, <1>3, <2>1, <2>3 DEF ObjInv, SingleInv, SeenInv
  <2>5. RowInv(o)'
    BY <1>2 DEF RowInv
  <2>6. VolumesInv(o)'
    BY <1>1, <1>3, <2>1, <2>2, <2>3 DEF ObjInv, VolumesInv, Reply
  <2>7. ThereInv(o)'
    <3>1. Unfollowed(inbox, Adding(o), Unwelcome(o)) => Unfollowed(inbox', Adding(o), Unwelcome(o))
      BY <1>3, <2>2
    <3>2. Signal(o, "UNDEFINED") \in In(inbox)
      BY <1>3
    <3> QED
      BY <1>3, <2>1, <2>3, <3>1, <3>2 DEF ObjInv, ThereInv
  <2>8. GoneInv(o)'
    <3> SUFFICES ASSUME o \notin missed, kind[o] = "network", object[o] = "gone",
                        ~Unfollowed(inbox', Removing(o), LandingReplies(o))
                 PROVE  \A r \in ReadsOf(o) : ~Landing(r)
      BY <1>2, <1>3, <2>1 DEF GoneInv
    <3>1. CASE Unfollowed(inbox, Removing(o), LandingReplies(o))
      <4> SUFFICES ASSUME NEW r \in ReadsOf(o), Landing(r) PROVE FALSE
        OBVIOUS
      <4>1. In(inbox') \cap LandingReplies(o) = {}
        BY <1>3, <3>1
      <4>2. r \in Reads /\ reads[r] # NoRead /\ reads[r].answer # "none"
        BY DEF ReadsOf, Landing
      <4>3. Reply(r) \in In(inbox')
        BY <1>3, <4>2 DEF CommonInv, ReplyInv
      <4>4. Reply(r) \in LandingReplies(o)
        BY DEF LandingReplies
      <4> QED
        BY <4>1, <4>3, <4>4
    <3> QED
      BY <3>1 DEF ObjInv, GoneInv
  <2> QED
    BY <2>4, <2>5, <2>6, <2>7, <2>8 DEF ObjInv
<1> QED
  BY <1>3, <1>4, <1>5

(* A signal that has its object read is handled.                           *)
LEMMA SignalKeepsIInv ==
    ASSUME IInv, NEW o \in Objects, NEW e \in Events, NEW s, NEW u \in BOOLEAN,
           ReceiveSignal(o, e), ReadOnSignal(o, s, u),
           e \in {"DEFINED", "CREATED", "STARTED", "Refresh"} => s = FirstStep(o),
           e \in {"DEFINED", "CREATED", "Refresh"} => u = FALSE,
           e = "STARTED" /\ kind[o] = "network" => u = FALSE,
           e = "STOPPED" => s = "list",
           e \notin {"UNDEFINED", "DELETED"}
    PROVE  IInv'
<1> PICK m : m = Signal(o, e)
  OBVIOUS
<1> PICK step : step = [p \in {o} |-> s]
  OBVIOUS
<1>1. /\ Receive /\ m = Head(inbox) /\ load' = load /\ missed' = missed
      /\ kind' = kind /\ object' = object /\ persistent' = persistent /\ changes' = changes
  BY DEF ReceiveSignal, libvirtVars
<1>2. BeginReads({o}, step, u)
  BY DEF ReadOnSignal
<1>3. \A r \in Reads : m # Reply(r)
  BY MessagesDiffer
<1>4. \A p \in Objects \ {o} : m \notin Relevant(p)
  BY MessagesDiffer DEF Relevant
<1>5. step[o] = s
  OBVIOUS
<1>6. kind[o] \in Kinds
  BY DEF IInv, CommonInv, TypeOK
<1>7. /\ s \in {"xml", "list", "props"}
      /\ kind[o] = "network" => s \in {"props", "list"}
      /\ kind[o] = "pool" => s # "props"
  BY <1>6 DEF FirstStep, Events, Kinds
<1>8. m \in Adding(o) => u = FALSE
  <2> SUFFICES ASSUME m \in Adding(o) PROVE u = FALSE
    OBVIOUS
  <2>1. m \notin Listed(o)
    BY MessagesDiffer
  <2>2. PICK f \in {"DEFINED", "CREATED", "Refresh"} \cup (IF kind[o] = "network" THEN {"STARTED"} ELSE {}) :
            m = Signal(o, f)
    BY <2>1 DEF Adding
  <2>3. e = f
    BY <2>2, MessagesDiffer
  <2> QED
    BY <2>2, <2>3
<1>9. m \in Removing(o) => s = "list"
  <2>1. \A f : m = Signal(o, f) => e = f
    BY MessagesDiffer
  <2>2. \A f : f \in {"STOPPED", "UNDEFINED"} /\ m = Signal(o, f) => s = "list"
    BY <2>1
  <2> QED
    BY <2>2 DEF Removing
<1>10. m # Signal(o, "UNDEFINED")
  <2>1. \A f : m = Signal(o, f) => e = f
    BY MessagesDiffer
  <2> QED
    BY <2>1
<1>11. \A p \in {o} : /\ step[p] \in {"xml", "getActive", "list", "props"}
                      /\ kind[p] = "network" => step[p] \in {"props", "list"}
                      /\ kind[p] = "pool" => step[p] # "props"
                      /\ m \in Adding(p) => ~u
                      /\ m \in Removing(p) => step[p] = "list"
                      /\ m # Signal(p, "UNDEFINED")
  BY <1>5, <1>7, <1>8, <1>9, <1>10
<1> QED
  BY <1>1, <1>2, <1>3, <1>4, <1>11, BeginKeepsIInv

LEMMA ReceiveAllKeepsIInv ==
    ASSUME IInv, ReceiveAll
    PROVE  IInv'
<1> USE DEF IInv, CommonInv
<1> PICK m : m = Head(inbox)
  OBVIOUS
<1> PICK step : step = FirstOfAll
  OBVIOUS
<1>1. /\ Receive /\ m.kind = "all" /\ load' = "done" /\ missed' = missed
      /\ kind' = kind /\ object' = object /\ persistent' = persistent /\ changes' = changes
      /\ BeginReads(m.objs, step, FALSE)
  BY DEF ReceiveAll, libvirtVars
<1>2. inbox # <<>> /\ inbox \in Seq(Message) /\ m \in Message
  BY <1>1, InboxChanges DEF Receive
<1>3. m.objs \in SUBSET Objects /\ m = [kind |-> "all", objs |-> m.objs]
  BY <1>1, <1>2, MessageTypes
<1> PICK objs : objs = m.objs
  OBVIOUS
<1>4. \A r \in Reads : m # Reply(r)
  BY <1>1 DEF Reply
<1>5. \A p, f : m # Signal(p, f)
  BY <1>1 DEF Signal
<1>6. \A p \in Objects \ objs : m \notin Relevant(p)
  <2>1. \A p \in Objects \ objs : m \notin Listed(p)
    BY <1>3 DEF Listed
  <2>2. \A p, r : r \in ReadsOf(p) => m # Reply(r)
    BY <1>4 DEF ReadsOf
  <2> QED
    BY <1>5, <2>1, <2>2 DEF Relevant
<1>7. m \in In(inbox)
  BY <1>2, Leaves
<1>8. load # "asked"
  BY <1>1, <1>7 DEF LoadInv
<1>9. \A p \in objs : /\ step[p] \in {"xml", "getActive", "list", "props"}
                      /\ kind[p] = "network" => step[p] \in {"props", "list"}
                      /\ kind[p] = "pool" => step[p] # "props"
  BY <1>3 DEF FirstOfAll, FirstStep, TypeOK, Kinds
<1>10. \A p \in objs : m \notin Removing(p)
  BY <1>5 DEF Removing
<1> PICK u \in BOOLEAN : u = FALSE
  OBVIOUS
<1>11. objs \in SUBSET Objects /\ BeginReads(objs, step, u)
  BY <1>1, <1>3
<1>12. \A p \in objs : /\ step[p] \in {"xml", "getActive", "list", "props"}
                       /\ kind[p] = "network" => step[p] \in {"props", "list"}
                       /\ kind[p] = "pool" => step[p] # "props"
                       /\ m \in Adding(p) => ~u
                       /\ m \in Removing(p) => step[p] = "list"
                       /\ m # Signal(p, "UNDEFINED")
  BY <1>5, <1>9, <1>10
<1> HIDE DEF IInv, CommonInv
<1> QED
  BY <1>1, <1>4, <1>6, <1>8, <1>11, <1>12, BeginKeepsIInv

-----------------------------------------------------------------------------
(* The theorems *)

LEMMA InitEstablishesIInv == Init => IInv
<1> SUFFICES ASSUME Init PROVE IInv
  OBVIOUS
<1>1. \A A, B : In(inbox) = {} /\ ~Unfollowed(inbox, A, B)
  BY EmptyInbox DEF Init
<1>2. \A o : ReadsOf(o) = {}
  BY DEF Init, ReadsOf
<1>3. TypeOK
  <2>1. inbox \in Seq(Message)
    BY DEF Init
  <2>2. changes \in 0..MaxChanges
    BY ResourcesAssumption DEF Init
  <2>3. reads \in [Reads -> Read \cup {NoRead}]
    BY DEF Init
  <2>4. rows \in [Objects -> RowStates]
    BY DEF Init, RowStates
  <2> QED
    BY <2>1, <2>2, <2>3, <2>4 DEF Init, TypeOK
<1>4. PersistInv
  BY DEF Init, PersistInv
<1>5. ReplyInv
  <2>1. \A m : Once(inbox, m)
    BY DEF Init, Once
  <2> QED
    BY <1>1, <2>1 DEF Init, ReplyInv
<1>6. StepInv /\ LoadInv
  BY <1>1 DEF Init, StepInv, LoadInv
<1>7. ASSUME NEW o \in Objects PROVE ObjInv(o)
  <2>1. load = "asked" /\ rows[o] = "unlisted"
    BY DEF Init
  <2>2. SingleInv(o) /\ SeenInv(o) /\ VolumesInv(o) /\ RowInv(o)
    BY <1>2, <2>1 DEF SingleInv, SeenInv, VolumesInv, RowInv
  <2>3. ThereInv(o) /\ GoneInv(o)
    BY <1>2, <2>1 DEF ThereInv, GoneInv
  <2> QED
    BY <2>2, <2>3 DEF ObjInv
<1> QED
  BY <1>3, <1>4, <1>5, <1>6, <1>7 DEF IInv, CommonInv

LEMMA StutterKeepsIInv ==
    ASSUME IInv, UNCHANGED vars
    PROVE  IInv'
<1>1. /\ kind' = kind /\ object' = object /\ persistent' = persistent /\ changes' = changes
      /\ inbox' = inbox /\ load' = load /\ reads' = reads /\ rows' = rows
      /\ missed' = missed /\ overlapped' = overlapped
  BY DEF vars, libvirtVars, history
<1>2. CommonInv'
  BY <1>1 DEF IInv, CommonInv, TypeOK, PersistInv, ReplyInv, StepInv, LoadInv, Reply
<1>3. ASSUME NEW p \in Objects PROVE ObjInv(p)'
  <2>1. Same(p)
    BY <1>1 DEF Same, ReadsOf
  <2>2. Stay(Relevant(p), inbox, inbox')
    BY <1>1, StayWhenSame
  <2> QED
    BY <1>1, <2>1, <2>2, Unconcerned DEF IInv
<1> QED
  BY <1>2, <1>3 DEF IInv

(* Every step of libvirt and of the page keeps the invariant.              *)
LEMMA NextKeepsIInv ==
    ASSUME IInv, [Next]_vars
    PROVE  IInv'
<1>1. CASE LibvirtChanges
  BY <1>1, ChangeKeepsCommonInv, ChangeKeepsObjInv DEF IInv
<1>2. CASE LibvirtAnswers
  BY <1>2, AnswerReadKeepsIInv, AnswerAllKeepsIInv DEF LibvirtAnswers
<1>3. CASE PageReceives
  <2>1. CASE ReceiveAll
    BY <2>1, ReceiveAllKeepsIInv
  <2>2. ASSUME NEW o \in Objects, OnDefined(o) PROVE IInv'
    <3>1. PICK e \in {"DEFINED", "CREATED"} : ReceiveSignal(o, e)
      BY <2>2 DEF OnDefined
    <3>2. PICK s : s = FirstStep(o)
      OBVIOUS
    <3>3. PICK u \in BOOLEAN : u = FALSE
      OBVIOUS
    <3>4. ReadOnSignal(o, s, u)
      BY <2>2, <3>2, <3>3 DEF OnDefined
    <3>5. e \in Events
      BY DEF Events
    <3> QED
      BY <3>1, <3>2, <3>3, <3>4, <3>5, SignalKeepsIInv
  <2>3. ASSUME NEW o \in Objects, OnStarted(o) PROVE IInv'
    <3>1. PICK e \in Events : e = "STARTED" /\ ReceiveSignal(o, e)
      BY <2>3 DEF OnStarted, Events
    <3>2. PICK s : s = FirstStep(o)
      OBVIOUS
    <3>3. PICK u \in BOOLEAN : u = (kind[o] = "pool")
      OBVIOUS
    <3>4. ReadOnSignal(o, s, u)
      BY <2>3, <3>2, <3>3 DEF OnStarted
    <3> QED
      BY <3>1, <3>2, <3>3, <3>4, SignalKeepsIInv
  <2>4. ASSUME NEW o \in Objects, OnStopped(o) PROVE IInv'
    <3>1. PICK e \in Events : e = "STOPPED" /\ ReceiveSignal(o, e)
      BY <2>4 DEF OnStopped, Events
    <3>2. PICK s : s = "list"
      OBVIOUS
    <3>3. PICK u \in BOOLEAN : u = TRUE
      OBVIOUS
    <3>4. ReadOnSignal(o, s, u)
      BY <2>4, <3>2, <3>3 DEF OnStopped
    <3> QED
      BY <3>1, <3>2, <3>3, <3>4, SignalKeepsIInv
  <2>5. ASSUME NEW o \in Objects, OnRefresh(o) PROVE IInv'
    <3>1. PICK e \in Events : e = "Refresh" /\ ReceiveSignal(o, e)
      BY <2>5 DEF OnRefresh, Events
    <3>2. PICK s : s = FirstStep(o)
      OBVIOUS
    <3>3. PICK u \in BOOLEAN : u = FALSE
      OBVIOUS
    <3>4. ReadOnSignal(o, s, u)
      BY <2>5, <3>2, <3>3 DEF OnRefresh
    <3> QED
      BY <3>1, <3>2, <3>3, <3>4, SignalKeepsIInv
  <2>6. ASSUME NEW o \in Objects, OnUndefined(o) \/ OnDeleted(o) PROVE IInv'
    BY <2>6, OnUndefinedKeepsIInv, OnDeletedKeepsIInv
  <2>7. ASSUME NEW r \in Reads, Proceed(r) \/ Finish(r) \/ RemoveAbsent(r) \/ Fail(r) PROVE IInv'
    BY <2>7, ProceedKeepsIInv, FinishKeepsIInv, RemoveAbsentKeepsIInv, FailKeepsIInv
  <2> QED
    BY <1>3, <2>1, <2>2, <2>3, <2>4, <2>5, <2>6, <2>7 DEF PageReceives
<1>4. CASE TimesOut
  BY <1>4, TimeOutKeepsIInv, TimeOutAllKeepsIInv DEF TimesOut
<1>5. CASE UNCHANGED vars
  BY <1>5, StutterKeepsIInv
<1> QED
  BY <1>1, <1>2, <1>3, <1>4, <1>5 DEF Next

(* The inductive invariant: every read that is asked for, under way or     *)
(* answered goes with what the page and libvirt have done since, in every  *)
(* order of signals, replies and timeouts (libvirtApi/common.ts).          *)
THEOREM InvariantHolds == Spec => []IInv
BY InitEstablishesIInv, NextKeepsIInv, PTL DEF Spec

(* Every variable keeps its type, whatever the page does with what it gets *)
(* (AppState.storagePools and AppState.networks of src/state.ts).          *)
THEOREM TypeCorrect == Spec => []TypeOK
<1>1. IInv => TypeOK
  BY DEF IInv, CommonInv
<1> QED
  BY <1>1, InvariantHolds, PTL

LEMMA SettledIsQuiet ==
    ASSUME Settled
    PROVE  /\ load = "done"
           /\ \A A, B : In(inbox) = {} /\ ~Unfollowed(inbox, A, B)
           /\ \A o : ReadsOf(o) = {}
BY EmptyInbox DEF Settled, ReadsOf

(* Once nothing is under way, the networks listed are those that exist and *)
(* every persistent pool has a row, unless reads of it have overlapped:    *)
(* the signal handlers and readers of libvirtApi/common.ts, network.ts and *)
(* storagePool.ts lose no object in any order of what happens.             *)
THEOREM ListsStayRight == Spec => []ListsAreRight
<1>1. IInv => ListsAreRight
  <2> SUFFICES ASSUME IInv, Settled, NEW o \in Objects \ missed
               PROVE  IF kind[o] = "network" THEN (rows[o] # "unlisted") = (object[o] # "gone")
                      ELSE object[o] # "gone" /\ persistent[o] /\ o \notin overlapped => rows[o] # "unlisted"
    BY DEF ListsAreRight
  <2>1. load = "done" /\ (\A A, B : In(inbox) = {} /\ ~Unfollowed(inbox, A, B)) /\ ReadsOf(o) = {}
    BY SettledIsQuiet
  <2>2. ThereInv(o) /\ GoneInv(o)
    BY DEF IInv, ObjInv
  <2>3. Tracked(o) /\ object[o] # "gone" => rows[o] # "unlisted"
    BY <2>1, <2>2 DEF ThereInv
  <2>4. kind[o] = "network" /\ object[o] = "gone" => rows[o] = "unlisted"
    BY <2>1, <2>2 DEF GoneInv
  <2> QED
    BY <2>3, <2>4 DEF Tracked
<1> QED
  BY <1>1, InvariantHolds, PTL

(* Once nothing is under way, a row says whether its object is active,     *)
(* unless two reads of the object have overlapped: each signal of a change *)
(* is followed by a read that begins after it.                             *)
THEOREM StateStaysCurrent == Spec => []StateIsCurrentUnlessOverlapped
<1>1. IInv => StateIsCurrentUnlessOverlapped
  <2> SUFFICES ASSUME IInv, Settled, NEW o \in Objects \ (missed \cup overlapped),
                      object[o] # "gone", rows[o] # "unlisted"
               PROVE  rows[o] = object[o]
    BY DEF StateIsCurrentUnlessOverlapped
  <2>1. load = "done" /\ (\A A, B : In(inbox) = {}) /\ ReadsOf(o) = {}
    BY SettledIsQuiet
  <2>2. RowInv(o)
    BY DEF IInv, ObjInv
  <2> QED
    BY <2>1, <2>2 DEF RowInv, Known, Expected, Announced
<1> QED
  BY <1>1, InvariantHolds, PTL
=============================================================================
