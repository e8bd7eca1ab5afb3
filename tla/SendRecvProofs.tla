--------------------------- MODULE SendRecvProofs ---------------------------
(***************************************************************************)
(* Theorems about SRSpec: for any number of stimuli, hashes and replies,   *)
(* any retry, and whatever is lost, repeated or interrupted.               *)
(***************************************************************************)
EXTENDS SendRecv, FiniteSetTheorems, WellFoundedInduction, TLAPS

-----------------------------------------------------------------------------
(* The stimuli and their order. *)

LEMMA Indexes ==
    /\ \A s \in Stimuli : Index(s) \in 1..Len(All) /\ All[Index(s)] = s
    /\ \A i \in 1..Len(All) : All[i] \in Stimuli /\ Index(All[i]) = i
    /\ \A s, t \in Stimuli : Index(s) = Index(t) => s = t
<1>1. All \in Seq(Stimuli) /\ DOMAIN All = 1..Len(All)
  BY SendRecvAssumption
<1>2. \A s \in Stimuli : \E i \in DOMAIN All : All[i] = s
  BY DEF Stimuli, Range
<1>3. \A s \in Stimuli : Index(s) \in DOMAIN All /\ All[Index(s)] = s
  BY <1>2, Zenon DEF Index
<1>4. \A i \in 1..Len(All) : All[i] \in Stimuli
  BY <1>1 DEF Stimuli, Range
<1>5. \A i, j \in DOMAIN All : All[i] = All[j] => i = j
  BY SendRecvAssumption
<1>6. \A i \in 1..Len(All) : Index(All[i]) = i
  BY <1>1, <1>3, <1>4, <1>5
<1> QED BY <1>1, <1>3, <1>4, <1>6

LEMMA StimuliFinite ==
    IsFiniteSet(Stimuli) /\ Cardinality(Stimuli) = Len(All) /\ Len(All) \in Nat
<1>1. All \in Seq(Stimuli) /\ DOMAIN All = 1..Len(All) /\ Len(All) \in Nat
  BY SendRecvAssumption
<1>2. All \in Bijection(1..Len(All), Stimuli)
  BY <1>1, Indexes, SendRecvAssumption
     DEF Bijection, Injection, Surjection, IsInjective
<1>3. IsFiniteSet(1..Len(All)) /\ Cardinality(1..Len(All)) = Len(All)
  BY <1>1, FS_Interval
<1>4. ExistsBijection(1..Len(All), Stimuli)
  BY <1>2 DEF ExistsBijection
<1> QED BY <1>1, <1>3, <1>4, FS_Bijection

LEMMA PartsFinite ==
    ASSUME NEW S \in SUBSET Stimuli
    PROVE  IsFiniteSet(S) /\ Cardinality(S) \in Nat
BY StimuliFinite, FS_Subset, FS_CardinalityType

LEMMA SmallestThere ==
    ASSUME NEW T \in SUBSET Nat, T # {} PROVE \E x \in T : \A y \in T : x <= y
<1>1. PICK x \in T : \A y \in T : ~(<<y, x>> \in OpToRel(<, Nat))
  BY NatLessThanWellFounded, WFMin
<1>2. \A y \in T : <<y, x>> \in OpToRel(<, Nat) <=> y < x
  BY DEF OpToRel
<1>3. \A y \in T : ~(y < x)
  BY <1>1, <1>2, Zenon
<1> QED BY <1>3

LEMMA EarliestOf ==
    ASSUME NEW S \in SUBSET Stimuli, S # {}
    PROVE  Earliest(S) \in S /\ \A t \in S : Index(Earliest(S)) <= Index(t)
<1> DEFINE T == {Index(s) : s \in S}
<1>1. T \in SUBSET Nat /\ T # {}
  BY Indexes
<1>2. PICK x \in T : \A y \in T : x <= y
  BY <1>1, SmallestThere
<1>3. \E s \in S : \A t \in S : Index(s) <= Index(t)
  BY <1>2
<1> QED BY <1>3, Zenon DEF Earliest

\* A listing has every element once.
LEMMA ListingOf ==
    ASSUME NEW S \in SUBSET Stimuli, NEW q \in Listings(S)
    PROVE  /\ q \in Seq(Stimuli) /\ Len(q) = Cardinality(S)
           /\ Range(q) = S
<1>1. IsFiniteSet(S) /\ Cardinality(S) \in Nat
  BY PartsFinite
<1> DEFINE D == 1..Cardinality(S)
<1>2. q \in [D -> S] /\ \A i, j \in D : i # j => q[i] # q[j]
  BY DEF Listings, SetToSeqs
<1>3. q \in Injection(D, S)
  BY <1>2 DEF Injection, IsInjective
<1>4. IsFiniteSet(D) /\ Cardinality(D) = Cardinality(S)
  BY <1>1, FS_Interval
<1>5. q \in Surjection(D, S)
  BY <1>1, <1>3, <1>4, FS_Injection
<1>6. Range(q) = S
  BY <1>2, <1>5 DEF Surjection, Range
<1> QED BY <1>1, <1>2, <1>6

\* What comes before in a list comes before in a listing.
LEMMA ListingOrder ==
    ASSUME NEW S \in SUBSET Stimuli, NEW q \in Listings(S),
           NEW s \in S, NEW i \in DOMAIN q,
           Hash[s] = Hash[q[i]], Index(s) < Index(q[i])
    PROVE  \E j \in DOMAIN q : j < i /\ q[j] = s
<1>1. Range(q) = S /\ q \in Seq(Stimuli) /\ DOMAIN q = 1..Len(q)
  BY ListingOf
<1>2. PICK j \in DOMAIN q : q[j] = s
  BY <1>1 DEF Range
<1>3. Index(q[i]) \in Nat /\ Index(s) \in Nat /\ Hash[s] \in Nat
  <2>1. q[i] \in Stimuli
    BY <1>1
  <2>2. Hash[s] \in Nat
    BY SendRecvAssumption
  <2> QED BY <2>1, <2>2, Indexes
<1>4. i < j => \/ Hash[q[i]] < Hash[q[j]]
               \/ Hash[q[i]] = Hash[q[j]] /\ Index(q[i]) < Index(q[j])
  BY DEF Listings
<1>5. ~(i < j) /\ i # j
  BY <1>2, <1>3, <1>4
<1> QED BY <1>1, <1>2, <1>5

-----------------------------------------------------------------------------
(* Types, and which process can be where. *)

Packets == [of : Stimuli, n : Nat]
Waiting == {"top", "select", "collect"}

SRTypes ==
    /\ retry \in Int /\ autostop \in Nat
    /\ pc \in {"round", "decide", "done"} \cup Waiting
    /\ tobesent \in Seq(Stimuli)
    /\ hsent \in SUBSET Stimuli /\ flagged \in SUBSET Stimuli
    /\ ans \in SUBSET (Stimuli \X Packets)
    /\ net \in SUBSET Packets
    /\ provoked \in [Stimuli -> Nat] /\ sent \in [Stimuli -> Nat]
    /\ round \in Nat /\ fruitless \in Nat
    /\ emit \in Seq(Stimuli)
    /\ child \in {"none", "sending", "through", "dead"}
    /\ slipped \in SUBSET Stimuli
    /\ multi \in BOOLEAN

\* The child lives while the parent waits for it, and after a parent that
\* Ctrl-C has ended; it is never through with packets left, and one that has
\* died was cut short.
ChildInv ==
    /\ child # "none" => pc \in Waiting \/ (pc = "done" /\ raised)
    /\ pc \in {"round", "decide"} => child = "none"
    /\ child \in {"through", "dead"} => emit = <<>>
    /\ child = "dead" => cut
    /\ child # "none" \/ pc \in Waiting \cup {"decide"} => round > 0
    /\ raised => pc \in {"collect", "done"}

LEMMA TypesStart == SRInit => SRTypes /\ ChildInv
<1> SUFFICES ASSUME SRInit PROVE SRTypes /\ ChildInv
  OBVIOUS
<1>1. Retries \subseteq Int /\ All \in Seq(Stimuli)
  BY SendRecvAssumption
<1>2. PICK r \in Retries : /\ retry = IF r < 0 THEN -r ELSE r
                           /\ autostop = IF r < 0 THEN -r ELSE 0
  BY DEF SRInit
<1>3. retry \in Int /\ autostop \in Nat
  BY <1>1, <1>2
<1>4. multi \in BOOLEAN
  BY DEF SRInit
<1> QED BY <1>1, <1>3, <1>4 DEF SRInit, SRTypes, ChildInv, Waiting

LEMMA FitsOf ==
    ASSUME SRTypes, NEW r \in net, Fits(r) # {}
    PROVE  /\ Fits(r) \in SUBSET Stimuli
           /\ Earliest(Fits(r)) \in Stimuli
           /\ Earliest(Fits(r)) \in hsent
           /\ Earliest(Fits(r)) \in Rivals(r.of)
           /\ \A t \in Fits(r) : Index(Earliest(Fits(r))) <= Index(t)
<1>1. Fits(r) \in SUBSET Stimuli
  BY DEF Fits, SRTypes
<1>2. Earliest(Fits(r)) \in Fits(r)
  BY <1>1, EarliestOf
<1>3. \A t \in Fits(r) : Index(Earliest(Fits(r))) <= Index(t)
  BY <1>1, EarliestOf
<1> QED BY <1>1, <1>2, <1>3 DEF Fits

LEMMA ReceiveTypes == ASSUME SRTypes, Receive PROVE SRTypes'
<1>1. PICK r \in net :
        /\ net' = net \ {r}
        /\ IF Fits(r) = {} THEN UNCHANGED matching ELSE Answer(r)
  BY DEF Receive
<1>2. r \in Packets
  BY DEF SRTypes
<1>3. /\ hsent' \in SUBSET Stimuli /\ flagged' \in SUBSET Stimuli
      /\ ans' \in SUBSET (Stimuli \X Packets)
  <2>1. CASE Fits(r) = {}
    BY <1>1, <2>1 DEF matching, SRTypes
  <2>2. CASE Fits(r) # {}
    BY <1>1, <1>2, <2>2, FitsOf DEF Answer, SRTypes
  <2> QED BY <2>1, <2>2
<1>4. pc' \in {"top", "collect"}
  BY DEF Receive
<1> QED BY <1>1, <1>3, <1>4
        DEF SRTypes, Receive, childVars, progress, arguments, Waiting

LEMMA DecideTypes == ASSUME SRTypes, Decide PROVE SRTypes'
<1>1. Remain \in SUBSET Stimuli
  BY DEF Remain, SRTypes
<1>2. tobesent' \in Seq(Stimuli)
  BY <1>1, ListingOf DEF Decide
<1>3. NextRetry \in Int /\ retry' \in Int /\ fruitless' \in Nat
  BY DEF Decide, NextRetry, SRTypes
<1>4. pc' \in {"done", "round"}
  BY DEF Decide
<1> QED BY <1>2, <1>3, <1>4
        DEF Decide, SRTypes, matching, childVars, network, arguments

\* A matching that Ctrl-C cuts in two.
Slip(r) ==
    LET s == Earliest(Fits(r))
    IN  /\ ans' = ans \cup {<<s, r>>}
        /\ slipped' = slipped \cup {s}
        /\ \/ UNCHANGED <<hsent, flagged, notans>>
           \/ /\ ~multi
              /\ hsent' = hsent \ {s}
              /\ UNCHANGED <<flagged, notans>>
           \/ /\ multi /\ s \notin flagged
              /\ notans' = notans - 1
              /\ UNCHANGED <<hsent, flagged>>

LEMMA InterruptedMatching ==
    ASSUME InterruptAnswer
    PROVE  \E r \in net : /\ Fits(r) # {} /\ net' = net \ {r}
                          /\ (Answer(r) /\ slipped' = slipped) \/ Slip(r)
BY DEF InterruptAnswer, Slip

LEMMA InterruptedTypes == ASSUME SRTypes, InterruptAnswer PROVE SRTypes'
<1>1. PICK r \in net : /\ Fits(r) # {} /\ net' = net \ {r}
                       /\ (Answer(r) /\ slipped' = slipped) \/ Slip(r)
  BY InterruptedMatching
<1>2. r \in Packets
  BY DEF SRTypes
<1>3. /\ hsent' \in SUBSET Stimuli /\ flagged' \in SUBSET Stimuli
      /\ ans' \in SUBSET (Stimuli \X Packets) /\ slipped' \in SUBSET Stimuli
  <2>1. CASE Answer(r) /\ slipped' = slipped
    BY <1>1, <1>2, <2>1, FitsOf DEF Answer, SRTypes
  <2>2. CASE Slip(r)
    BY <1>1, <1>2, <2>2, FitsOf DEF Slip, SRTypes
  <2> QED BY <1>1, <2>1, <2>2
<1>4. pc' = "collect" /\ emit' = <<>>
  BY DEF InterruptAnswer, Pressed, Caught
<1> QED BY <1>1, <1>3, <1>4
        DEF SRTypes, InterruptAnswer, progress, arguments, Waiting

LEMMA TypesStep == ASSUME SRTypes, [SRNext]_srVars PROVE SRTypes'
<1>1. CASE ChildSends
  <2>1. Head(emit) \in Stimuli /\ Tail(emit) \in Seq(Stimuli)
    BY <1>1 DEF ChildSends, SRTypes
  <2>2. sent' \in [Stimuli -> Nat]
    BY <1>1, <2>1 DEF ChildSends, SRTypes
  <2> QED BY <1>1, <2>1, <2>2
          DEF ChildSends, SRTypes, matching, network, progress, arguments
<1>2. CASE ChildThrough \/ Top \/ HearOnly \/ SelectTimesOut \/ Tick \/ Collect
  BY <1>2 DEF ChildThrough, Top, HearOnly, SelectTimesOut, Tick, Collect, SRTypes,
              matching, network, progress, arguments, childVars, Waiting
<1>3. CASE Fork
  BY <1>3 DEF Fork, SRTypes, matching, network, arguments, Waiting
<1>4. CASE Receive
  BY <1>4, ReceiveTypes
<1>5. CASE Decide
  BY <1>5, DecideTypes
<1>6. CASE Interrupt \/ InterruptElsewhere \/ ChildFails \/ ChildDies
  <2>1. /\ emit' = <<>> /\ sent' = sent
        /\ child' \in {child, "dead"} /\ pc' \in {pc, "collect", "done"}
        /\ UNCHANGED <<retry, autostop, tobesent, hsent, flagged, ans, net,
                       provoked, round, fruitless, slipped, multi>>
    BY <1>6 DEF Interrupt, InterruptElsewhere, ChildFails, ChildDies, Pressed,
                Caught, matching, network, progress, arguments
  <2>2. emit' \in Seq(Stimuli)
    BY <2>1
  <2> QED BY <2>1, <2>2 DEF SRTypes, Waiting
<1>7. CASE InterruptAnswer
  BY <1>7, InterruptedTypes
<1>8. CASE Reply
  BY <1>8 DEF Reply, SRTypes, Packets, matching, progress, arguments, childVars
<1>9. CASE UNCHANGED srVars
  BY <1>9 DEF srVars, SRTypes, matching, network, progress, arguments, childVars
<1> QED BY <1>1, <1>2, <1>3, <1>4, <1>5, <1>6, <1>7, <1>8, <1>9
        DEF SRNext, Child, Parent, Pressing

LEMMA ChildStep == ASSUME SRTypes, ChildInv, [SRNext]_srVars PROVE ChildInv'
<1> USE DEF ChildInv, Waiting
<1>1. CASE ChildSends
  <2>1. emit' \in Seq(Stimuli)
    BY <1>1, TypesStep DEF SRTypes
  <2> QED BY <1>1 DEF ChildSends, progress
<1>2. CASE ChildThrough
  BY <1>2 DEF ChildThrough, progress
<1>3. CASE Fork
  BY <1>3 DEF Fork, SRTypes
<1>4. CASE Top \/ HearOnly \/ SelectTimesOut \/ Receive
  BY <1>4 DEF Top, HearOnly, SelectTimesOut, Receive, progress, childVars
<1>5. CASE Collect
  BY <1>5 DEF Collect, progress
<1>6. CASE Decide
  BY <1>6 DEF Decide, childVars
<1>7. CASE Pressing
  BY <1>7 DEF Pressing, Interrupt, InterruptAnswer, InterruptElsewhere, Pressed,
              Caught, progress
<1>8. CASE ChildFails \/ ChildDies
  BY <1>8 DEF ChildFails, ChildDies, progress
<1>9. CASE Tick \/ Reply
  BY <1>9 DEF Tick, Reply, childVars, progress
<1>10. CASE UNCHANGED srVars
  BY <1>10 DEF srVars, childVars, progress
<1> QED BY <1>1, <1>2, <1>3, <1>4, <1>5, <1>6, <1>7, <1>8, <1>9, <1>10
        DEF SRNext, Child, Parent

-----------------------------------------------------------------------------
(* What is answered.  The lists of hsent hold what is not (or, with multi,   *)
(* everything, and the flags tell), the count goes with them, and no packet  *)
(* is used twice; only a stimulus that slipped can be answered and still be  *)
(* in its list, or without its flag.                                         *)

Left == Stimuli \ Answered

Lists ==
    IF multi
    THEN /\ hsent = Stimuli
         /\ flagged \subseteq Answered /\ Answered \subseteq flagged \cup slipped
    ELSE /\ flagged = {}
         /\ Left \subseteq hsent /\ hsent \subseteq Left \cup slipped

AnsInv ==
    /\ Lists
    /\ slipped = {} => notans = Cardinality(Left)
    /\ \A a, b \in ans : a[2] = b[2] => a = b
    /\ ~multi => \A a, b \in ans : a[1] = b[1] => a = b \/ a[1] \in slipped
    /\ \A r \in net : \A a \in ans : a[2] # r

ToSendInv ==
    pc = "round" \/ Returned => /\ Range(tobesent) = Remain
                                /\ Len(tobesent) = Cardinality(Remain)

LEMMA AnsStart == SRInit => AnsInv /\ ToSendInv
<1> SUFFICES ASSUME SRInit PROVE AnsInv /\ ToSendInv
  OBVIOUS
<1>1. Answered = {} /\ Left = Stimuli /\ Remain = Stimuli
  BY DEF SRInit, Answered, Left, Remain
<1>2. tobesent = All /\ hsent = Stimuli /\ flagged = {} /\ notans = Len(All)
      /\ ans = {} /\ net = {} /\ slipped = {}
  BY DEF SRInit
<1>3. AnsInv
  BY <1>1, <1>2, StimuliFinite DEF AnsInv, Lists
<1> QED BY <1>1, <1>2, <1>3, StimuliFinite DEF ToSendInv, Stimuli

LEMMA LeftFinite ==
    /\ Left \in SUBSET Stimuli /\ IsFiniteSet(Left)
    /\ Cardinality(Left) \in Nat
BY PartsFinite DEF Left

\* What goes out again is what has no answer, and perhaps what slipped.
LEMMA RemainIsLeft ==
    ASSUME SRTypes, AnsInv
    PROVE  /\ Remain \in SUBSET Stimuli /\ Left \subseteq Remain
           /\ Remain \cap Answered \subseteq slipped
           /\ slipped = {} => Remain = Left
BY DEF SRTypes, AnsInv, Lists, Remain, Left

\* One more answer, of a packet that was still in the socket.
LEMMA AnswerAdds ==
    ASSUME SRTypes, AnsInv, NEW r \in net, NEW s \in hsent,
           ans' = ans \cup {<<s, r>>}, net' = net \ {r}, multi' = multi,
           slipped \subseteq slipped'
    PROVE  /\ Answered' = Answered \cup {s} /\ Left' = Left \ {s}
           /\ Cardinality(Left') = IF s \in Left THEN Cardinality(Left) - 1
                                                ELSE Cardinality(Left)
           /\ \A a, b \in ans' : a[2] = b[2] => a = b
           /\ ~multi => \A a, b \in ans' :
                a[1] = b[1] => a = b \/ a[1] \in slipped'
           /\ \A q \in net' : \A a \in ans' : a[2] # q
<1>1. s \in Stimuli
  BY DEF SRTypes
<1>2. Answered' = Answered \cup {s} /\ Left' = Left \ {s}
  <2>1. \A t : t \in Answered' <=> \E a \in ans \cup {<<s, r>>} : t = a[1]
    BY DEF Answered
  <2>2. \A t : t \in Answered <=> \E a \in ans : t = a[1]
    BY DEF Answered
  <2>3. Answered' = Answered \cup {s}
    <3>1. <<s, r>>[1] = s
      OBVIOUS
    <3>2. \A t : t \in Answered' <=> t \in Answered \/ t = s
      BY <2>1, <2>2, <3>1, Zenon
    <3> QED BY <3>2
  <2> QED BY <2>3 DEF Left
<1>3. Cardinality(Left') = IF s \in Left THEN Cardinality(Left) - 1
                                         ELSE Cardinality(Left)
  BY <1>2, LeftFinite, FS_RemoveElement
<1>4. \A a \in ans : a[2] # r
  BY DEF AnsInv
<1>5. \A a, b \in ans' : a[2] = b[2] => a = b
  BY <1>4 DEF AnsInv
<1>6. ASSUME ~multi
      PROVE  \A a, b \in ans' : a[1] = b[1] => a = b \/ a[1] \in slipped'
  <2>1. \A a \in ans : a[1] = s => a[1] \in slipped
    <3>1. s \in Answered => s \in slipped
      BY <1>6 DEF AnsInv, Lists, Left
    <3> QED BY <3>1 DEF Answered
  <2> QED BY <1>6, <2>1 DEF AnsInv
<1>7. \A q \in net' : \A a \in ans' : a[2] # q
  BY DEF AnsInv
<1> QED BY <1>2, <1>3, <1>5, <1>6, <1>7

LEMMA AnswerKeepsAns ==
    ASSUME SRTypes, AnsInv, NEW r \in net, Fits(r) # {}, Answer(r),
           net' = net \ {r}, multi' = multi, slipped' = slipped
    PROVE  AnsInv'
<1> DEFINE s == Earliest(Fits(r))
<1>1. s \in Stimuli /\ s \in hsent
  BY FitsOf
<1>2. ans' = ans \cup {<<s, r>>}
  BY DEF Answer
<1>3. /\ multi => /\ notans' = IF s \in flagged THEN notans ELSE notans - 1
                  /\ flagged' = flagged \cup {s} /\ hsent' = hsent
      /\ ~multi => /\ notans' = notans - 1
                   /\ hsent' = hsent \ {s} /\ flagged' = flagged
  BY DEF Answer
<1> HIDE DEF s
<1>4. /\ Answered' = Answered \cup {s} /\ Left' = Left \ {s}
      /\ Cardinality(Left') = IF s \in Left THEN Cardinality(Left) - 1
                                           ELSE Cardinality(Left)
      /\ \A a, b \in ans' : a[2] = b[2] => a = b
      /\ ~multi => \A a, b \in ans' :
           a[1] = b[1] => a = b \/ a[1] \in slipped'
      /\ \A q \in net' : \A a \in ans' : a[2] # q
  BY <1>1, <1>2, AnswerAdds
<1>5. ASSUME slipped = {} PROVE notans' = Cardinality(Left')
  <2>1. notans = Cardinality(Left)
    BY <1>5 DEF AnsInv
  <2>2. CASE multi
    <3>1. s \in flagged <=> s \notin Left
      BY <1>1, <1>5, <2>2 DEF AnsInv, Lists, Left
    <3> QED BY <1>3, <1>4, <2>1, <2>2, <3>1
  <2>3. CASE ~multi
    <3>1. s \in Left
      BY <1>1, <1>5, <2>3 DEF AnsInv, Lists
    <3> QED BY <1>3, <1>4, <2>1, <2>3, <3>1
  <2> QED BY <2>2, <2>3
<1>6. Lists'
  BY <1>1, <1>3, <1>4 DEF AnsInv, Lists
<1> QED BY <1>4, <1>5, <1>6 DEF AnsInv

LEMMA SlipKeepsAns ==
    ASSUME SRTypes, AnsInv, NEW r \in net, Fits(r) # {}, Slip(r),
           net' = net \ {r}, multi' = multi
    PROVE  AnsInv'
<1> DEFINE s == Earliest(Fits(r))
<1>1. s \in Stimuli /\ s \in hsent
  BY FitsOf
<1>2. ans' = ans \cup {<<s, r>>} /\ slipped' = slipped \cup {s}
  BY DEF Slip
<1>3. flagged' = flagged /\ (hsent' = hsent \/ (~multi /\ hsent' = hsent \ {s}))
  BY DEF Slip
<1> HIDE DEF s
<1>4. /\ Answered' = Answered \cup {s} /\ Left' = Left \ {s}
      /\ \A a, b \in ans' : a[2] = b[2] => a = b
      /\ ~multi => \A a, b \in ans' :
           a[1] = b[1] => a = b \/ a[1] \in slipped'
      /\ \A q \in net' : \A a \in ans' : a[2] # q
  BY <1>1, <1>2, AnswerAdds
<1>5. slipped' # {}
  BY <1>2
<1>6. Lists'
  BY <1>1, <1>2, <1>3, <1>4 DEF AnsInv, Lists
<1> QED BY <1>4, <1>5, <1>6 DEF AnsInv

\* A host that answers sends a packet of its own.
Numbered ==
    /\ \A r \in net : r.n \in 1..provoked[r.of] /\ sent[r.of] > 0
    /\ \A a \in ans : a[2].n \in 1..provoked[a[2].of] /\ sent[a[2].of] > 0

LEMMA NumberedStart == SRInit => Numbered
BY DEF SRInit, Numbered

LEMMA AnswerKeepsNumbered ==
    ASSUME Numbered, NEW r \in net, net' = net \ {r},
           \A a \in ans' : a \in ans \/ a[2] = r,
           provoked' = provoked, sent' = sent
    PROVE  Numbered'
BY DEF Numbered

LEMMA ReplyKeepsNumbered ==
    ASSUME SRTypes, AnsInv, Numbered, Reply PROVE AnsInv' /\ Numbered'
<1>1. PICK s \in Stimuli :
        /\ sent[s] > 0
        /\ provoked' = [provoked EXCEPT ![s] = @ + 1]
        /\ net' = net \cup {[of |-> s, n |-> provoked[s] + 1]}
  BY DEF Reply
<1> DEFINE new == [of |-> s, n |-> provoked[s] + 1]
<1>2. sent' = sent /\ UNCHANGED <<ans, hsent, flagged, notans, multi, slipped>>
  BY DEF Reply, childVars, matching, arguments
<1>3. \A t \in Stimuli : provoked[t] \in Nat /\ provoked'[t] \in Nat
                         /\ provoked'[t] >= provoked[t]
  BY <1>1 DEF SRTypes
<1>4. provoked'[s] = provoked[s] + 1 /\ new.n = provoked[s] + 1 /\ new.of = s
  BY <1>1 DEF SRTypes
<1>5. \A r \in net : r.of \in Stimuli /\ r.n \in Nat
  BY DEF SRTypes, Packets
<1>6. \A a \in ans : a[2].of \in Stimuli /\ a[2].n \in Nat
  BY DEF SRTypes, Packets
<1>7. Numbered'
  <2>1. ASSUME NEW r \in net' PROVE r.n \in 1..provoked'[r.of] /\ sent[r.of] > 0
    <3>1. CASE r \in net
      BY <1>3, <1>5, <3>1 DEF Numbered
    <3>2. CASE r = new
      BY <1>1, <1>3, <1>4, <3>2
    <3> QED BY <1>1, <2>1, <3>1, <3>2
  <2>2. ASSUME NEW a \in ans
        PROVE  a[2].n \in 1..provoked'[a[2].of] /\ sent[a[2].of] > 0
    BY <1>3, <1>6 DEF Numbered
  <2> QED BY <1>2, <2>1, <2>2 DEF Numbered
<1>8. \A a \in ans : a[2] # new
  BY <1>3, <1>4, <1>6 DEF Numbered
<1>9. AnsInv'
  BY <1>1, <1>2, <1>8 DEF AnsInv, Lists, Left, Answered
<1> QED BY <1>7, <1>9

LEMMA AnsStep ==
    ASSUME SRTypes, ChildInv, AnsInv, Numbered, [SRNext]_srVars
    PROVE  AnsInv' /\ Numbered'
<1>1. CASE ChildSends
  <2>1. Head(emit) \in Stimuli /\ round > 0
    BY <1>1 DEF ChildSends, SRTypes, ChildInv
  <2>2. \A s \in Stimuli : sent[s] > 0 => sent'[s] > 0
    BY <1>1, <2>1 DEF ChildSends, SRTypes
  <2>3. UNCHANGED <<net, provoked, ans, hsent, flagged, notans, multi, slipped>>
    BY <1>1 DEF ChildSends, matching, network, arguments
  <2>4. \A r \in net : r.of \in Stimuli
    BY DEF SRTypes, Packets
  <2>5. \A a \in ans : a[2].of \in Stimuli
    BY DEF SRTypes, Packets
  <2>6. Numbered'
    BY <2>2, <2>3, <2>4, <2>5 DEF Numbered
  <2> QED BY <2>3, <2>6 DEF AnsInv, Lists, Left, Answered
<1>2. CASE UNCHANGED <<net, provoked, sent, ans, hsent, flagged, notans, multi,
                       slipped>>
  BY <1>2 DEF AnsInv, Lists, Left, Answered, Numbered
<1>3. CASE Receive
  <2>1. PICK r \in net :
          /\ net' = net \ {r}
          /\ IF Fits(r) = {} THEN UNCHANGED matching ELSE Answer(r)
    BY <1>3 DEF Receive
  <2>2. UNCHANGED <<multi, slipped, provoked, sent>>
    BY <1>3 DEF Receive, arguments, childVars
  <2>3. Fits(r) = {} => AnsInv'
    BY <2>1, <2>2 DEF matching, AnsInv, Lists, Left, Answered
  <2>4. Fits(r) # {} => AnsInv'
    BY <2>1, <2>2, AnswerKeepsAns
  <2>5. \A a \in ans' : a \in ans \/ a[2] = r
    BY <2>1 DEF matching, Answer
  <2> QED BY <2>1, <2>2, <2>3, <2>4, <2>5, AnswerKeepsNumbered
<1>4. CASE Reply
  BY <1>4, ReplyKeepsNumbered
<1>5. CASE \/ ChildThrough \/ Fork \/ Top \/ HearOnly \/ SelectTimesOut
           \/ Collect \/ Decide \/ Tick \/ UNCHANGED srVars
  BY <1>2, <1>5 DEF ChildThrough, Fork, Top, HearOnly, SelectTimesOut, Collect,
     Decide, Tick, srVars, network, matching, childVars, arguments
<1>6. CASE Interrupt \/ InterruptElsewhere \/ ChildFails \/ ChildDies
  BY <1>2, <1>6 DEF Interrupt, InterruptElsewhere, ChildFails, ChildDies,
     network, matching, arguments
<1>7. CASE InterruptAnswer
  <2>1. PICK r \in net : /\ Fits(r) # {} /\ net' = net \ {r}
                         /\ (Answer(r) /\ slipped' = slipped) \/ Slip(r)
    BY <1>7, InterruptedMatching
  <2>2. UNCHANGED <<multi, provoked, sent>>
    BY <1>7 DEF InterruptAnswer, arguments
  <2>3. AnsInv'
    BY <2>1, <2>2, AnswerKeepsAns, SlipKeepsAns
  <2>4. \A a \in ans' : a \in ans \/ a[2] = r
    BY <2>1 DEF Answer, Slip
  <2> QED BY <2>1, <2>2, <2>3, <2>4, AnswerKeepsNumbered
<1> QED BY <1>1, <1>3, <1>4, <1>5, <1>6, <1>7
        DEF SRNext, Child, Parent, Pressing

LEMMA DecideLeft ==
    ASSUME SRTypes, AnsInv, Decide
    PROVE  /\ Range(tobesent') = Remain' /\ Len(tobesent') = Cardinality(Remain')
           /\ Remain' = Remain /\ tobesent' \in Listings(Remain)
<1>1. Remain \in SUBSET Stimuli
  BY RemainIsLeft
<1>2. tobesent' \in Listings(Remain)
  BY DEF Decide
<1>3. Remain' = Remain
  BY DEF Decide, matching, Remain
<1> QED BY <1>1, <1>2, <1>3, ListingOf

LEMMA ToSendStep ==
    ASSUME SRTypes, ChildInv, AnsInv, ToSendInv, [SRNext]_srVars
    PROVE  ToSendInv'
<1>1. CASE Decide
  BY <1>1, DecideLeft DEF ToSendInv
<1>2. CASE Collect \/ InterruptElsewhere
  <2>1. pc' # "round" /\ ~Returned'
    BY <1>2 DEF Collect, InterruptElsewhere, Returned
  <2> QED BY <2>1 DEF ToSendInv
<1>3. CASE \/ ChildSends \/ ChildThrough \/ ChildFails \/ ChildDies
           \/ Tick \/ Reply \/ UNCHANGED srVars
  BY <1>3 DEF ChildSends, ChildThrough, ChildFails, ChildDies, Tick, Reply, srVars,
              matching, progress, ToSendInv, Returned, Remain
<1>4. CASE \/ Fork \/ Top \/ Receive \/ HearOnly \/ SelectTimesOut
           \/ Interrupt \/ InterruptAnswer
  <2>1. pc' \notin {"round", "done"}
    BY <1>4 DEF Fork, Top, Receive, HearOnly, SelectTimesOut, Interrupt,
                InterruptAnswer, Caught
  <2> QED BY <2>1 DEF ToSendInv, Returned
<1> QED BY <1>1, <1>2, <1>3, <1>4 DEF SRNext, Child, Parent, Pressing

SharedInv == SRTypes /\ ChildInv /\ AnsInv /\ Numbered /\ ToSendInv

LEMMA SharedAlways == SRSpec => []SharedInv
<1>1. SRInit => SharedInv
  BY TypesStart, AnsStart, NumberedStart DEF SharedInv
<1>2. SharedInv /\ [SRNext]_srVars => SharedInv'
  BY TypesStep, ChildStep, AnsStep, ToSendStep DEF SharedInv
<1> QED BY <1>1, <1>2, PTL DEF SRSpec

\* The two lists sndrcv returns share the stimuli out and the count it prints is
\* right, no packet answers two stimuli, for any number of rounds, replies and
\* rivals and wherever Ctrl-C comes, but for the very stimuli whose matching it
\* cuts in two (sendrecv.py 141-157, 166-168, 183-207).
THEOREM StimuliArePartitioned == SRSpec => []Partition
<1>1. ASSUME SharedInv, Returned
      PROVE  /\ Range(tobesent) \cup Answered = Stimuli
             /\ Range(tobesent) \cap Answered \subseteq slipped
             /\ slipped = {} => notans = Len(tobesent)
             /\ Len(tobesent) = Cardinality(Range(tobesent))
  <2>1. SRTypes /\ AnsInv /\ Answered \in SUBSET Stimuli
    BY <1>1 DEF SharedInv, SRTypes, Answered
  <2>2. Range(tobesent) = Remain /\ Len(tobesent) = Cardinality(Remain)
    BY <1>1 DEF SharedInv, ToSendInv
  <2>3. /\ Remain \in SUBSET Stimuli /\ Left \subseteq Remain
        /\ Remain \cap Answered \subseteq slipped
        /\ slipped = {} => Remain = Left
    BY <2>1, RemainIsLeft
  <2> QED BY <2>1, <2>2, <2>3 DEF AnsInv, Left
<1>2. SharedInv => Partition
  BY <1>1 DEF SharedInv, AnsInv, Partition
<1> QED BY <1>2, SharedAlways, PTL

-----------------------------------------------------------------------------
(* How often it tries. *)

\* The rounds that are over; unless all of them were fruitless, the last that
\* was not took one try with it.
Over == IF pc = "round" THEN round ELSE round - 1

RetryInv ==
    /\ pc # "done" => retry >= 0
    /\ autostop = 0 /\ pc # "done" => \E r \in Retries : retry = r - Over
    /\ autostop > 0 /\ pc # "done" =>
         /\ fruitless <= Over
         /\ retry = IF fruitless = Over THEN autostop - fruitless
                                        ELSE autostop - 1 - fruitless
    /\ GivesUpInTime

LEMMA RetryStart == SRInit => RetryInv
<1> SUFFICES ASSUME SRInit PROVE RetryInv
  OBVIOUS
<1>1. PICK r \in Retries : /\ retry = IF r < 0 THEN -r ELSE r
                           /\ autostop = IF r < 0 THEN -r ELSE 0
  BY DEF SRInit
<1>2. r \in Int
  BY SendRecvAssumption
<1>3. pc = "round" /\ round = 0 /\ fruitless = 0
  BY DEF SRInit
<1> QED BY <1>1, <1>2, <1>3 DEF RetryInv, Over, GivesUpInTime, Returned

LEMMA DecideKeepsRetry ==
    ASSUME SRTypes, ChildInv, RetryInv, Decide PROVE RetryInv'
<1> DEFINE n == Cardinality(Remain)
           success == Remain # {} /\ n # Len(tobesent)
<1>1. Remain \in SUBSET Stimuli /\ n \in Nat /\ Len(tobesent) \in Nat
  BY PartsFinite DEF Remain, SRTypes
<1>2. /\ retry \in Int /\ autostop \in Nat /\ fruitless \in Nat /\ round \in Nat
      /\ retry >= 0 /\ autostop' = autostop /\ round' = round
      /\ pc = "decide" /\ round > 0 /\ Over = round - 1
  BY DEF SRTypes, ChildInv, RetryInv, Decide, Over
<1>3. CASE Remain = {}
  <2>1. tobesent' = <<>> /\ pc' = "done"
    <3>1. tobesent' \in Seq(Stimuli) /\ Len(tobesent') = n /\ n = 0
      BY <1>1, <1>3, ListingOf, FS_EmptySet DEF Decide
    <3> QED BY <1>3, <3>1 DEF Decide
  <2> QED BY <2>1 DEF RetryInv, GivesUpInTime
<1>4. CASE Remain # {} /\ autostop > 0
  <2>1. CASE success
    <3>1. retry' = autostop - 1 /\ fruitless' = 0 /\ pc' = "round"
      BY <1>1, <1>2, <1>4, <2>1 DEF Decide, NextRetry
    <3> QED BY <1>2, <1>4, <3>1 DEF RetryInv, Over, GivesUpInTime, Returned
  <2>2. CASE ~success
    <3>1. retry' = retry - 1 /\ fruitless' = fruitless + 1
          /\ pc' = IF retry - 1 < 0 THEN "done" ELSE "round"
      BY <1>1, <1>2, <1>4, <2>2 DEF Decide, NextRetry
    <3>2. /\ fruitless <= round - 1
          /\ retry = IF fruitless = round - 1 THEN autostop - fruitless
                                              ELSE autostop - 1 - fruitless
      BY <1>2, <1>4 DEF RetryInv
    <3> QED BY <1>2, <1>4, <3>1, <3>2 DEF RetryInv, Over, GivesUpInTime, Returned
  <2> QED BY <2>1, <2>2
<1>5. CASE Remain # {} /\ autostop = 0
  <2>1. retry' = retry - 1 /\ pc' = IF retry - 1 < 0 THEN "done" ELSE "round"
    BY <1>2, <1>5 DEF Decide, NextRetry
  <2>2. PICK r \in Retries : retry = r - (round - 1)
    BY <1>2, <1>5 DEF RetryInv
  <2>3. r \in Int
    BY SendRecvAssumption
  <2>4. pc' = "done" => round = 1 + r
    BY <1>2, <2>1, <2>2, <2>3
  <2>5. retry' = r - round
    BY <1>2, <2>1, <2>2, <2>3
  <2>6. pc' # "done" => pc' = "round" /\ retry' >= 0
    BY <1>2, <2>1
  <2> QED BY <1>2, <1>5, <2>4, <2>5, <2>6
          DEF RetryInv, Over, GivesUpInTime, Returned
<1> QED BY <1>2, <1>3, <1>4, <1>5

LEMMA RetryStep ==
    ASSUME SRTypes, ChildInv, RetryInv, [SRNext]_srVars PROVE RetryInv'
<1>1. CASE Decide
  BY <1>1, DecideKeepsRetry
<1>2. CASE Fork
  <2>1. /\ pc = "round" /\ pc' = "top" /\ round' = round + 1 /\ round \in Nat
        /\ UNCHANGED <<retry, autostop, fruitless>>
    BY <1>2 DEF Fork, SRTypes
  <2>2. round' - 1 = round
    BY <2>1
  <2> QED BY <2>1, <2>2 DEF RetryInv, Over, GivesUpInTime, Returned
<1>3. CASE Collect
  <2>1. /\ pc = "collect" /\ pc' \in {"decide", "done"} /\ ~Returned'
        /\ UNCHANGED <<retry, autostop, fruitless, round>>
    BY <1>3 DEF Collect, progress, Returned
  <2> QED BY <2>1 DEF RetryInv, Over, GivesUpInTime
<1>4. CASE InterruptElsewhere
  <2>1. pc' = "done" /\ ~Returned'
    BY <1>4 DEF InterruptElsewhere, Returned
  <2> QED BY <2>1 DEF RetryInv, GivesUpInTime
<1>5. CASE \/ Top \/ Receive \/ HearOnly \/ SelectTimesOut
           \/ Interrupt \/ InterruptAnswer
  <2>1. /\ pc \in {"top", "select"} /\ pc' \in {"top", "select", "collect"}
        /\ UNCHANGED <<retry, autostop, fruitless, round>>
    BY <1>5 DEF Top, Receive, HearOnly, SelectTimesOut, Interrupt,
                InterruptAnswer, Caught, progress
  <2> QED BY <2>1 DEF RetryInv, Over, GivesUpInTime, Returned
<1>6. CASE \/ ChildSends \/ ChildThrough \/ ChildFails \/ ChildDies
           \/ Tick \/ Reply \/ UNCHANGED srVars
  <2>1. UNCHANGED <<pc, raised, retry, autostop, fruitless, round, tobesent>>
    BY <1>6 DEF ChildSends, ChildThrough, ChildFails, ChildDies, Tick, Reply,
                srVars, progress
  <2> QED BY <2>1 DEF RetryInv, Over, GivesUpInTime, Returned
<1> QED BY <1>1, <1>2, <1>3, <1>4, <1>5, <1>6
        DEF SRNext, Child, Parent, Pressing

\* With a positive retry there are that many more rounds, with a negative one
\* that many after the last that brought an answer, and one more when no round
\* ever brought one, whatever arrives when (sendrecv.py 60-67, 187-193).
THEOREM AlwaysGivesUpInTime == SRSpec => []GivesUpInTime
<1> DEFINE Inv == SharedInv /\ RetryInv
<1>1. SRInit => RetryInv
  BY RetryStart
<1>2. SharedInv /\ RetryInv /\ [SRNext]_srVars => RetryInv'
  BY RetryStep DEF SharedInv
<1>3. RetryInv => GivesUpInTime
  BY DEF RetryInv
<1> QED BY <1>1, <1>2, <1>3, SharedAlways, PTL DEF SRSpec

-----------------------------------------------------------------------------
(* The times of sending.  Until an emission is cut short, every packet      *)
(* has been sent when the child is through, so its list of times has no gaps. *)

Right(s) == sent[s] > 0 /\ stime[s] = <<s, sent[s]>>

TimesInv ==
    ~cut =>
        /\ pc = "round" => tobesent = All \/ \A s \in Stimuli : Right(s)
        /\ pc \in Waiting => \A s \in Stimuli :
             sent[s] = round \/ s \in Range(emit) \/ Right(s)
        /\ pc = "decide" \/ Returned => \A s \in Stimuli : Right(s)

LEMMA Counted == ASSUME NEW n \in Nat PROVE Cardinality(1..n) = n
BY FS_Interval

\* Without gaps the n-th time is the n-th stimulus's.
LEMMA NoGaps ==
    ASSUME Timed = DOMAIN All
    PROVE  DOMAIN Times = 1..Len(All)
           /\ \A n \in 1..Len(All) : Times[n] = Time(All[n])
<1>1. Timed = 1..Len(All) /\ Len(All) \in Nat
  <2>1. All \in Seq(Stimuli)
    BY SendRecvAssumption
  <2> QED BY <2>1
<1>2. Cardinality(Timed) = Len(All)
  <2>1. Len(All) \in Nat
    BY <1>1
  <2>2. Cardinality(1..Len(All)) = Len(All)
    BY <2>1, Counted
  <2> QED BY <1>1, <2>2, Zenon
<1>3. ASSUME NEW n \in 1..Len(All) PROVE Times[n] = Time(All[n])
  <2>1. \A i \in Timed : Cardinality({j \in Timed : j <= i}) = i
    <3>1. ASSUME NEW i \in Timed
          PROVE  Cardinality({j \in Timed : j <= i}) = i
      <4>1. {j \in Timed : j <= i} = 1..i
        BY <1>1
      <4>2. i \in Nat /\ Cardinality(1..i) = i
        BY <1>1, Counted
      <4> QED BY <4>1, <4>2
    <3> QED BY <3>1
  <2>2. n \in Timed
    BY <1>1, <1>3
  <2>3. (CHOOSE i \in Timed : Cardinality({j \in Timed : j <= i}) = n) = n
    BY <2>1, <2>2
  <2>4. Times[n] = Time(All[CHOOSE i \in Timed :
                          Cardinality({j \in Timed : j <= i}) = n])
    BY <1>2, <1>3 DEF Times
  <2> QED BY <2>3, <2>4
<1> QED BY <1>2, <1>3 DEF Times

LEMMA CollectKeepsTimes ==
    ASSUME SRTypes, ChildInv, TimesInv, Collect PROVE TimesInv'
<1> SUFFICES ASSUME ~cut PROVE \A s \in Stimuli : Right(s)'
  BY DEF Collect, TimesInv, Waiting
<1>1. /\ pc \in Waiting /\ emit = <<>> /\ round > 0 /\ round \in Nat
      /\ child = "through"
  BY DEF Collect, ChildInv, Waiting, SRTypes
<1>2. Range(emit) = {}
  BY <1>1 DEF Range
<1>3. \A s \in Stimuli : sent[s] > 0 /\ Time(s) = <<s, sent[s]>>
  BY <1>1, <1>2 DEF TimesInv, Right, Time
<1>4. \A i \in DOMAIN All : Time(All[i]) # Never
  <2>1. ASSUME NEW i \in DOMAIN All PROVE Time(All[i]) # Never
    <3>1. All[i] \in Stimuli
      BY DEF Stimuli, Range
    <3> QED BY <1>3, <3>1 DEF Never
  <2> QED BY <2>1
<1>5. Timed = DOMAIN All
  BY <1>4 DEF Timed
<1>6. DOMAIN Times = 1..Len(All) /\ \A n \in 1..Len(All) : Times[n] = Time(All[n])
  BY <1>5, NoGaps
<1>7. ASSUME NEW s \in Stimuli PROVE Right(s)'
  <2>1. Index(s) \in 1..Len(All) /\ All[Index(s)] = s
    BY Indexes
  <2>2. stime'[s] = Time(s)
    BY <1>1, <1>6, <2>1 DEF Collect
  <2>3. sent' = sent
    BY DEF Collect
  <2> QED BY <1>3, <2>2, <2>3 DEF Right
<1> QED BY <1>7

LEMMA TimesStep ==
    ASSUME SRTypes, ChildInv, TimesInv, [SRNext]_srVars PROVE TimesInv'
<1>1. CASE ChildSends
  <2>1. /\ pc' = pc /\ pc' \notin {"round", "decide"} /\ ~Returned'
        /\ round' = round /\ cut' = cut
        /\ stime' = stime /\ round \in Nat /\ round > 0
    BY <1>1 DEF ChildSends, ChildInv, SRTypes, progress, Returned, Waiting
  <2>2. /\ Head(emit) \in Stimuli
        /\ \A s \in Range(emit) : s = Head(emit) \/ s \in Range(emit')
    <3>1. emit \in Seq(Stimuli) /\ emit # <<>> /\ emit' = Tail(emit)
      BY <1>1 DEF ChildSends, SRTypes
    <3>2. \A i \in DOMAIN emit : emit[i] = Head(emit) \/
            (i - 1 \in DOMAIN emit' /\ emit'[i - 1] = emit[i])
      BY <3>1
    <3>3. \A s \in Range(emit) : s = Head(emit) \/ s \in Range(emit')
      <4>1. ASSUME NEW i \in DOMAIN emit
            PROVE  emit[i] = Head(emit) \/ emit[i] \in Range(emit')
        BY <3>2 DEF Range
      <4> QED BY <4>1 DEF Range
    <3> QED BY <3>1, <3>3
  <2>3. \A s \in Stimuli : sent'[s] = IF s = Head(emit) THEN round ELSE sent[s]
    BY <1>1, <2>2 DEF ChildSends, SRTypes
  <2>4. ASSUME ~cut, pc \in Waiting, NEW s \in Stimuli
        PROVE  sent'[s] = round \/ s \in Range(emit') \/ Right(s)'
    <3>1. sent[s] = round \/ s \in Range(emit) \/ Right(s)
      BY <2>1, <2>4 DEF TimesInv
    <3> QED BY <2>1, <2>2, <2>3, <3>1 DEF Right
  <2> QED BY <2>1, <2>4 DEF TimesInv, Waiting
<1>2. CASE Fork
  <2>1. /\ pc' = "top" /\ ~Returned' /\ cut' = cut
        /\ emit' = tobesent /\ stime' = stime
        /\ sent' = sent /\ pc = "round"
    BY <1>2 DEF Fork, Returned
  <2>2. tobesent = All => Range(emit') = Stimuli
    BY <2>1 DEF Stimuli
  <2> QED BY <2>1, <2>2 DEF TimesInv, Right, Waiting
<1>3. CASE Collect
  BY <1>3, CollectKeepsTimes
<1>4. CASE Decide
  <2>1. pc = "decide" /\ pc' \in {"done", "round"} /\ UNCHANGED <<sent, stime, cut>>
    BY <1>4 DEF Decide, childVars
  <2> QED BY <2>1 DEF TimesInv, Right, Waiting, Returned
<1>5. CASE Top \/ Receive \/ HearOnly \/ SelectTimesOut
  <2>1. /\ pc \in Waiting /\ pc' \in Waiting
        /\ UNCHANGED <<sent, stime, cut, emit, round>>
    BY <1>5 DEF Top, Receive, HearOnly, SelectTimesOut, childVars, Waiting, progress
  <2> QED BY <2>1 DEF TimesInv, Right, Waiting, Returned
<1>6. CASE Interrupt \/ InterruptAnswer
  <2>1. /\ pc \in Waiting /\ pc' = "collect" /\ UNCHANGED <<sent, stime, round>>
        /\ ~cut' => ~cut /\ emit' = emit
    BY <1>6 DEF Interrupt, InterruptAnswer, Pressed, Caught, Waiting, progress
  <2> QED BY <2>1 DEF TimesInv, Right, Waiting, Returned
<1>7. CASE InterruptElsewhere
  <2>1. pc' = "done" /\ ~Returned'
    BY <1>7 DEF InterruptElsewhere, Returned
  <2> QED BY <2>1 DEF TimesInv, Waiting
<1>8. CASE ChildFails \/ ChildDies
  BY <1>8 DEF ChildFails, ChildDies, TimesInv
<1>9. CASE ChildThrough \/ Tick \/ Reply \/ UNCHANGED srVars
  BY <1>9 DEF ChildThrough, Tick, Reply, srVars, TimesInv, Right, childVars,
              progress, Returned
<1> QED BY <1>1, <1>2, <1>3, <1>4, <1>5, <1>6, <1>7, <1>8, <1>9
        DEF SRNext, Child, Parent, Pressing

\* While no emission was cut short and no child died, the time kept for each
\* stimulus is that of its own last sending, for any number of stimuli and
\* rounds, although the child's list is matched with them by position only
\* (sendrecv.py 104, 176-177).
THEOREM TimesAlwaysRight == SRSpec => []SentTimesRight
<1>1. SRInit => TimesInv
  BY DEF SRInit, TimesInv, Waiting, Returned
<1>2. SharedInv /\ TimesInv /\ [SRNext]_srVars => TimesInv'
  BY TimesStep DEF SharedInv
<1>3. TimesInv => SentTimesRight
  BY DEF TimesInv, Right, SentTimesRight, Returned
<1> QED BY <1>1, <1>2, <1>3, SharedAlways, PTL DEF SRSpec

-----------------------------------------------------------------------------
(* What was sent.  Packets of one hash are sent in their order, and rivals    *)
(* are answered in theirs; where no stimulus provokes two replies, no more    *)
(* rivals are answered than were sent.                                        *)

Single == \A s \in Stimuli : provoked[s] <= 1

Before(s, t) == Hash[s] = Hash[t] /\ Index(s) < Index(t)

\* What is before t in its list goes out before it in this emission, unless it
\* went out already.
Ordered(q) ==
    \A i \in DOMAIN q : \A s \in Stimuli :
        Before(s, q[i]) => sent[s] > 0 \/ \E j \in DOMAIN q : j < i /\ q[j] = s

SentInOrder ==
    \A s, t \in Stimuli : Before(s, t) /\ sent[t] > 0 => sent[s] > 0

FirstAnswered ==
    /\ \A a \in ans : a[1] \in Rivals(a[2].of)
    /\ \A a \in ans : \A s \in Rivals(a[1]) :
         Index(s) < Index(a[1]) => ~multi /\ s \in Answered

OrderInv ==
    /\ FirstAnswered
    /\ Single => /\ SentInOrder /\ Ordered(emit)
                 /\ pc = "round" => Ordered(tobesent)

LEMMA RivalsOf ==
    ASSUME NEW s \in Stimuli
    PROVE  /\ Rivals(s) \in SUBSET Stimuli /\ s \in Rivals(s)
           /\ \A t \in Rivals(s) : Hash[t] = Hash[s]
<1>1. Passes[s] \in SUBSET Stimuli
  BY SendRecvAssumption
<1>2. s \in Passes[s]
  BY SendRecvAssumption
<1> QED BY <1>1, <1>2 DEF Rivals

\* A stimulus that was not sent is behind all its rivals that were.
LEMMA BehindSent ==
    ASSUME SRTypes, SentInOrder, NEW s \in Stimuli, NEW t \in Stimuli,
           Hash[s] = Hash[t], sent[s] > 0, ~(sent[t] > 0)
    PROVE  Index(s) < Index(t)
<1>1. s # t /\ Index(s) \in Nat /\ Index(t) \in Nat /\ Index(s) # Index(t)
  BY Indexes
<1>2. ~(Index(t) < Index(s))
  BY DEF SentInOrder, Before
<1> QED BY <1>1, <1>2

LEMMA AnsweredSent ==
    ASSUME Alike, Single, SRTypes, AnsInv, Numbered, SentInOrder, FirstAnswered
    PROVE  \A t \in Answered : sent[t] > 0
<1> SUFFICES ASSUME NEW x \in ans, ~(sent[x[1]] > 0) PROVE FALSE
  BY DEF Answered
<1> DEFINE t == x[1]
           u == x[2].of
           C == Rivals(t)
           A == Answered \cap C
           Sent == {s \in C : sent[s] > 0}
<1>1. t \in Stimuli /\ u \in Stimuli
  BY DEF SRTypes, Packets
<1>2. sent[u] > 0
  BY DEF Numbered
<1>3. t \in Rivals(u) /\ Rivals(u) = C
  BY <1>1 DEF FirstAnswered, Alike
<1>4. C \in SUBSET Stimuli /\ t \in C /\ u \in C
  BY <1>1, <1>3, RivalsOf
<1>5. \A s \in C : Rivals(s) = C /\ Hash[s] = Hash[t]
  BY <1>1, <1>3, RivalsOf DEF Alike
<1>6. \A s \in Sent : Index(s) < Index(t)
  BY <1>1, <1>4, <1>5, BehindSent
<1>7. ~multi /\ Sent \subseteq A
  <2>1. u \in Sent
    BY <1>2, <1>4
  <2>2. \A s \in Sent : ~multi /\ s \in Answered
    BY <1>6 DEF FirstAnswered
  <2> QED BY <2>1, <2>2
<1>8. t \in A \ Sent
  BY <1>4 DEF Answered
<1> DEFINE by(s) == CHOOSE a \in ans : a[1] = s
           g == [s \in A |-> by(s)[2].of]
<1>9. \A s \in A : by(s) \in ans /\ by(s)[1] = s
  <2>1. \A s \in A : \E a \in ans : a[1] = s
    BY DEF Answered
  <2> QED BY <2>1, Zenon
<1> HIDE DEF by
<1>10. \A s \in A : g[s] \in Sent
  <2>1. ASSUME NEW s \in A PROVE by(s)[2].of \in Sent
    <3> DEFINE v == by(s)[2].of
    <3>1. v \in Stimuli /\ sent[v] > 0 /\ s \in Rivals(v)
      BY <1>9 DEF SRTypes, Packets, Numbered, FirstAnswered
    <3>2. Rivals(s) = C /\ Rivals(s) = Rivals(v)
      BY <1>5, <3>1 DEF Alike
    <3>3. v \in C
      BY <3>1, <3>2, RivalsOf
    <3> QED BY <3>1, <3>3
  <2> QED BY <2>1
<1>11. \A s, w \in A : g[s] = g[w] => s = w
  <2>1. ASSUME NEW s \in A, NEW w \in A, by(s)[2].of = by(w)[2].of
        PROVE  s = w
    <3>1. by(s)[2] \in Packets /\ by(w)[2] \in Packets
      BY <1>9 DEF SRTypes
    <3>2. by(s)[2].n = 1 /\ by(w)[2].n = 1
      <4>1. ASSUME NEW z \in A PROVE by(z)[2].n = 1
        <5>1. by(z)[2].of \in Stimuli /\ by(z)[2].n \in 1..provoked[by(z)[2].of]
          BY <1>9 DEF Numbered, SRTypes, Packets
        <5>2. provoked[by(z)[2].of] \in Nat /\ provoked[by(z)[2].of] <= 1
          BY <5>1 DEF Single, SRTypes
        <5> QED BY <5>1, <5>2
      <4> QED BY <4>1
    <3>3. by(s)[2] = by(w)[2]
      BY <2>1, <3>1, <3>2 DEF Packets
    <3>4. by(s) = by(w)
      BY <1>9, <3>3 DEF AnsInv
    <3> QED BY <1>9, <3>4
  <2> QED BY <2>1
<1>12. IsFiniteSet(A) /\ IsFiniteSet(Sent)
  <2>1. A \in SUBSET Stimuli /\ Sent \in SUBSET Stimuli
    BY <1>4
  <2> QED BY <2>1, PartsFinite
<1>13. g \in Injection(A, Sent)
  BY <1>10, <1>11 DEF Injection, IsInjective
<1> HIDE DEF g, A, Sent
<1>14. Cardinality(A) <= Cardinality(Sent)
  BY <1>12, <1>13, FS_Injection
<1>15. Cardinality(Sent) <= Cardinality(A)
       /\ (Cardinality(A) = Cardinality(Sent) => A = Sent)
  BY <1>7, <1>12, FS_Subset
<1>16. Cardinality(A) \in Nat /\ Cardinality(Sent) \in Nat
  BY <1>12, FS_CardinalityType
<1>17. A = Sent
  BY <1>14, <1>15, <1>16
<1> QED BY <1>8, <1>17

LEMMA AnswerKeepsFirst ==
    ASSUME SRTypes, AnsInv, Alike, FirstAnswered, NEW r \in net, Fits(r) # {},
           ans' = ans \cup {<<Earliest(Fits(r)), r>>}, multi' = multi
    PROVE  FirstAnswered'
<1> DEFINE x == Earliest(Fits(r))
<1>1. /\ x \in Stimuli /\ x \in hsent /\ x \in Rivals(r.of)
      /\ \A t \in Fits(r) : Index(x) <= Index(t)
  BY FitsOf
<1>2. r.of \in Stimuli
  BY DEF SRTypes, Packets
<1>3. Rivals(x) = Rivals(r.of) /\ Rivals(x) \in SUBSET Stimuli
  BY <1>1, <1>2, RivalsOf DEF Alike
<1>4. ans' = ans \cup {<<x, r>>}
  OBVIOUS
<1> HIDE DEF x
<1>5. \A a \in ans' : a \in ans \/ a = <<x, r>>
  BY <1>4
<1>6. \A t \in Answered : t \in Answered'
  BY <1>4 DEF Answered
<1>7. ASSUME NEW s \in Rivals(x), Index(s) < Index(x)
      PROVE  ~multi /\ s \in Answered
  <2>1. s \in Stimuli /\ Index(s) \in Nat /\ Index(x) \in Nat
    BY <1>1, <1>3, Indexes
  <2>2. s \notin Fits(r)
    BY <1>1, <1>7, <2>1
  <2>3. s \notin hsent
    BY <1>3, <2>2 DEF Fits
  <2> QED BY <2>1, <2>3 DEF AnsInv, Lists, Left
<1>8. \A a \in ans' : a[1] \in Rivals(a[2].of)
  BY <1>1, <1>5 DEF FirstAnswered
<1>9. \A a \in ans' : \A s \in Rivals(a[1]) :
        Index(s) < Index(a[1]) => ~multi' /\ s \in Answered'
  <2>1. ASSUME NEW a \in ans', NEW s \in Rivals(a[1]), Index(s) < Index(a[1])
        PROVE  ~multi' /\ s \in Answered'
    <3>1. CASE a \in ans
      BY <1>6, <2>1, <3>1 DEF FirstAnswered
    <3>2. CASE a = <<x, r>>
      <4>1. a[1] = x
        BY <3>2
      <4> QED BY <1>6, <1>7, <2>1, <4>1
    <3> QED BY <1>5, <3>1, <3>2
  <2> QED BY <2>1
<1> QED BY <1>8, <1>9 DEF FirstAnswered

LEMMA FirstStep ==
    ASSUME SRTypes, AnsInv, Alike, FirstAnswered, [SRNext]_srVars
    PROVE  FirstAnswered'
<1>1. CASE UNCHANGED <<ans, multi>>
  BY <1>1 DEF FirstAnswered, Answered
<1>2. CASE Receive
  <2>1. PICK r \in net : IF Fits(r) = {} THEN UNCHANGED matching ELSE Answer(r)
    BY <1>2 DEF Receive
  <2>2. multi' = multi
    BY <1>2 DEF Receive, arguments
  <2>3. Fits(r) = {} => UNCHANGED <<ans, multi>>
    BY <2>1, <2>2 DEF matching
  <2>4. Fits(r) # {} => FirstAnswered'
    BY <2>1, <2>2, AnswerKeepsFirst DEF Answer
  <2> QED BY <1>1, <2>3, <2>4
<1>3. CASE \/ ChildSends \/ ChildThrough \/ ChildFails \/ ChildDies \/ Fork
           \/ Top \/ HearOnly \/ SelectTimesOut \/ Collect \/ Decide \/ Interrupt
           \/ InterruptElsewhere \/ Tick \/ Reply \/ UNCHANGED srVars
  BY <1>1, <1>3 DEF ChildSends, ChildThrough, ChildFails, ChildDies, Fork, Top,
     HearOnly, Reply, SelectTimesOut, Collect, Decide, Interrupt,
     InterruptElsewhere, Tick, srVars, matching, arguments
<1>4. CASE InterruptAnswer
  <2>1. PICK r \in net : Fits(r) # {} /\ (Answer(r) \/ Slip(r))
    BY <1>4, InterruptedMatching
  <2>2. multi' = multi
    BY <1>4 DEF InterruptAnswer, arguments
  <2> QED BY <2>1, <2>2, AnswerKeepsFirst DEF Answer, Slip
<1> QED BY <1>2, <1>3, <1>4 DEF SRNext, Child, Parent, Pressing

LEMMA SendKeepsOrder ==
    ASSUME SRTypes, ChildInv, SentInOrder, Ordered(emit), ChildSends
    PROVE  SentInOrder' /\ Ordered(emit)' /\ pc' # "round"
<1>1. /\ emit \in Seq(Stimuli) /\ emit # <<>> /\ emit' = Tail(emit)
      /\ round > 0 /\ pc' # "round"
  BY DEF ChildSends, SRTypes, ChildInv
<1>2. Head(emit) = emit[1] /\ Head(emit) \in Stimuli /\ 1 \in DOMAIN emit
  BY <1>1
<1>3. \A s \in Stimuli : sent'[s] = IF s = Head(emit) THEN round ELSE sent[s]
  BY <1>2 DEF ChildSends, SRTypes
<1>4. \A s \in Stimuli : sent[s] > 0 => sent'[s] > 0
  BY <1>1, <1>3
<1>5. sent'[Head(emit)] > 0
  BY <1>1, <1>2, <1>3
<1>6. \A s \in Stimuli : Before(s, Head(emit)) => sent[s] > 0
  <2>1. \A j \in DOMAIN emit : ~(j < 1)
    BY <1>1
  <2> QED BY <1>2, <2>1 DEF Ordered
<1>7. SentInOrder'
  <2>1. ASSUME NEW s \in Stimuli, NEW t \in Stimuli, Before(s, t), sent'[t] > 0
        PROVE  sent'[s] > 0
    <3>1. CASE t = Head(emit)
      BY <1>4, <1>6, <2>1, <3>1
    <3>2. CASE t # Head(emit)
      BY <1>3, <1>4, <2>1, <3>2 DEF SentInOrder
    <3> QED BY <3>1, <3>2
  <2> QED BY <2>1 DEF SentInOrder, Before
<1>8. Ordered(emit)'
  <2>1. ASSUME NEW i \in DOMAIN emit', NEW s \in Stimuli, Before(s, emit'[i])
        PROVE  sent'[s] > 0 \/ \E j \in DOMAIN emit' : j < i /\ emit'[j] = s
    <3>1. i + 1 \in DOMAIN emit /\ emit'[i] = emit[i + 1]
      BY <1>1
    <3>2. sent[s] > 0 \/ \E j \in DOMAIN emit : j < i + 1 /\ emit[j] = s
      BY <2>1, <3>1 DEF Ordered
    <3>3. ASSUME NEW j \in DOMAIN emit, j < i + 1, emit[j] = s, j # 1
          PROVE  \E k \in DOMAIN emit' : k < i /\ emit'[k] = s
      <4>1. j - 1 \in DOMAIN emit' /\ emit'[j - 1] = s /\ j - 1 < i
        BY <1>1, <3>1, <3>3
      <4> QED BY <4>1
    <3> QED BY <1>2, <1>4, <1>5, <3>2, <3>3
  <2> QED BY <2>1 DEF Ordered, Before
<1> QED BY <1>1, <1>7, <1>8

LEMMA DecideKeepsOrder ==
    ASSUME SRTypes, AnsInv, Numbered, Alike, Single, FirstAnswered, SentInOrder,
           Decide
    PROVE  Ordered(tobesent)'
<1>1. /\ tobesent' \in Listings(Remain) /\ Remain \in SUBSET Stimuli
      /\ Left \subseteq Remain
  BY DecideLeft, RemainIsLeft
<1>2. \A t \in Answered : sent[t] > 0
  BY AnsweredSent
<1>3. sent' = sent
  BY DEF Decide, childVars
<1>4. ASSUME NEW i \in DOMAIN tobesent', NEW s \in Stimuli,
             Before(s, tobesent'[i])
      PROVE  \/ sent[s] > 0
             \/ \E j \in DOMAIN tobesent' : j < i /\ tobesent'[j] = s
  <2>1. CASE s \in Remain
    BY <1>1, <1>4, <2>1, ListingOrder DEF Before
  <2>2. CASE s \notin Remain
    BY <1>1, <1>2, <2>2 DEF Left
  <2> QED BY <2>1, <2>2
<1> QED BY <1>3, <1>4 DEF Ordered, Before

LEMMA OrderStep ==
    ASSUME SRTypes, ChildInv, AnsInv, Numbered, Alike, OrderInv,
           [SRNext]_srVars
    PROVE  OrderInv'
<1>1. FirstAnswered'
  BY FirstStep DEF OrderInv
<1> SUFFICES ASSUME Single'
             PROVE  /\ SentInOrder' /\ Ordered(emit)'
                    /\ pc' = "round" => Ordered(tobesent)'
  BY <1>1 DEF OrderInv
<1>2. Single
  <2>1. CASE Reply
    <3>1. \A s \in Stimuli : provoked[s] \in Nat /\ provoked'[s] >= provoked[s]
      BY <2>1 DEF Reply, SRTypes
    <3> QED BY <3>1, TypesStep DEF Single, SRTypes
  <2>2. CASE provoked' = provoked
    BY <2>2 DEF Single
  <2> QED BY <2>1, <2>2
      DEF SRNext, Child, Parent, ChildSends, ChildThrough, Fork, Top, Receive,
          HearOnly, SelectTimesOut, Collect, Decide, Pressing, Interrupt,
          InterruptAnswer, InterruptElsewhere, ChildFails, ChildDies, Tick,
          srVars, network
<1>3. /\ FirstAnswered /\ SentInOrder /\ Ordered(emit)
      /\ pc = "round" => Ordered(tobesent)
  BY <1>2 DEF OrderInv
<1>4. CASE ChildSends
  BY <1>3, <1>4, SendKeepsOrder
<1>5. CASE Fork
  <2>1. sent' = sent /\ emit' = tobesent /\ pc = "round" /\ pc' = "top"
    BY <1>5 DEF Fork
  <2> QED BY <1>3, <2>1 DEF SentInOrder, Ordered, Before
<1>6. CASE Decide
  <2>1. sent' = sent /\ emit' = emit
    BY <1>6 DEF Decide, childVars
  <2> QED BY <1>2, <1>3, <1>6, <2>1, DecideKeepsOrder
          DEF SentInOrder, Ordered, Before
<1>7. CASE Pressing \/ ChildFails \/ ChildDies
  <2>1. sent' = sent /\ emit' = <<>> /\ pc' # "round"
    BY <1>7 DEF Pressing, Interrupt, InterruptAnswer, InterruptElsewhere, Pressed,
                Caught, ChildFails, ChildDies, ChildInv
  <2> QED BY <1>3, <2>1 DEF SentInOrder, Ordered, Before
<1>8. CASE Top \/ Receive \/ HearOnly \/ SelectTimesOut \/ Collect
  <2>1. sent' = sent /\ emit' = emit /\ pc' # "round"
    BY <1>8 DEF Top, Receive, HearOnly, SelectTimesOut, Collect, childVars
  <2> QED BY <1>3, <2>1 DEF SentInOrder, Ordered, Before
<1>9. CASE ChildThrough \/ Tick \/ Reply \/ UNCHANGED srVars
  <2>1. UNCHANGED <<sent, emit, pc, tobesent>>
    BY <1>9 DEF ChildThrough, Tick, Reply, srVars, childVars, progress
  <2> QED BY <1>3, <2>1 DEF SentInOrder, Ordered, Before
<1> QED BY <1>4, <1>5, <1>6, <1>7, <1>8, <1>9 DEF SRNext, Child, Parent

LEMMA OrderStart == SRInit => OrderInv
<1> SUFFICES ASSUME SRInit PROVE OrderInv
  OBVIOUS
<1>1. ans = {} /\ emit = <<>> /\ tobesent = All
      /\ sent = [s \in Stimuli |-> 0]
  BY DEF SRInit
<1>2. Ordered(All)
  <2>1. ASSUME NEW i \in DOMAIN All, NEW s \in Stimuli, Before(s, All[i])
        PROVE  \E j \in DOMAIN All : j < i /\ All[j] = s
    <3>1. All \in Seq(Stimuli)
      BY SendRecvAssumption
    <3>2. Index(s) \in DOMAIN All /\ All[Index(s)] = s /\ Index(All[i]) = i
      BY <3>1, Indexes
    <3> QED BY <2>1, <3>2 DEF Before
  <2> QED BY <2>1 DEF Ordered
<1> QED BY <1>1, <1>2 DEF OrderInv, FirstAnswered, SentInOrder, Ordered

\* Where no host answers a stimulus twice and rivals are alike, nothing is
\* reported as answered that was never sent, for any number of rivals, rounds
\* and lost or late replies, although answers go to the first rival and not to
\* the one they are of (sendrecv.py 141-157).
THEOREM AnsweredWereSent == SRSpec => []AnsweredWasSent
<1>1. CASE Alike
  <2>1. SharedInv /\ OrderInv /\ [SRNext]_srVars => OrderInv'
    BY <1>1, OrderStep DEF SharedInv
  <2>2. SharedInv /\ OrderInv => AnsweredWasSent
    BY AnsweredSent DEF SharedInv, OrderInv, AnsweredWasSent, Single
  <2> QED BY <2>1, <2>2, OrderStart, SharedAlways, PTL DEF SRSpec
<1>2. CASE ~Alike
  <2>1. AnsweredWasSent
    BY <1>2 DEF AnsweredWasSent
  <2> QED BY <2>1, PTL
<1> QED BY <1>1, <1>2
=============================================================================
