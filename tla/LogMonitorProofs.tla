--------------------------- MODULE LogMonitorProofs ---------------------------
(***************************************************************************)
(* Proofs about LogMonitor, for files of any length made of any text, and  *)
(* any number of rewrites and deletions: the display is always one reading *)
(* of the file, and starts anew only when the file was changed.            *)
(***************************************************************************)
EXTENDS LogMonitor, SequenceTheorems, TLAPS

-----------------------------------------------------------------------------
(* Texts on the screen. *)

Letters == Text \cup {Restarting}

\* The text on the screen ends with str, after its k-th position, which is
\* where the display last started anew.
EndsWith(text, k, str) ==
    /\ text \in Seq(Letters) /\ str \in Seq(Text)
    /\ k \in Nat /\ Len(text) = k + Len(str)
    /\ k > 0 => text[k] = Restarting
    /\ \A i \in 1..Len(str) : text[k + i] = str[i]

\* A text that has another one at its beginning.
Begins(old, str) ==
    Len(old) <= Len(str) /\ \A i \in 1..Len(old) : str[i] = old[i]

LEMMA LastStartIs ==
    ASSUME NEW text, NEW k, NEW str, EndsWith(text, k, str)
    PROVE  LastStart(text) = k
<1>1. /\ text \in Seq(Letters) /\ str \in Seq(Text) /\ Len(text) \in Nat
      /\ k \in Nat /\ Len(str) \in Nat /\ Len(text) = k + Len(str)
      /\ DOMAIN text = 1..Len(text)
  BY DEF EndsWith
<1>2. \A i \in Starts(text) : i \in 1..k
  <2> SUFFICES ASSUME NEW i \in 1..Len(text), text[i] = Restarting, i > k
               PROVE  FALSE
    BY <1>1 DEF Starts
  <2>1. i - k \in 1..Len(str) /\ k + (i - k) = i
    BY <1>1
  <2>2. str[i - k] \in Text
    BY <1>1, <2>1, ElementOfSeq
  <2>3. text[i] = str[i - k]
    BY <2>1 DEF EndsWith
  <2> QED BY <2>2, <2>3, MonitorAssumption
<1>3. CASE k = 0
  <2>1. Starts(text) = {}
    BY <1>2, <1>3
  <2> QED BY <1>3, <2>1 DEF LastStart
<1>4. CASE k > 0
  <2>1. k \in Starts(text) /\ \A i \in Starts(text) : i \in Nat /\ k >= i
    BY <1>1, <1>2, <1>4 DEF Starts, EndsWith
  <2>2. \A m \in Starts(text) : (\A i \in Starts(text) : m >= i) => m = k
    BY <1>1, <2>1
  <2>3. Max(Starts(text)) = k
    BY <2>1, <2>2 DEF Max
  <2> QED BY <2>1, <2>3 DEF LastStart
<1> QED BY <1>1, <1>3, <1>4

LEMMA LastTextIs ==
    ASSUME NEW text, NEW k, NEW str, EndsWith(text, k, str)
    PROVE  Mid(text, LastStart(text) + 1) = str
<1>1. LastStart(text) = k
  BY LastStartIs
<1> DEFINE m == SubSeq(text, k + 1, Len(text))
<1>2. /\ text \in Seq(Letters) /\ str \in Seq(Text) /\ Len(text) \in Nat
      /\ k \in Nat /\ Len(str) \in Nat /\ Len(text) = k + Len(str)
  BY DEF EndsWith
<1>3. \A i \in (k + 1)..Len(text) : text[i] \in Letters
  BY <1>2, ElementOfSeq
<1>4. /\ m \in Seq(Letters) /\ Len(m) = Len(str)
      /\ \A i \in 1..Len(str) : m[i] = text[k + i]
  <2>1. /\ m \in Seq(Letters)
        /\ Len(m) = IF k + 1 <= Len(text) THEN Len(text) - (k + 1) + 1 ELSE 0
        /\ \A i \in 1 .. Len(text) - (k + 1) + 1 : m[i] = text[k + 1 + i - 1]
    BY <1>2, <1>3, SubSeqProperties
  <2>2. \A i \in 1..Len(str) : k + 1 + i - 1 = k + i
    BY <1>2
  <2> HIDE DEF m
  <2> QED BY <1>2, <2>1, <2>2
<1>5. str \in Seq(Letters)
  BY <1>2, SeqMonotonic DEF Letters
<1> HIDE DEF m
<1>6. m = str
  BY <1>4, <1>5, SeqEqual DEF EndsWith
<1> QED BY <1>1, <1>6 DEF Mid, m

\* The start of a longer text.
LEMMA Continuing ==
    ASSUME NEW old \in Seq(Text), NEW str \in Seq(Text)
    PROVE  Left(str, Len(old)) = old
             <=> /\ Len(old) <= Len(str)
                 /\ \A i \in 1..Len(old) : str[i] = old[i]
<1> DEFINE n == IF Len(old) > Len(str) THEN Len(str) ELSE Len(old)
           l == SubSeq(str, 1, n)
<1>1. Len(old) \in Nat /\ Len(str) \in Nat /\ n \in Nat /\ n <= Len(str)
  OBVIOUS
<1>2. \A i \in 1..n : str[i] \in Text
  BY <1>1, ElementOfSeq
<1>3. l \in Seq(Text) /\ Len(l) = n /\ \A i \in 1..n : l[i] = str[i]
  <2>1. /\ l \in Seq(Text) /\ Len(l) = IF 1 <= n THEN n - 1 + 1 ELSE 0
        /\ \A i \in 1 .. n - 1 + 1 : l[i] = str[1 + i - 1]
    BY <1>1, <1>2, SubSeqProperties
  <2>2. \A i \in 1..n : 1 + i - 1 = i
    BY <1>1
  <2> HIDE DEF l, n
  <2> QED BY <1>1, <2>1, <2>2
<1>4. Left(str, Len(old)) = l
  BY DEF Left
<1> HIDE DEF l
<1>5. ASSUME Len(old) <= Len(str), \A i \in 1..Len(old) : str[i] = old[i]
      PROVE  l = old
  BY <1>1, <1>3, <1>5, SeqEqual
<1>6. ASSUME l = old
      PROVE  Len(old) <= Len(str) /\ \A i \in 1..Len(old) : str[i] = old[i]
  BY <1>1, <1>3, <1>6
<1> QED BY <1>4, <1>5, <1>6

LEMMA Joined ==
    ASSUME NEW S, NEW s \in Seq(S), NEW t \in Seq(S), NEW u, u = s \o t
    PROVE  /\ u \in Seq(S) /\ Len(u) = Len(s) + Len(t)
           /\ \A i \in 1..Len(s) : u[i] = s[i]
           /\ \A i \in 1..Len(t) : u[Len(s) + i] = t[i]
<1>1. Len(s) \in Nat /\ Len(t) \in Nat
  OBVIOUS
<1>2. /\ s \o t \in Seq(S) /\ Len(s \o t) = Len(s) + Len(t)
      /\ \A i \in 1 .. Len(s) + Len(t) :
           (s \o t)[i] = IF i <= Len(s) THEN s[i] ELSE t[i - Len(s)]
  BY ConcatProperties
<1>3. ASSUME NEW i \in 1..Len(s) PROVE (s \o t)[i] = s[i]
  <2>1. i \in 1 .. Len(s) + Len(t) /\ i <= Len(s)
    BY <1>1
  <2> QED BY <1>2, <2>1
<1>4. ASSUME NEW i \in 1..Len(t) PROVE (s \o t)[Len(s) + i] = t[i]
  <2>1. /\ Len(s) + i \in 1 .. Len(s) + Len(t) /\ ~ (Len(s) + i <= Len(s))
        /\ (Len(s) + i) - Len(s) = i
    BY <1>1
  <2> QED BY <1>2, <2>1
<1> QED BY <1>2, <1>3, <1>4

LEMMA MidIs ==
    ASSUME NEW str \in Seq(Text), NEW n \in Nat, n <= Len(str)
    PROVE  /\ Mid(str, n + 1) \in Seq(Text)
           /\ Len(Mid(str, n + 1)) = Len(str) - n
           /\ \A i \in 1..(Len(str) - n) : Mid(str, n + 1)[i] = str[n + i]
<1> DEFINE m == SubSeq(str, n + 1, Len(str))
<1>1. Len(str) \in Nat
  OBVIOUS
<1>2. \A i \in (n + 1)..Len(str) : str[i] \in Text
  BY <1>1, ElementOfSeq
<1>3. /\ m \in Seq(Text)
      /\ Len(m) = IF n + 1 <= Len(str) THEN Len(str) - (n + 1) + 1 ELSE 0
      /\ \A i \in 1 .. Len(str) - (n + 1) + 1 : m[i] = str[n + 1 + i - 1]
  BY <1>1, <1>2, SubSeqProperties
<1>4. \A i \in 1..(Len(str) - n) : n + 1 + i - 1 = n + i
  BY <1>1
<1> HIDE DEF m
<1>5. m \in Seq(Text) /\ Len(m) = Len(str) - n
      /\ \A i \in 1..(Len(str) - n) : m[i] = str[n + i]
  BY <1>1, <1>3, <1>4
<1> QED BY <1>5 DEF Mid, m

\* What a continuation adds to the screen.
LEMMA ShowContinued ==
    ASSUME NEW text, NEW k, NEW old, EndsWith(text, k, old),
           NEW str \in Seq(Text), Begins(old, str)
    PROVE  /\ EndsWith(text \o Mid(str, Len(old) + 1), k, str)
           /\ Starts(text \o Mid(str, Len(old) + 1)) = Starts(text)
<1> DEFINE n == Len(old)
<1>1. /\ text \in Seq(Letters) /\ Len(text) \in Nat /\ k \in Nat
      /\ old \in Seq(Text) /\ n \in Nat /\ Len(str) \in Nat
      /\ Len(text) = k + n /\ n <= Len(str)
  BY DEF EndsWith, Begins
<1>2. PICK m : m = Mid(str, n + 1)
  OBVIOUS
<1>3. PICK new : new = text \o m
  OBVIOUS
<1>4. /\ m \in Seq(Text) /\ Len(m) = Len(str) - n
      /\ \A i \in 1..(Len(str) - n) : m[i] = str[n + i]
  BY <1>1, <1>2, MidIs
<1>5. /\ new \in Seq(Letters) /\ Len(new) = Len(text) + Len(m)
      /\ \A i \in 1..Len(text) : new[i] = text[i]
      /\ \A i \in 1..Len(m) : new[Len(text) + i] = m[i]
  <2>1. text \in Seq(Letters) /\ m \in Seq(Letters)
    BY <1>1, <1>4, SeqMonotonic DEF Letters
  <2> QED BY <1>3, <2>1, Joined
<1>6. Len(new) = k + Len(str) /\ Len(new) \in Nat
  BY <1>1, <1>4, <1>5
<1>7. \A i \in 1..Len(text) : new[i] = text[i]
  BY <1>1, <1>4, <1>5
<1>8. \A i \in 1..Len(str) : new[k + i] = str[i]
  <2> SUFFICES ASSUME NEW i \in 1..Len(str) PROVE new[k + i] = str[i]
    OBVIOUS
  <2>1. CASE i <= n
    <3>1. i \in 1..n /\ k + i \in 1..Len(text)
      BY <1>1, <2>1
    <3> QED BY <1>1, <1>7, <2>1, <3>1 DEF EndsWith, Begins
  <2>2. CASE i > n
    <3>a. i \in Nat /\ n \in Nat /\ Len(m) = Len(str) - n /\ i <= Len(str)
      BY <1>1, <1>4
    <3>b. i - n \in 1..Len(m)
      BY <1>1, <2>2, <3>a
    <3>1. PICK j \in 1..Len(m) : j = i - n
      BY <3>b
    <3>2. Len(text) + j = k + i /\ n + j = i /\ j \in 1..(Len(str) - n)
      BY <1>1, <1>4, <2>2, <3>1
    <3>3. new[Len(text) + j] = m[j]
      BY <1>5
    <3>4. m[j] = str[n + j]
      BY <1>4, <3>2
    <3> QED BY <1>1, <3>2, <3>3, <3>4
  <2> QED BY <1>1, <2>1, <2>2
<1>9. k > 0 => new[k] = Restarting
  BY <1>1, <1>7 DEF EndsWith
<1>10. EndsWith(new, k, str)
  BY <1>1, <1>5, <1>6, <1>8, <1>9 DEF EndsWith
<1>11. \A i \in (Len(text) + 1)..Len(new) : new[i] # Restarting
  <2> SUFFICES ASSUME NEW i \in (Len(text) + 1)..Len(new)
               PROVE  new[i] \in Text
    BY MonitorAssumption
  <2>1. i - Len(text) \in 1..Len(m) /\ Len(text) + (i - Len(text)) = i
    BY <1>1, <1>4, <1>5
  <2> QED BY <1>4, <1>5, <2>1, ElementOfSeq
<1>12. DOMAIN text = 1..Len(text) /\ DOMAIN new = 1..Len(new)
       /\ Len(text) <= Len(new)
  BY <1>1, <1>4, <1>5
<1>13. ASSUME NEW i \in 1..Len(new), new[i] = Restarting
       PROVE  i \in 1..Len(text) /\ text[i] = Restarting
  BY <1>1, <1>6, <1>7, <1>11, <1>13
<1>14. ASSUME NEW i \in 1..Len(text), text[i] = Restarting
       PROVE  i \in 1..Len(new) /\ new[i] = Restarting
  BY <1>1, <1>6, <1>7, <1>12, <1>14
<1>15. Starts(new) = Starts(text)
  BY <1>12, <1>13, <1>14 DEF Starts
<1> QED BY <1>2, <1>3, <1>10, <1>15

\* What is on the screen when the display has started anew.
LEMMA ShowAnew ==
    ASSUME NEW text, NEW k, NEW old, EndsWith(text, k, old),
           NEW str \in Seq(Text),
           NEW new, new = text \o <<Restarting>> \o Mid(str, 0 + 1)
    PROVE  EndsWith(new, Len(text) + 1, str)
<1> DEFINE m == Mid(str, 0 + 1)
           t == text \o <<Restarting>>
<1>1. /\ text \in Seq(Letters) /\ Len(text) \in Nat /\ Len(str) \in Nat
      /\ <<Restarting>> \in Seq(Letters) /\ Len(<<Restarting>>) = 1
      /\ <<Restarting>>[1] = Restarting
  BY DEF EndsWith, Letters
<1>2. /\ m \in Seq(Text) /\ Len(m) = Len(str)
      /\ \A i \in 1..Len(str) : m[i] = str[i]
  <2>1. /\ m \in Seq(Text) /\ Len(m) = Len(str) - 0
        /\ \A i \in 1..(Len(str) - 0) : m[i] = str[0 + i]
    BY <1>1, MidIs
  <2> HIDE DEF m
  <2>2. Len(str) - 0 = Len(str) /\ \A i \in 1..Len(str) : 0 + i = i
    BY <1>1
  <2> QED BY <2>1, <2>2
<1>3. m \in Seq(Letters)
  BY <1>2, SeqMonotonic DEF Letters
<1>4. /\ t \in Seq(Letters) /\ Len(t) = Len(text) + 1
      /\ t[Len(text) + 1] = Restarting
  <2>1. /\ t \in Seq(Letters) /\ Len(t) = Len(text) + Len(<<Restarting>>)
        /\ \A i \in 1 .. Len(text) + Len(<<Restarting>>) :
             t[i] = IF i <= Len(text) THEN text[i]
                                      ELSE <<Restarting>>[i - Len(text)]
    BY <1>1, ConcatProperties
  <2> HIDE DEF t
  <2>2. /\ Len(text) + 1 \in 1 .. Len(text) + 1
        /\ ~ (Len(text) + 1 <= Len(text)) /\ (Len(text) + 1) - Len(text) = 1
    BY <1>1
  <2> QED BY <1>1, <2>1, <2>2
<1>5. new = t \o m
  OBVIOUS
<1> HIDE DEF m, t
<1>6. /\ new \in Seq(Letters) /\ Len(new) = Len(t) + Len(m)
      /\ \A i \in 1..Len(t) : new[i] = t[i]
      /\ \A i \in 1..Len(m) : new[Len(t) + i] = m[i]
  <2>1. t \in Seq(Letters)
    BY <1>4
  <2> QED BY ONLY <1>3, <1>5, <2>1, Joined
<1>7. new[Len(text) + 1] = Restarting
  <2>1. Len(text) + 1 \in 1..Len(t)
    BY <1>1, <1>4
  <2> QED BY <1>4, <1>6, <2>1
<1>8. ASSUME NEW i \in 1..Len(str) PROVE new[Len(text) + 1 + i] = str[i]
  <2>1. i \in 1..Len(m) /\ Len(t) + i = Len(text) + 1 + i
    BY <1>1, <1>2, <1>4
  <2> QED BY <1>2, <1>6, <2>1
<1> QED BY <1>1, <1>2, <1>4, <1>6, <1>7, <1>8 DEF EndsWith

-----------------------------------------------------------------------------
(* The invariant: what the script remembers is what it displays, and while   *)
(* nothing but appending happened it is the beginning of the file.           *)

MonitorInv ==
    /\ file \in Seq(Text) /\ prev \in Seq(Text) /\ pos = Len(prev)
    /\ \E k : EndsWith(screen, k, prev)
    /\ appended => Begins(prev, file)

LEMMA ShowInv ==
    ASSUME MonitorInv, Show(file), UNCHANGED file
    PROVE  MonitorInv' /\ (Starts(screen') # Starts(screen) => ~appended)
<1>1. PICK k : EndsWith(screen, k, prev)
  BY DEF MonitorInv
<1>2. /\ file \in Seq(Text) /\ prev \in Seq(Text) /\ pos = Len(prev)
      /\ prev' = file /\ pos' = Len(file) /\ file' = file
  BY DEF MonitorInv, Show
<1>3. Begins(prev', file')
  BY <1>2 DEF Begins
<1>4. Continues(file) <=> Begins(prev, file)
  BY <1>2, Continuing DEF Continues, Begins
<1>5. /\ \E j : EndsWith(screen', j, file)
      /\ appended => Starts(screen') = Starts(screen)
  <2>1. CASE file = prev
    <3>1. screen' = screen
      BY <2>1 DEF Show
    <3> QED BY <1>1, <2>1, <3>1
  <2>2. CASE file # prev /\ Continues(file)
    <3>a. screen \o <<>> = screen
      BY <1>1, ConcatEmptySeq DEF EndsWith
    <3>1. screen' = screen \o Mid(file, Len(prev) + 1)
      BY <1>2, <2>2, <3>a DEF Show, Kept
    <3>2. Begins(prev, file) /\ Len(prev) \in Nat /\ Len(prev) <= Len(file)
      BY <1>2, <1>4, <2>2 DEF Begins
    <3>3. PICK new : new = screen'
      OBVIOUS
    <3>4. EndsWith(new, k, file) /\ Starts(new) = Starts(screen)
      BY <1>1, <1>2, <3>1, <3>2, <3>3, ShowContinued
    <3> QED BY <3>3, <3>4
  <2>3. CASE file # prev /\ ~Continues(file)
    <3>1. screen' = screen \o <<Restarting>> \o Mid(file, 0 + 1)
      BY <2>3 DEF Show, Kept
    <3>2. ~appended
      BY <1>4, <2>3 DEF MonitorInv
    <3> QED BY <1>1, <1>2, <3>1, <3>2, ShowAnew
  <2> QED BY <2>1, <2>2, <2>3
<1> QED BY <1>2, <1>3, <1>5 DEF MonitorInv

LEMMA MonitorStepInv ==
    ASSUME MonitorInv, MNext
    PROVE  MonitorInv' /\ (Starts(screen') # Starts(screen) => ~appended)
<1>1. CASE Open \/ Lock
  BY <1>1 DEF Open, Lock, owner, script, MonitorInv
<1>2. CASE AtEnd
  <2>1. CASE file = <<>>
    BY <1>2, <2>1, ShowInv DEF AtEnd, owner
  <2>2. CASE file # <<>>
    BY <1>2, <2>2 DEF AtEnd, owner, MonitorInv
  <2> QED BY <2>1, <2>2
<1>3. CASE ReadAll
  <2>1. CASE file # <<>>
    BY <1>3, <2>1, ShowInv DEF ReadAll, owner
  <2>2. CASE file = <<>>
    BY <1>3, <2>2 DEF ReadAll, owner, MonitorInv
  <2> QED BY <2>1, <2>2
<1>4. ASSUME NEW c \in Text, Extend(c)
      PROVE  MonitorInv' /\ (Starts(screen') # Starts(screen) => ~appended)
  <2>1. file' = Append(file, c) /\ UNCHANGED <<pos, prev, screen, appended>>
    BY <1>4 DEF Extend, script
  <2>2. file \in Seq(Text) /\ prev \in Seq(Text)
    BY DEF MonitorInv
  <2>3. /\ file' \in Seq(Text) /\ Len(file') = Len(file) + 1
        /\ \A i \in 1..Len(file) : file'[i] = file[i]
    BY <2>1, <2>2, AppendProperties
  <2>4. Begins(prev, file) => Begins(prev, file')
    BY <2>2, <2>3 DEF Begins
  <2>5. Begins(prev, file') => Begins(prev', file')
    BY <2>1
  <2> QED BY <2>1, <2>3, <2>4, <2>5 DEF MonitorInv
<1>5. CASE Rewrite \/ Delete
  <2>a. file' = <<>> \/ \E c \in Text : file' = <<c>>
    BY <1>5 DEF Rewrite, Delete
  <2>b. <<>> \in Seq(Text) /\ \A c \in Text : <<c>> \in Seq(Text)
    OBVIOUS
  <2>1. file' \in Seq(Text)
    BY <2>a, <2>b
  <2>2. ~appended' /\ UNCHANGED <<pos, prev, screen>>
    BY <1>5 DEF Rewrite, Delete, script
  <2> QED BY <2>1, <2>2 DEF MonitorInv
<1> QED BY <1>1, <1>2, <1>3, <1>4, <1>5 DEF MNext, MonitorStep, Owner

LEMMA MonitorStarts == MInit => MonitorInv
<1> SUFFICES ASSUME MInit PROVE MonitorInv
  OBVIOUS
<1>1. /\ file = <<>> /\ prev = <<>> /\ screen = <<>> /\ pos = 0
      /\ Len(<<>>) = 0 /\ <<>> \in Seq(Text) /\ <<>> \in Seq(Letters)
  BY DEF MInit
<1>2. EndsWith(<<>>, 0, <<>>)
  BY <1>1 DEF EndsWith
<1> QED BY <1>1, <1>2 DEF MonitorInv, Begins

\* The display is one reading of the file, from its beginning, nothing twice and
\* nothing left out, whatever the owner did between the readings
\* (tail.wsf:115-125).
THEOREM DisplayIsAlwaysReading == MSpec => []DisplayIsReading
<1>1. MonitorInv => DisplayIsReading
  BY LastTextIs DEF MonitorInv, DisplayIsReading, Displayed
<1>2. MonitorInv /\ [MNext]_mVars => MonitorInv'
  <2>1. ASSUME MonitorInv, UNCHANGED mVars PROVE MonitorInv'
    BY <2>1 DEF MonitorInv, mVars, owner, script
  <2> QED BY <2>1, MonitorStepInv
<1> QED BY <1>1, <1>2, MonitorStarts, PTL DEF MSpec

\* The display starts anew only when the file was rewritten or deleted since the
\* reading before, never for what was appended to it (tail.wsf:36, 117-119).
THEOREM RestartsAreForChanges == MSpec => RestartsForChange
<1>1. MonitorInv /\ [MNext]_mVars => MonitorInv'
  <2>1. ASSUME MonitorInv, UNCHANGED mVars PROVE MonitorInv'
    BY <2>1 DEF MonitorInv, mVars, owner, script
  <2> QED BY <2>1, MonitorStepInv
<1>2. MonitorInv /\ [MNext]_mVars
        => [Starts(screen') # Starts(screen) => ~appended]_mVars
  BY MonitorStepInv
<1> QED BY <1>1, <1>2, MonitorStarts, PTL DEF MSpec, RestartsForChange
=============================================================================
