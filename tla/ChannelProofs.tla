---------------------------- MODULE ChannelProofs ----------------------------
(***************************************************************************)
(* Proofs about what the agent keeps for a browser: its remote shells      *)
(* (TerminalSession) and its file sessions (FileSession).                  *)
(***************************************************************************)
EXTENDS FileSession, TerminalSession, FiniteSetTheorems, TLAPS

(***************************************************************************)
(* The remote shells.  Between the close of the older session and the      *)
(* entry of the new one nothing is held, so two goroutines may be opening  *)
(* an id at once; it is contested then.  The others stay free until the    *)
(* one goroutine that opens them enters its shell, so nothing of theirs is *)
(* overwritten.  After CloseAll the ids that are left are those the reader *)
(* is about to close.                                                      *)
(***************************************************************************)

\* Goroutines that open one id at the same time contest it.
OneOpener ==
    \A t, o \in Thread : t # o /\ thread[t] \in Opening /\ thread[o] \in Opening
                         /\ thread[t].key = thread[o].key => thread[t].key \in contested

\* Once the older session is closed, the id stays free until the new shell enters.
IdIsFree ==
    \A t \in Thread : thread[t] \in Opening /\ thread[t].do # "replace" /\ thread[t].key \notin contested =>
       sessions[thread[t].key] = 0

\* A goroutine enters the shell it has started itself, under that shell's id; it
\* is no session before.
EntersItsShell ==
    \A t \in Thread : thread[t] \in Opening /\ thread[t].do = "enter" =>
       /\ thread[t].shell \in DOMAIN shells
       /\ shells[thread[t].shell].key = thread[t].key /\ shells[thread[t].shell].by = t
       /\ shells[thread[t].shell].state = "open"
       /\ \A k \in Key : sessions[k] # thread[t].shell

\* A session is a shell of its id that nobody has closed.
SessionIsOpen ==
    \A k \in Key : sessions[k] # 0 =>
       shells[sessions[k]].key = k /\ shells[sessions[k]].state = "open"

\* onClose was not called for a shell that is not closed.
NotReported == \A h \in DOMAIN shells : shells[h].state # "closed" => shells[h].reports = 0

\* Sessions that outlive CloseAll are in the hands of the reader.
ShutCloses ==
    shut => \A k \in Key : sessions[k] # 0 => thread[Reader] \in Closing /\ k \in thread[Reader].keys

TerminalParts ==
    /\ OneOpener
    /\ IdIsFree
    /\ EntersItsShell
    /\ SessionIsOpen
    /\ NotReported
    /\ ShutCloses

TerminalIndInv == TerminalInv /\ TerminalParts

\* A sequence keeps its elements' type and its length when an element is replaced.
LEMMA ReplaceElement ==
    ASSUME NEW S, NEW s \in Seq(S), NEW i \in DOMAIN s, NEW v \in S
    PROVE  /\ [s EXCEPT ![i] = v] \in Seq(S) /\ Len([s EXCEPT ![i] = v]) = Len(s)
           /\ DOMAIN [s EXCEPT ![i] = v] = DOMAIN s
           /\ \A j \in DOMAIN s : [s EXCEPT ![i] = v][j] = IF j = i THEN v ELSE s[j]
OBVIOUS

\* The parts of the invariant that steps use.
LEMMA TerminalTypes ==
    ASSUME TerminalIndInv
    PROVE  /\ sessions \in [Key -> 0..Len(shells)] /\ shells \in Seq(Shell)
           /\ thread \in [Thread -> Opening \cup Closing \cup {Outside}]
           /\ DOMAIN shells = 1..Len(shells) /\ Len(shells) \in Nat
           /\ Outside \notin Opening \cup Closing
BY TerminalAssumption DEF TerminalIndInv, TerminalInv, TerminalTypeOK

\* What a goroutine does, by the type of its work.
LEMMA DoesFacts ==
    ASSUME NEW t, thread[t] \in Opening \cup Closing \cup {Outside}
    PROVE  /\ \A what \in {"replace", "start", "enter"} :
                Does(t, what) <=> thread[t] \in Opening /\ thread[t].do = what
           /\ Does(t, "close") <=> thread[t] \in Closing
BY TerminalAssumption DEF Does, Opening, Closing

\* Opening and closing are different work.
LEMMA WorkIsDistinct == Opening \cap Closing = {} /\ Reader \in Thread /\ Callback \in Thread
BY DEF Opening, Closing, Thread

\* What the steps of the world around the manager leave alone.
WorldOK ==
    /\ shut \in BOOLEAN /\ gone \subseteq Owner /\ contested \subseteq Key
    /\ channel \in [Channel -> {"none", "ready", "opening", "live", "closing", "closed"}]
    /\ peer \in [Owner -> {"none", "up", "closing"}]

\* NoLostShell by the type of the work.
LEMMA NoLostParts ==
    ASSUME thread \in [Thread -> Opening \cup Closing \cup {Outside}]
    PROVE  NoLostShell <=>
             \A h \in DOMAIN shells : shells[h].state = "open" =>
               \/ \E t \in Thread : thread[t] \in Opening /\ thread[t].do = "enter" /\ thread[t].shell = h
               \/ sessions[shells[h].key] = h /\ (shut => thread[Reader] # Outside)
               \/ shells[h].key \in contested
BY DoesFacts, WorkIsDistinct DEF NoLostShell, Free

\* Nothing runs at first.
LEMMA TerminalStarts == TerminalInit => TerminalIndInv
<1> SUFFICES ASSUME TerminalInit PROVE TerminalIndInv
  OBVIOUS
<1>1. DOMAIN shells = {} /\ Len(shells) = 0 /\ shells \in Seq(Shell) BY DEF TerminalInit
<1>2. \A t \in Thread : thread[t] \notin Opening BY TerminalAssumption DEF TerminalInit
<1>3. TerminalTypeOK
  <2>1. sessions \in [Key -> 0..Len(shells)] BY <1>1 DEF TerminalInit
  <2>2. thread \in [Thread -> Opening \cup Closing \cup {Outside}] BY DEF TerminalInit
  <2>3. /\ channel \in [Channel -> {"none", "ready", "opening", "live", "closing", "closed"}]
        /\ peer \in [Owner -> {"none", "up", "closing"}]
        /\ shut \in BOOLEAN /\ gone \subseteq Owner /\ contested \subseteq Key
    BY DEF TerminalInit
  <2>4. QED BY <1>1, <2>1, <2>2, <2>3 DEF TerminalTypeOK
<1>4. NoLostShell BY <1>1 DEF NoLostShell
<1>5. TerminalParts
  BY <1>1, <1>2 DEF TerminalInit, TerminalParts, OneOpener, IdIsFree, EntersItsShell, SessionIsOpen,
     NotReported, ShutCloses
<1>6. QED BY <1>3, <1>4, <1>5 DEF TerminalIndInv, TerminalInv

\* Goroutine t turns to work w, which touches no session.
TurnsTo(t, w) ==
    /\ thread' = [thread EXCEPT ![t] = w]
    /\ UNCHANGED <<sessions, shells>>
    /\ WorldOK'
    /\ contested \subseteq contested'
    /\ w \in Opening => /\ w.do = "replace"
                       /\ \A o \in Thread : thread[o] \in Opening /\ thread[o].key = w.key =>
                                           w.key \in contested'
    /\ ~(thread[t] \in Opening /\ thread[t].do = "enter")
    /\ shut' => \A k \in Key : sessions[k] # 0 => thread'[Reader] \in Closing /\ k \in thread'[Reader].keys

\* Such a step keeps the invariant.
LEMMA TurnKeeps ==
    ASSUME TerminalIndInv, NEW t \in Thread, NEW w \in Opening \cup Closing \cup {Outside}, TurnsTo(t, w)
    PROVE  TerminalIndInv'
<1> USE TerminalTypes
<1>1. /\ thread' \in [Thread -> Opening \cup Closing \cup {Outside}]
      /\ thread'[t] = w /\ \A o \in Thread \ {t} : thread'[o] = thread[o]
      /\ sessions' = sessions /\ shells' = shells
  BY DEF TurnsTo
<1>2. TerminalTypeOK' BY <1>1 DEF TurnsTo, WorldOK, TerminalTypeOK
<1>3. OneOpener' BY <1>1 DEF TurnsTo, TerminalIndInv, TerminalParts, OneOpener
<1>4. IdIsFree' BY <1>1 DEF TurnsTo, TerminalIndInv, TerminalParts, IdIsFree
<1>5. EntersItsShell' BY <1>1 DEF TurnsTo, TerminalIndInv, TerminalParts, EntersItsShell
<1>6. SessionIsOpen' /\ NotReported'
  BY <1>1 DEF TerminalIndInv, TerminalParts, SessionIsOpen, NotReported
<1>7. ShutCloses' BY <1>1 DEF TurnsTo, ShutCloses
<1>8. NoLostShell'
  <2> SUFFICES ASSUME NEW h \in DOMAIN shells, shells[h].state = "open"
               PROVE  \/ \E o \in Thread : Does(o, "enter")' /\ thread'[o].shell = h
                      \/ sessions'[shells'[h].key] = h /\ (shut' => ~Free(Reader)')
                      \/ shells'[h].key \in contested'
    BY <1>1 DEF NoLostShell
  <2>1. CASE \E o \in Thread : thread[o] \in Opening /\ thread[o].do = "enter" /\ thread[o].shell = h
    <3>1. PICK o \in Thread : thread[o] \in Opening /\ thread[o].do = "enter" /\ thread[o].shell = h
      BY <2>1
    <3>2. o # t BY <3>1 DEF TurnsTo
    <3>3. thread'[o] = thread[o] BY <1>1, <3>2
    <3>4. thread'[o] # Outside /\ thread'[o].do = "enter" /\ thread'[o].shell = h BY <3>1, <3>3
    <3>5. QED BY <3>4 DEF Does
  <2>2. CASE sessions[shells[h].key] = h
    <3>1. shells[h].key \in Key /\ h # 0
      <4>1. shells[h] \in Shell /\ h \in 1..Len(shells) OBVIOUS
      <4>2. QED BY <4>1 DEF Shell
    <3>2. shut' => thread'[Reader] # Outside BY <2>2, <3>1 DEF TurnsTo
    <3>3. QED BY <1>1, <2>2, <3>2 DEF Free
  <2>3. CASE shells[h].key \in contested BY <1>1, <2>3 DEF TurnsTo
  <2>4. QED BY <2>1, <2>2, <2>3, NoLostParts DEF TerminalIndInv, TerminalInv
<1>9. QED
  BY <1>2, <1>3, <1>4, <1>5, <1>6, <1>7, <1>8 DEF TerminalIndInv, TerminalInv, TerminalParts

\* The sessions of the ids K are closed, whether there are any or not; shells
\* may end or be reported.
ClosesIds(K) ==
    /\ shells' \in Seq(Shell) /\ Len(shells') = Len(shells)
    /\ \A h \in DOMAIN shells :
         /\ shells'[h].key = shells[h].key /\ shells'[h].by = shells[h].by
         /\ shells'[h].state = "open" <=> shells[h].state = "open" /\ \A k \in K : sessions[k] # h
    /\ NotReported'
    /\ sessions' \in [Key -> 0..Len(shells)]
    /\ \A k \in Key : sessions'[k] = IF k \in K THEN 0 ELSE sessions[k]

\* No goroutine does anything but start after the close, or close the next id.
WorkGoesOn(K) ==
    /\ thread' \in [Thread -> Opening \cup Closing \cup {Outside}]
    /\ \A o \in Thread :
         \/ thread'[o] = thread[o]
         \/ /\ thread[o] \in Opening /\ thread[o].do = "replace" /\ thread[o].key \in K
            /\ thread'[o] \in Opening /\ thread'[o].do = "start" /\ thread'[o].key = thread[o].key
         \/ /\ thread[o] \in Closing /\ thread'[o] \in Closing
            /\ thread[o].keys \subseteq thread'[o].keys \cup K
    /\ shut' = shut /\ contested' = contested

\* Sessions can be closed by anybody at any time.
LEMMA CloseKeeps ==
    ASSUME TerminalIndInv, NEW K \in SUBSET Key, ClosesIds(K), WorkGoesOn(K), WorldOK'
    PROVE  TerminalIndInv'
<1> USE TerminalTypes, WorkIsDistinct
<1>1. DOMAIN shells' = DOMAIN shells /\ DOMAIN shells' = 1..Len(shells') BY DEF ClosesIds
<1>2. TerminalTypeOK' BY <1>1 DEF ClosesIds, WorkGoesOn, WorldOK, TerminalTypeOK
<1>o. ASSUME NEW o \in Thread, thread'[o] \in Opening
      PROVE  /\ thread[o] \in Opening /\ thread[o].key = thread'[o].key /\ thread[o].key \in Key
             /\ thread'[o] = thread[o] \/ (thread'[o].do = "start" /\ thread[o].key \in K)
  BY <1>o DEF WorkGoesOn, Opening
<1>3. OneOpener'
  <2> SUFFICES ASSUME NEW t \in Thread, NEW o \in Thread, t # o, thread'[t] \in Opening,
                      thread'[o] \in Opening, thread'[t].key = thread'[o].key
               PROVE  thread'[t].key \in contested'
    BY DEF OneOpener
  <2>1. /\ thread[t] \in Opening /\ thread[t].key = thread'[t].key
        /\ thread[o] \in Opening /\ thread[o].key = thread'[o].key
    BY <1>o
  <2>2. QED BY <2>1 DEF TerminalIndInv, TerminalParts, OneOpener, WorkGoesOn
<1>4. IdIsFree'
  <2> SUFFICES ASSUME NEW o \in Thread, thread'[o] \in Opening, thread'[o].do # "replace",
                      thread'[o].key \notin contested'
               PROVE  sessions'[thread'[o].key] = 0
    BY DEF IdIsFree
  <2>1. CASE thread'[o] = thread[o]
    <3>1. thread[o].key \notin contested /\ thread[o].key \in Key BY <1>o, <2>1 DEF WorkGoesOn
    <3>2. QED BY <2>1, <3>1 DEF TerminalIndInv, TerminalParts, IdIsFree, ClosesIds
  <2>2. CASE thread[o].key \in K BY <1>o, <2>2 DEF ClosesIds
  <2>3. QED BY <1>o, <2>1, <2>2
<1>5. EntersItsShell'
  <2> SUFFICES ASSUME NEW o \in Thread, thread'[o] \in Opening, thread'[o].do = "enter"
               PROVE  /\ thread'[o].shell \in DOMAIN shells'
                      /\ shells'[thread'[o].shell].key = thread'[o].key
                      /\ shells'[thread'[o].shell].by = o
                      /\ shells'[thread'[o].shell].state = "open"
                      /\ \A k \in Key : sessions'[k] # thread'[o].shell
    BY DEF EntersItsShell
  <2>1. thread'[o] = thread[o] /\ thread[o].key \in Key BY <1>o
  <2>2. PICK h \in DOMAIN shells :
          /\ h = thread[o].shell /\ h # 0 /\ shells[h].key = thread[o].key /\ shells[h].by = o
          /\ shells[h].state = "open" /\ \A k \in Key : sessions[k] # h
    BY <2>1 DEF TerminalIndInv, TerminalParts, EntersItsShell
  <2>3. /\ shells'[h].key = shells[h].key /\ shells'[h].by = o /\ shells'[h].state = "open"
        /\ \A k \in Key : sessions'[k] # h
    BY <2>2 DEF ClosesIds
  <2>4. QED BY <1>1, <2>1, <2>2, <2>3
<1>6. SessionIsOpen'
  <2> SUFFICES ASSUME NEW k \in Key, sessions'[k] # 0
               PROVE  shells'[sessions'[k]].key = k /\ shells'[sessions'[k]].state = "open"
    BY DEF SessionIsOpen
  <2>1. k \notin K /\ sessions'[k] = sessions[k] /\ sessions[k] \in DOMAIN shells BY DEF ClosesIds
  <2>2. shells[sessions[k]].key = k /\ shells[sessions[k]].state = "open"
    BY <2>1 DEF TerminalIndInv, TerminalParts, SessionIsOpen
  <2>3. ASSUME NEW j \in K PROVE sessions[j] # sessions[k]
    BY <2>1, <2>2 DEF TerminalIndInv, TerminalParts, SessionIsOpen
  <2>4. QED BY <2>1, <2>2, <2>3 DEF ClosesIds
<1>7. NotReported' BY DEF ClosesIds
<1>8. ShutCloses'
  <2> SUFFICES ASSUME shut', NEW k \in Key, sessions'[k] # 0
               PROVE  thread'[Reader] \in Closing /\ k \in thread'[Reader].keys
    BY DEF ShutCloses
  <2>1. shut /\ sessions[k] # 0 /\ k \notin K BY DEF ClosesIds, WorkGoesOn
  <2>2. thread[Reader] \in Closing /\ k \in thread[Reader].keys
    BY <2>1 DEF TerminalIndInv, TerminalParts, ShutCloses
  <2>3. QED BY <2>1, <2>2 DEF WorkGoesOn
<1>9. NoLostShell'
  <2> SUFFICES ASSUME NEW h \in DOMAIN shells, shells'[h].state = "open"
               PROVE  \/ \E o \in Thread : Does(o, "enter")' /\ thread'[o].shell = h
                      \/ sessions'[shells'[h].key] = h /\ (shut' => ~Free(Reader)')
                      \/ shells'[h].key \in contested'
    BY <1>1 DEF NoLostShell
  <2>1. /\ shells[h].state = "open" /\ \A k \in K : sessions[k] # h
        /\ shells'[h].key = shells[h].key /\ h # 0 /\ shells[h].key \in Key
    <3>1. shells[h] \in Shell /\ h \in 1..Len(shells) OBVIOUS
    <3>2. QED BY <3>1 DEF ClosesIds, Shell
  <2>2. CASE \E o \in Thread : thread[o] \in Opening /\ thread[o].do = "enter" /\ thread[o].shell = h
    <3>1. PICK o \in Thread : thread[o] \in Opening /\ thread[o].do = "enter" /\ thread[o].shell = h
      BY <2>2
    <3>2. thread'[o] = thread[o] BY <3>1 DEF WorkGoesOn
    <3>3. thread'[o] # Outside /\ thread'[o].do = "enter" /\ thread'[o].shell = h BY <3>1, <3>2
    <3>4. QED BY <3>3 DEF Does
  <2>3. CASE sessions[shells[h].key] = h
    <3>1. sessions'[shells[h].key] = h BY <2>1, <2>3 DEF ClosesIds
    <3>2. ASSUME shut' PROVE thread'[Reader] # Outside
      BY <1>8, <2>1, <3>1, <3>2 DEF ShutCloses
    <3>3. QED BY <2>1, <3>1, <3>2 DEF Free
  <2>4. CASE shells[h].key \in contested BY <2>1, <2>4 DEF WorkGoesOn
  <2>5. QED BY <2>1, <2>2, <2>3, <2>4, NoLostParts DEF TerminalIndInv, TerminalInv
<1>10. QED
  BY <1>2, <1>3, <1>4, <1>5, <1>6, <1>7, <1>8, <1>9 DEF TerminalIndInv, TerminalInv, TerminalParts

\* Shell h becomes v.
ShellBecomes(h, v) ==
    /\ shells' = [shells EXCEPT ![h] = v]
    /\ v \in Shell /\ v.key = shells[h].key /\ v.by = shells[h].by
    /\ v.state # "closed" => v.reports = 0

\* A shell is changed in state, reading and reports only.
LEMMA ShellChanges ==
    ASSUME TerminalIndInv, NEW h \in DOMAIN shells, NEW v, ShellBecomes(h, v)
    PROVE  /\ shells' \in Seq(Shell) /\ Len(shells') = Len(shells) /\ DOMAIN shells' = DOMAIN shells
           /\ shells'[h].key = shells[h].key /\ shells'[h].by = shells[h].by /\ shells'[h] = v
           /\ \A i \in DOMAIN shells : i # h => shells'[i] = shells[i]
           /\ NotReported'
<1>1. shells \in Seq(Shell) /\ v \in Shell BY TerminalTypes DEF ShellBecomes
<1>3. /\ shells' \in Seq(Shell) /\ Len(shells') = Len(shells) /\ DOMAIN shells' = DOMAIN shells
      /\ \A j \in DOMAIN shells : shells'[j] = IF j = h THEN v ELSE shells[j]
  BY <1>1, ReplaceElement DEF ShellBecomes
<1>4. NotReported' BY <1>3 DEF TerminalIndInv, TerminalParts, NotReported, ShellBecomes
<1>5. QED BY <1>3, <1>4 DEF ShellBecomes

\* closeSession, called for whatever session the id has.
LEMMA CloseSessionCloses ==
    ASSUME TerminalIndInv, NEW k \in Key, CloseSession(k, 0)
    PROVE  ClosesIds({k})
<1> USE TerminalTypes
<1>1. CASE sessions[k] = 0
  <2>1. shells' = shells /\ sessions' = sessions BY <1>1 DEF CloseSession, IsExpected
  <2>2. NotReported' BY <2>1 DEF TerminalIndInv, TerminalParts, NotReported
  <2>3. QED BY <1>1, <2>1, <2>2 DEF ClosesIds
<1>2. CASE sessions[k] # 0
  <2>1. PICK h \in DOMAIN shells :
          sessions[k] = h /\ shells[h].key = k /\ shells[h].state = "open" /\ shells[h].reports = 0
    BY <1>2 DEF TerminalIndInv, TerminalParts, SessionIsOpen, NotReported
  <2>2. shells' = [shells EXCEPT ![h].state = "closing"] /\ sessions' = [sessions EXCEPT ![k] = 0]
    BY <1>2, <2>1 DEF CloseSession, IsExpected, Forget
  <2>3. shells[h] \in Shell BY <2>1
  <2>4. PICK v : v = [shells[h] EXCEPT !.state = "closing"] OBVIOUS
  <2>5. /\ v \in Shell /\ v.key = shells[h].key /\ v.by = shells[h].by
        /\ v.state = "closing" /\ v.reports = 0
    BY <2>1, <2>3, <2>4 DEF Shell
  <2>6. shells' = [shells EXCEPT ![h] = v] BY <2>2, <2>4
  <2>7. ShellBecomes(h, v) BY <2>5, <2>6 DEF ShellBecomes
  <2>8. sessions' \in [Key -> 0..Len(shells)] BY <2>2
  <2>9. \A j \in Key : sessions'[j] = IF j \in {k} THEN 0 ELSE sessions[j] BY <2>2
  <2>10. /\ shells' \in Seq(Shell) /\ Len(shells') = Len(shells) /\ shells'[h] = v
         /\ \A i \in DOMAIN shells : i # h => shells'[i] = shells[i]
         /\ NotReported'
    BY <2>7, ShellChanges
  <2>11. ASSUME NEW i \in DOMAIN shells
         PROVE  /\ shells'[i].key = shells[i].key /\ shells'[i].by = shells[i].by
                /\ shells'[i].state = "open" <=> shells[i].state = "open" /\ \A j \in {k} : sessions[j] # i
    BY <2>1, <2>5, <2>10
  <2>12. QED BY <2>8, <2>9, <2>10, <2>11 DEF ClosesIds
<1>3. QED BY <1>1, <1>2

\* terminal.Close and onClose.
LEMMA FinishCloseKeeps ==
    ASSUME TerminalIndInv, NEW h \in DOMAIN shells, FinishClose(h)
    PROVE  TerminalIndInv'
<1> USE TerminalTypes
<1>1. shells[h] \in Shell /\ shells[h].state = "closing" /\ shells[h].reports = 0
  BY DEF FinishClose, TerminalIndInv, TerminalParts, NotReported
<1>2. PICK v : v = [shells[h] EXCEPT !.state = "closed", !.reports = 1] OBVIOUS
<1>3. v \in Shell /\ v.key = shells[h].key /\ v.by = shells[h].by /\ v.state = "closed"
  <2>1. 1 \in 0..1 OBVIOUS
  <2>2. v \in Shell BY <1>1, <1>2, <2>1 DEF Shell
  <2>3. QED BY <1>1, <1>2, <2>2 DEF Shell
<1>4. shells' = [shells EXCEPT ![h] = v]
  <2>1. shells' = [shells EXCEPT ![h] = [shells[h] EXCEPT !.state = "closed", !.reports = @ + 1]]
    BY DEF FinishClose
  <2>2. [shells[h] EXCEPT !.state = "closed", !.reports = @ + 1] = v BY <1>1, <1>2 DEF Shell
  <2>3. QED BY <2>1, <2>2
<1>5. ShellBecomes(h, v) BY <1>3, <1>4 DEF ShellBecomes
<1>6. sessions' = sessions /\ thread' = thread /\ shut' = shut /\ contested' = contested
  BY DEF FinishClose
<1>7. ClosesIds({}) BY <1>1, <1>3, <1>5, <1>6, ShellChanges DEF ClosesIds
<1>8. WorkGoesOn({}) BY <1>6 DEF WorkGoesOn
<1>9. WorldOK'
  BY DEF FinishClose, ChannelsAfter, WorldOK, TerminalIndInv, TerminalInv, TerminalTypeOK
<1>10. QED BY <1>7, <1>8, <1>9, CloseKeeps

\* The reading goroutine ends, and closes the session if it is still its own.
LEMMA ReadEndsKeeps ==
    ASSUME TerminalIndInv, NEW h \in DOMAIN shells, ReadEnds(h)
    PROVE  TerminalIndInv'
<1> USE TerminalTypes
<1>1. PICK k \in Key : k = shells[h].key /\ shells[h] \in Shell /\ h # 0
  <2>1. shells[h] \in Shell /\ h \in 1..Len(shells) OBVIOUS
  <2>2. QED BY <2>1 DEF Shell
<1>2. WorkGoesOn({}) /\ WorkGoesOn({k}) BY DEF ReadEnds, WorkGoesOn
<1>3. WorldOK' BY DEF ReadEnds, WorldOK, TerminalIndInv, TerminalInv, TerminalTypeOK
<1>4. shells[h].state # "closed" => shells[h].reports = 0
  BY DEF TerminalIndInv, TerminalParts, NotReported
<1>5. CASE IsExpected(k, h)
  <2>1. sessions[k] = h BY <1>1, <1>5 DEF IsExpected
  <2>2. shells[h].state = "open"
    BY <1>1, <2>1 DEF TerminalIndInv, TerminalParts, SessionIsOpen
  <2>3. /\ shells' = [shells EXCEPT ![h].state = "closing", ![h].reading = FALSE]
        /\ sessions' = [sessions EXCEPT ![k] = 0]
    BY <1>1, <1>5, <2>1 DEF ReadEnds, Forget
  <2>4. PICK v : v = [shells[h] EXCEPT !.state = "closing", !.reading = FALSE] OBVIOUS
  <2>5. /\ v \in Shell /\ v.key = shells[h].key /\ v.by = shells[h].by
        /\ v.state = "closing" /\ v.reports = 0
    BY <1>1, <1>4, <2>2, <2>4 DEF Shell
  <2>6. shells' = [shells EXCEPT ![h] = v] BY <2>3, <2>4
  <2>7. ShellBecomes(h, v) BY <2>5, <2>6 DEF ShellBecomes
  <2>8. sessions' \in [Key -> 0..Len(shells)] BY <2>3
  <2>a. \A j \in Key : sessions'[j] = IF j \in {k} THEN 0 ELSE sessions[j] BY <2>3
  <2>b. /\ shells' \in Seq(Shell) /\ Len(shells') = Len(shells) /\ shells'[h] = v
        /\ \A i \in DOMAIN shells : i # h => shells'[i] = shells[i]
        /\ NotReported'
    BY <2>7, ShellChanges
  <2>c. ASSUME NEW i \in DOMAIN shells
        PROVE  /\ shells'[i].key = shells[i].key /\ shells'[i].by = shells[i].by
               /\ shells'[i].state = "open" <=> shells[i].state = "open" /\ \A j \in {k} : sessions[j] # i
    BY <2>1, <2>5, <2>b
  <2>9. ClosesIds({k}) BY <2>8, <2>a, <2>b, <2>c DEF ClosesIds
  <2>10. QED BY <1>2, <1>3, <2>9, CloseKeeps
<1>6. CASE ~IsExpected(k, h)
  <2>1. shells' = [shells EXCEPT ![h].reading = FALSE] /\ sessions' = sessions
    BY <1>1, <1>6 DEF ReadEnds
  <2>2. PICK v : v = [shells[h] EXCEPT !.reading = FALSE] OBVIOUS
  <2>3. /\ v \in Shell /\ v.key = shells[h].key /\ v.by = shells[h].by /\ v.state = shells[h].state
        /\ v.reports = shells[h].reports
    BY <1>1, <2>2 DEF Shell
  <2>4. shells' = [shells EXCEPT ![h] = v] BY <2>1, <2>2
  <2>5. ShellBecomes(h, v) BY <1>4, <2>3, <2>4 DEF ShellBecomes
  <2>6. ClosesIds({}) BY <2>1, <2>3, <2>5, ShellChanges DEF ClosesIds
  <2>7. QED BY <1>2, <1>3, <2>6, CloseKeeps
<1>7. QED BY <1>5, <1>6

\* A goroutine that opens, by its type.
LEMMA OpeningFields ==
    ASSUME NEW w \in Opening
    PROVE  /\ w.key \in Key /\ w.shell \in 0..MaxShells
           /\ [w EXCEPT !.do = "start"] \in Opening
           /\ [w EXCEPT !.do = "start"].do = "start" /\ [w EXCEPT !.do = "start"].key = w.key
           /\ \A h \in 0..MaxShells :
                /\ [w EXCEPT !.do = "enter", !.shell = h] \in Opening
                /\ [w EXCEPT !.do = "enter", !.shell = h].do = "enter"
                /\ [w EXCEPT !.do = "enter", !.shell = h].key = w.key
                /\ [w EXCEPT !.do = "enter", !.shell = h].shell = h
BY DEF Opening

\* A goroutine that closes, by its type.
LEMMA ClosingFields ==
    ASSUME NEW w \in Closing
    PROVE  /\ w.keys \in SUBSET Key /\ w.revoke \in SUBSET Owner
           /\ \A k \in w.keys : /\ [w EXCEPT !.keys = @ \ {k}] \in Closing
                                /\ [w EXCEPT !.keys = @ \ {k}].keys = w.keys \ {k}
BY DEF Closing

\* open closes the older session of its id.
LEMMA ReplaceKeeps ==
    ASSUME TerminalIndInv, NEW t \in Thread, Replace(t)
    PROVE  TerminalIndInv'
<1> USE TerminalTypes
<1>1. thread[t] \in Opening /\ thread[t].do = "replace" BY DoesFacts DEF Replace
<1>2. PICK w : w = [thread[t] EXCEPT !.do = "start"] OBVIOUS
<1>3. thread[t].key \in Key /\ w \in Opening /\ w.do = "start" /\ w.key = thread[t].key
  BY <1>1, <1>2, OpeningFields
<1>4. thread' = [thread EXCEPT ![t] = w] /\ shut' = shut /\ contested' = contested
  BY <1>2 DEF Replace, Begin
<1>5. WorkGoesOn({thread[t].key}) BY <1>1, <1>3, <1>4 DEF WorkGoesOn
<1>6. WorldOK' BY DEF Replace, WorldOK, TerminalIndInv, TerminalInv, TerminalTypeOK
<1>7. PICK k \in Key : k = thread[t].key /\ CloseSession(k, 0) BY <1>3 DEF Replace
<1>8. ClosesIds({k}) BY <1>7, CloseSessionCloses
<1>9. QED BY <1>5, <1>6, <1>7, <1>8, CloseKeeps

\* Close, CloseClient and CloseAll close the next id.
LEMMA CloseNextKeeps ==
    ASSUME TerminalIndInv, NEW t \in Thread, CloseNext(t)
    PROVE  TerminalIndInv'
<1> USE TerminalTypes
<1>1. thread[t] \in Closing BY DoesFacts DEF CloseNext
<1>2. PICK k \in thread[t].keys : /\ CloseSession(k, 0)
                                  /\ thread' = [thread EXCEPT ![t] = [thread[t] EXCEPT !.keys = @ \ {k}]]
  BY DEF CloseNext, Begin
<1>3. PICK w : w = [thread[t] EXCEPT !.keys = @ \ {k}] OBVIOUS
<1>4. k \in Key /\ w \in Closing /\ w.keys = thread[t].keys \ {k} BY <1>1, <1>3, ClosingFields
<1>5. thread' = [thread EXCEPT ![t] = w] /\ shut' = shut /\ contested' = contested
  BY <1>2, <1>3 DEF CloseNext
<1>6. WorkGoesOn({k}) BY <1>1, <1>4, <1>5 DEF WorkGoesOn
<1>7. WorldOK' BY DEF CloseNext, WorldOK, TerminalIndInv, TerminalInv, TerminalTypeOK
<1>8. ClosesIds({k}) BY <1>2, <1>4, CloseSessionCloses
<1>9. QED BY <1>4, <1>6, <1>7, <1>8, CloseKeeps

\* What is outside the manager moves on, and no goroutine with it.
LEMMA WorldKeeps ==
    ASSUME TerminalIndInv, UNCHANGED <<shut, sessions, shells, thread, contested>>, WorldOK'
    PROVE  TerminalIndInv'
<1>1. ClosesIds({})
  BY TerminalTypes DEF ClosesIds, TerminalIndInv, TerminalParts, NotReported
<1>2. WorkGoesOn({}) BY TerminalTypes DEF WorkGoesOn
<1>3. QED BY <1>1, <1>2, CloseKeeps

\* A goroutine returns from the manager without a shell.
LEMMA ReturnKeeps ==
    ASSUME TerminalIndInv, NEW t \in Thread, StartFails(t) \/ CloseReturns(t)
    PROVE  TerminalIndInv'
<1> USE TerminalTypes
<1>1. /\ thread' = [thread EXCEPT ![t] = Outside] /\ UNCHANGED <<shut, sessions, shells, contested>>
      /\ Does(t, "start") \/ (Does(t, "close") /\ thread[t].keys = {})
  BY DEF StartFails, CloseReturns, Begin
<1>2. WorldOK'
  <2>1. CASE StartFails(t)
    BY <2>1 DEF StartFails, WorldOK, TerminalIndInv, TerminalInv, TerminalTypeOK
  <2>2. CASE CloseReturns(t)
    BY <2>2 DEF CloseReturns, Revoke, WorldOK, TerminalIndInv, TerminalInv, TerminalTypeOK
  <2>3. QED BY <2>1, <2>2
<1>3. ~(thread[t] \in Opening /\ thread[t].do = "enter")
      /\ (thread[t] \in Closing => thread[t].keys = {})
  BY <1>1, DoesFacts, WorkIsDistinct
<1>4. shut' => \A k \in Key : sessions[k] # 0 => thread'[Reader] \in Closing /\ k \in thread'[Reader].keys
  BY <1>1, <1>3, WorkIsDistinct DEF TerminalIndInv, TerminalParts, ShutCloses
<1>5. TurnsTo(t, Outside) BY <1>1, <1>2, <1>3, <1>4, TerminalAssumption DEF TurnsTo
<1>6. QED BY <1>5, TurnKeeps

\* A shell is started, which nobody but its goroutine knows.
LEMMA StartShellKeeps ==
    ASSUME TerminalIndInv, NEW t \in Thread, StartShell(t)
    PROVE  TerminalIndInv'
<1> USE TerminalTypes
<1>1. thread[t] \in Opening /\ thread[t].do = "start" BY DoesFacts DEF StartShell
<1> DEFINE n == Len(shells) + 1
           s == [key |-> thread[t].key, by |-> t, state |-> "open", reading |-> FALSE, reports |-> 0]
<1>2. PICK w : w = [thread[t] EXCEPT !.do = "enter", !.shell = n] OBVIOUS
<1>3. n \in 0..MaxShells BY TerminalAssumption DEF StartShell
<1>4. thread[t].key \in Key /\ w \in Opening /\ w.do = "enter" /\ w.key = thread[t].key /\ w.shell = n
  BY <1>1, <1>2, <1>3, OpeningFields
<1>5. /\ thread' = [thread EXCEPT ![t] = w] /\ shells' = Append(shells, s)
      /\ UNCHANGED <<shut, sessions, channel, peer, gone, contested>>
  BY <1>2 DEF StartShell, Begin
<1>6. /\ thread' \in [Thread -> Opening \cup Closing \cup {Outside}]
      /\ thread'[t] = w /\ \A o \in Thread \ {t} : thread'[o] = thread[o]
  BY <1>4, <1>5
<1>7. s \in Shell BY <1>4 DEF Shell
<1>8. /\ shells' \in Seq(Shell) /\ Len(shells') = n /\ DOMAIN shells' = 1..n
      /\ DOMAIN shells' = DOMAIN shells \cup {n} /\ n \notin DOMAIN shells
      /\ \A h \in DOMAIN shells : shells'[h] = shells[h]
      /\ shells'[n] = s
  <2>1. shells' \in Seq(Shell) /\ Len(shells') = n /\ DOMAIN shells' = 1..n BY <1>5, <1>7
  <2>2. QED BY <1>5, <1>7, <2>1
<1>9. s.key = thread[t].key /\ s.by = t /\ s.state = "open" /\ s.reports = 0 OBVIOUS
<1> HIDE DEF n, s
<1>10. TerminalTypeOK'
  <2>1. sessions' \in [Key -> 0..Len(shells')] BY <1>5, <1>8 DEF n
  <2>2. QED BY <1>5, <1>6, <1>8, <2>1 DEF TerminalTypeOK, TerminalIndInv, TerminalInv
<1>11. OneOpener'
  BY <1>1, <1>4, <1>5, <1>6 DEF TerminalIndInv, TerminalParts, OneOpener
<1>12. IdIsFree' BY <1>1, <1>4, <1>5, <1>6 DEF TerminalIndInv, TerminalParts, IdIsFree
<1>13. EntersItsShell'
  <2> SUFFICES ASSUME NEW o \in Thread, thread'[o] \in Opening, thread'[o].do = "enter"
               PROVE  /\ thread'[o].shell \in DOMAIN shells'
                      /\ shells'[thread'[o].shell].key = thread'[o].key
                      /\ shells'[thread'[o].shell].by = o
                      /\ shells'[thread'[o].shell].state = "open"
                      /\ \A k \in Key : sessions'[k] # thread'[o].shell
    BY DEF EntersItsShell
  <2>1. CASE o = t
    <3>1. \A k \in Key : sessions'[k] # n BY <1>5 DEF n
    <3>2. QED BY <1>4, <1>6, <1>8, <1>9, <2>1, <3>1
  <2>2. CASE o # t
    BY <1>5, <1>6, <1>8, <2>2 DEF TerminalIndInv, TerminalParts, EntersItsShell
  <2>3. QED BY <2>1, <2>2
<1>14. SessionIsOpen'
  BY <1>5, <1>8 DEF TerminalIndInv, TerminalParts, SessionIsOpen
<1>15. NotReported' BY <1>8, <1>9 DEF TerminalIndInv, TerminalParts, NotReported
<1>16. ShutCloses'
  BY <1>1, <1>5, <1>6, WorkIsDistinct DEF TerminalIndInv, TerminalParts, ShutCloses
<1>17. NoLostShell'
  <2> SUFFICES ASSUME NEW h \in DOMAIN shells', shells'[h].state = "open"
               PROVE  \/ \E o \in Thread : Does(o, "enter")' /\ thread'[o].shell = h
                      \/ sessions'[shells'[h].key] = h /\ (shut' => ~Free(Reader)')
                      \/ shells'[h].key \in contested'
    BY DEF NoLostShell
  <2>1. CASE h = n
    <3>1. thread'[t] # Outside /\ thread'[t].do = "enter" /\ thread'[t].shell = h
      BY <1>4, <1>6, <2>1
    <3>2. QED BY <3>1 DEF Does
  <2>2. CASE h # n
    <3>1. h \in DOMAIN shells /\ shells'[h] = shells[h] /\ shells[h].state = "open" BY <1>8, <2>2
    <3>2. CASE \E o \in Thread : thread[o] \in Opening /\ thread[o].do = "enter" /\ thread[o].shell = h
      <4>1. PICK o \in Thread : thread[o] \in Opening /\ thread[o].do = "enter" /\ thread[o].shell = h
        BY <3>2
      <4>2. thread'[o] = thread[o] BY <1>1, <1>6, <4>1
      <4>3. thread'[o] # Outside /\ thread'[o].do = "enter" /\ thread'[o].shell = h BY <4>1, <4>2
      <4>4. QED BY <4>3 DEF Does
    <3>3. CASE sessions[shells[h].key] = h /\ (shut => thread[Reader] # Outside)
      BY <1>4, <1>5, <1>6, <3>1, <3>3, WorkIsDistinct DEF Free
    <3>4. CASE shells[h].key \in contested BY <1>5, <3>1, <3>4
    <3>5. QED BY <3>1, <3>2, <3>3, <3>4, NoLostParts DEF TerminalIndInv, TerminalInv
  <2>3. QED BY <2>1, <2>2
<1>18. QED
  BY <1>10, <1>11, <1>12, <1>13, <1>14, <1>15, <1>16, <1>17
     DEF TerminalIndInv, TerminalInv, TerminalParts

\* The shell becomes the session, or is closed because the manager is.
LEMMA EnterKeeps ==
    ASSUME TerminalIndInv, NEW t \in Thread, Enter(t)
    PROVE  TerminalIndInv'
<1> USE TerminalTypes
<1>1. thread[t] \in Opening /\ thread[t].do = "enter" BY DoesFacts DEF Enter
<1>2. PICK k \in Key, h \in DOMAIN shells :
        /\ k = thread[t].key /\ h = thread[t].shell
        /\ shells[h].key = k /\ shells[h].by = t /\ shells[h].state = "open"
        /\ (\A j \in Key : sessions[j] # h) /\ (k \notin contested => sessions[k] = 0)
  <2>1. PICK k : k = thread[t].key OBVIOUS
  <2>2. PICK h : h = thread[t].shell OBVIOUS
  <2>3. k \in Key /\ (k \notin contested => sessions[k] = 0)
    BY <1>1, <2>1, OpeningFields DEF TerminalIndInv, TerminalParts, IdIsFree
  <2>4. /\ h \in DOMAIN shells
        /\ shells[h].key = k /\ shells[h].by = t /\ shells[h].state = "open"
        /\ \A j \in Key : sessions[j] # h
    BY <1>1, <2>1, <2>2 DEF TerminalIndInv, TerminalParts, EntersItsShell
  <2>5. QED BY <2>1, <2>2, <2>3, <2>4
<1>3. thread' = [thread EXCEPT ![t] = Outside] /\ shut' = shut /\ contested' = contested
  BY DEF Enter, Begin
<1>4. /\ thread' \in [Thread -> Opening \cup Closing \cup {Outside}]
      /\ thread'[t] = Outside /\ \A o \in Thread \ {t} : thread'[o] = thread[o]
  BY <1>3
<1>5. WorldOK'
  BY DEF Enter, WorldOK, TerminalIndInv, TerminalInv, TerminalTypeOK
<1>6. shells[h] \in Shell /\ h \in 1..Len(shells) BY <1>2
<1>7. shells[h].reports = 0 BY <1>2 DEF TerminalIndInv, TerminalParts, NotReported
\* Nobody else opens this id unless it is contested, and no other has this shell.
<1>8. ASSUME NEW o \in Thread \ {t}, thread[o] \in Opening
      PROVE  /\ thread[o].key = k => k \in contested
             /\ thread[o].do = "enter" => thread[o].shell # h
  BY <1>1, <1>2, <1>8 DEF TerminalIndInv, TerminalParts, OneOpener, EntersItsShell
<1>p. OneOpener' BY <1>3, <1>4, TerminalAssumption DEF TerminalIndInv, TerminalParts, OneOpener
<1>9. CASE ~shut
  <2>1. PICK v : v = [shells[h] EXCEPT !.reading = TRUE] OBVIOUS
  <2>2. v \in Shell /\ v.key = k /\ v.by = t /\ v.state = "open" /\ v.reports = 0
    BY <1>2, <1>6, <1>7, <2>1 DEF Shell
  <2>3. shells' = [shells EXCEPT ![h] = v] /\ sessions' = [sessions EXCEPT ![k] = h]
    BY <1>2, <1>9, <2>1 DEF Enter, Accepts
  <2>4. ShellBecomes(h, v) BY <1>2, <2>2, <2>3 DEF ShellBecomes
  <2>5. /\ shells' \in Seq(Shell) /\ Len(shells') = Len(shells) /\ DOMAIN shells' = DOMAIN shells
        /\ shells'[h] = v /\ \A i \in DOMAIN shells : i # h => shells'[i] = shells[i]
        /\ NotReported'
    BY <1>2, <2>4, ShellChanges
  <2>6. /\ sessions' \in [Key -> 0..Len(shells')] /\ sessions'[k] = h
        /\ \A j \in Key : j # k => sessions'[j] = sessions[j]
    BY <1>6, <2>3, <2>5
  <2>7. \A i \in DOMAIN shells : /\ shells'[i].key = shells[i].key /\ shells'[i].by = shells[i].by
                                /\ shells'[i].state = shells[i].state
    BY <1>2, <2>2, <2>5
  <2>8. TerminalTypeOK' BY <1>4, <1>5, <2>5, <2>6 DEF TerminalTypeOK, WorldOK
  <2>9. OneOpener' BY <1>p
  <2>10. IdIsFree'
    <3> SUFFICES ASSUME NEW o \in Thread, thread'[o] \in Opening, thread'[o].do # "replace",
                        thread'[o].key \notin contested'
                 PROVE  sessions'[thread'[o].key] = 0
      BY DEF IdIsFree
    <3>1. o # t /\ thread'[o] = thread[o] /\ thread[o].key \notin contested BY <1>3, <1>4
    <3>2. thread[o].key \in Key /\ thread[o].key # k BY <1>8, <3>1, OpeningFields
    <3>3. sessions[thread[o].key] = 0 BY <3>1 DEF TerminalIndInv, TerminalParts, IdIsFree
    <3>4. QED BY <2>6, <3>1, <3>2, <3>3
  <2>11. EntersItsShell'
    <3> SUFFICES ASSUME NEW o \in Thread, thread'[o] \in Opening, thread'[o].do = "enter"
                 PROVE  /\ thread'[o].shell \in DOMAIN shells'
                        /\ shells'[thread'[o].shell].key = thread'[o].key
                        /\ shells'[thread'[o].shell].by = o
                        /\ shells'[thread'[o].shell].state = "open"
                        /\ \A j \in Key : sessions'[j] # thread'[o].shell
      BY DEF EntersItsShell
    <3>1. o # t /\ thread'[o] = thread[o] /\ thread[o].shell # h BY <1>4, <1>8
    <3>2. PICK i \in DOMAIN shells :
            /\ i = thread[o].shell /\ shells[i].key = thread[o].key /\ shells[i].by = o
            /\ shells[i].state = "open" /\ \A j \in Key : sessions[j] # i
      BY <3>1 DEF TerminalIndInv, TerminalParts, EntersItsShell
    <3>3. \A j \in Key : sessions'[j] # i BY <2>6, <3>1, <3>2
    <3>4. QED BY <2>5, <2>7, <3>1, <3>2, <3>3
  <2>12. SessionIsOpen'
    <3> SUFFICES ASSUME NEW j \in Key, sessions'[j] # 0
                 PROVE  shells'[sessions'[j]].key = j /\ shells'[sessions'[j]].state = "open"
      BY DEF SessionIsOpen
    <3>1. CASE j = k BY <2>2, <2>5, <2>6, <3>1
    <3>2. CASE j # k
      <4>1. sessions'[j] = sessions[j] /\ sessions[j] \in DOMAIN shells BY <2>6, <3>2
      <4>2. shells[sessions[j]].key = j /\ shells[sessions[j]].state = "open"
        BY <4>1 DEF TerminalIndInv, TerminalParts, SessionIsOpen
      <4>3. QED BY <2>7, <4>1, <4>2
    <3>3. QED BY <3>1, <3>2
  <2>13. ShutCloses' BY <1>3, <1>9 DEF ShutCloses
  <2>14. NoLostShell'
    <3> SUFFICES ASSUME NEW i \in DOMAIN shells, shells'[i].state = "open"
                 PROVE  \/ \E o \in Thread : Does(o, "enter")' /\ thread'[o].shell = i
                        \/ sessions'[shells'[i].key] = i /\ (shut' => ~Free(Reader)')
                        \/ shells'[i].key \in contested'
      BY <2>5 DEF NoLostShell
    <3>1. CASE i = h BY <1>3, <1>9, <2>2, <2>5, <2>6, <3>1
    <3>2. CASE i # h
      <4>1. shells[i].state = "open" /\ shells'[i] = shells[i] BY <2>5, <3>2
      <4>2. CASE \E o \in Thread : thread[o] \in Opening /\ thread[o].do = "enter" /\ thread[o].shell = i
        <5>1. PICK o \in Thread : thread[o] \in Opening /\ thread[o].do = "enter" /\ thread[o].shell = i
          BY <4>2
        <5>2. thread'[o] = thread[o] BY <1>2, <1>4, <3>2, <5>1
        <5>3. thread'[o] # Outside /\ thread'[o].do = "enter" /\ thread'[o].shell = i BY <5>1, <5>2
        <5>4. QED BY <5>3 DEF Does
      <4>3. CASE sessions[shells[i].key] = i
        <5>1. shells[i] \in Shell /\ i \in 1..Len(shells) OBVIOUS
        <5>2. shells[i].key \in Key BY <5>1 DEF Shell
        <5>3. CASE shells[i].key = k
          <6>1. k \in contested BY <1>2, <4>3, <5>1, <5>3
          <6>2. QED BY <1>3, <4>1, <5>3, <6>1
        <5>4. CASE shells[i].key # k BY <1>3, <1>9, <2>6, <4>1, <4>3, <5>2, <5>4
        <5>5. QED BY <5>3, <5>4
      <4>4. CASE shells[i].key \in contested BY <1>3, <4>1, <4>4
      <4>5. QED BY <4>1, <4>2, <4>3, <4>4, NoLostParts DEF TerminalIndInv, TerminalInv
    <3>3. QED BY <3>1, <3>2
  <2>15. QED
    BY <2>5, <2>8, <2>9, <2>10, <2>11, <2>12, <2>13, <2>14
       DEF TerminalIndInv, TerminalInv, TerminalParts
<1>10. CASE shut
  <2>1. PICK v : v = [shells[h] EXCEPT !.state = "closed"] OBVIOUS
  <2>2. v \in Shell /\ v.key = k /\ v.by = t /\ v.state = "closed" BY <1>2, <1>6, <2>1 DEF Shell
  <2>3. shells' = [shells EXCEPT ![h] = v] /\ sessions' = sessions
    BY <1>2, <1>10, <2>1 DEF Enter, Accepts
  <2>4. ShellBecomes(h, v) BY <1>2, <2>2, <2>3 DEF ShellBecomes
  <2>5. /\ shells' \in Seq(Shell) /\ Len(shells') = Len(shells) /\ DOMAIN shells' = DOMAIN shells
        /\ shells'[h] = v /\ \A i \in DOMAIN shells : i # h => shells'[i] = shells[i]
        /\ NotReported'
    BY <1>2, <2>4, ShellChanges
  <2>6. \A i \in DOMAIN shells : shells'[i].key = shells[i].key BY <1>2, <2>2, <2>5
  <2>7. \A j \in Key : sessions[j] # h BY <1>2
  <2>8. TerminalTypeOK' BY <1>4, <1>5, <2>3, <2>5 DEF TerminalTypeOK, WorldOK
  <2>9. OneOpener' BY <1>p
  <2>10. IdIsFree' BY <1>3, <1>4, <2>3 DEF TerminalIndInv, TerminalParts, IdIsFree
  <2>11. EntersItsShell'
    BY <1>4, <1>8, <2>3, <2>5 DEF TerminalIndInv, TerminalParts, EntersItsShell
  <2>12. SessionIsOpen'
    <3> SUFFICES ASSUME NEW j \in Key, sessions'[j] # 0
                 PROVE  shells'[sessions'[j]].key = j /\ shells'[sessions'[j]].state = "open"
      BY DEF SessionIsOpen
    <3>1. sessions'[j] = sessions[j] /\ sessions[j] \in DOMAIN shells /\ sessions[j] # h BY <2>3, <2>7
    <3>2. QED BY <2>5, <3>1 DEF TerminalIndInv, TerminalParts, SessionIsOpen
  <2>13. ShutCloses'
    BY <1>1, <1>3, <1>4, <2>3, WorkIsDistinct DEF TerminalIndInv, TerminalParts, ShutCloses
  <2>14. NoLostShell'
    <3> SUFFICES ASSUME NEW i \in DOMAIN shells, shells'[i].state = "open"
                 PROVE  \/ \E o \in Thread : Does(o, "enter")' /\ thread'[o].shell = i
                        \/ sessions'[shells'[i].key] = i /\ (shut' => ~Free(Reader)')
                        \/ shells'[i].key \in contested'
      BY <2>5 DEF NoLostShell
    <3>1. i # h BY <2>2, <2>5
    <3>2. shells[i].state = "open" /\ shells'[i] = shells[i] BY <2>5, <3>1
    <3>3. CASE \E o \in Thread : thread[o] \in Opening /\ thread[o].do = "enter" /\ thread[o].shell = i
      <4>1. PICK o \in Thread : thread[o] \in Opening /\ thread[o].do = "enter" /\ thread[o].shell = i
        BY <3>3
      <4>2. thread'[o] = thread[o] BY <1>2, <1>4, <3>1, <4>1
      <4>3. thread'[o] # Outside /\ thread'[o].do = "enter" /\ thread'[o].shell = i BY <4>1, <4>2
      <4>4. QED BY <4>3 DEF Does
    <3>4. CASE sessions[shells[i].key] = i
      <4>1. shells[i] \in Shell /\ i \in 1..Len(shells) OBVIOUS
      <4>2. shells[i].key \in Key BY <4>1 DEF Shell
      <4>3. thread'[Reader] \in Closing BY <1>3, <1>10, <2>3, <2>13, <3>4, <4>1, <4>2 DEF ShutCloses
      <4>4. QED BY <2>3, <3>2, <3>4, <4>3 DEF Free
    <3>5. CASE shells[i].key \in contested BY <1>3, <3>2, <3>5
    <3>6. QED BY <3>2, <3>3, <3>4, <3>5, NoLostParts DEF TerminalIndInv, TerminalInv
  <2>15. QED
    BY <2>5, <2>8, <2>9, <2>10, <2>11, <2>12, <2>13, <2>14
       DEF TerminalIndInv, TerminalInv, TerminalParts
<1>11. QED BY <1>9, <1>10

\* A message of the signalling socket or of a data channel opens a shell.
LEMMA OpenKeeps ==
    ASSUME TerminalIndInv, NEW k \in Key, NEW t \in Thread, Free(t),
           BeginOpen(t, k), UNCHANGED <<shut, sessions, shells>>, WorldOK',
           t = Reader => ~shut
    PROVE  TerminalIndInv'
<1> USE TerminalTypes
<1>1. /\ thread[t] = Outside /\ thread' = [thread EXCEPT ![t] = OpenKey(k)]
      /\ contested' = contested \cup {j \in {k} : \E o \in Thread : IsOpening(o, j)}
  BY DEF Free, Begin, BeginOpen
<1>2. /\ OpenKey(k) \in Opening /\ OpenKey(k).do = "replace" /\ OpenKey(k).key = k
  BY TerminalAssumption DEF OpenKey, Opening
<1>3. shut' => \A j \in Key : sessions[j] # 0 => thread'[Reader] \in Closing /\ j \in thread'[Reader].keys
  BY <1>1, WorkIsDistinct DEF TerminalIndInv, TerminalParts, ShutCloses
<1>c. \A o \in Thread : thread[o] \in Opening /\ thread[o].key = k => k \in contested'
  BY <1>1 DEF IsOpening
<1>4. TurnsTo(t, OpenKey(k)) BY <1>1, <1>2, <1>3, <1>c, TerminalAssumption DEF TurnsTo
<1>5. QED BY <1>2, <1>4, TurnKeeps

\* Somebody sets out to close ids: all there are, when the manager is closed by it.
LEMMA CloserKeeps ==
    ASSUME TerminalIndInv, NEW t \in Thread, NEW w \in Closing, Free(t), Begin(t, w),
           UNCHANGED <<sessions, shells, contested>>, WorldOK',
           \/ shut' = shut /\ (t = Reader => ~shut)
           \/ t = Reader /\ w.keys = {k \in Key : sessions[k] # 0}
    PROVE  TerminalIndInv'
<1> USE TerminalTypes
<1>1. thread[t] = Outside /\ thread' = [thread EXCEPT ![t] = w] BY DEF Free, Begin
<1>2. w \notin Opening BY WorkIsDistinct
<1>3. shut' => \A j \in Key : sessions[j] # 0 => thread'[Reader] \in Closing /\ j \in thread'[Reader].keys
  BY <1>1, WorkIsDistinct DEF TerminalIndInv, TerminalParts, ShutCloses
<1>4. TurnsTo(t, w) BY <1>1, <1>2, <1>3 DEF TurnsTo
<1>5. QED BY <1>4, TurnKeeps

\* The work of a goroutine that closes.
LEMMA CloseKeysIsClosing ==
    ASSUME NEW K \in SUBSET Key
    PROVE  /\ CloseKeys(K) \in Closing /\ CloseKeys(K).keys = K
           /\ \A c \in Owner : [CloseKeys(K) EXCEPT !.revoke = {c}] \in Closing
BY DEF CloseKeys, Closing

\* Every step keeps the invariant.
LEMMA TerminalStep == TerminalIndInv /\ [TerminalNext]_terminalVars => TerminalIndInv'
<1> SUFFICES ASSUME TerminalIndInv, [TerminalNext]_terminalVars PROVE TerminalIndInv'
  OBVIOUS
<1> USE TerminalTypes, WorkIsDistinct
<1>w. WorldOK BY DEF WorldOK, TerminalIndInv, TerminalInv, TerminalTypeOK
<1>1. ASSUME NEW t \in Thread, Proceed(t) PROVE TerminalIndInv'
  BY <1>1, ReplaceKeeps, StartShellKeeps, ReturnKeeps, EnterKeeps, CloseNextKeeps DEF Proceed
<1>2. ASSUME NEW h \in DOMAIN shells, FinishClose(h) \/ ReadEnds(h) PROVE TerminalIndInv'
  BY <1>2, FinishCloseKeeps, ReadEndsKeeps
<1>3. ASSUME NEW k \in Key, PtyOpen(k) PROVE TerminalIndInv'
  <2>1. WorldOK' BY <1>3, <1>w DEF PtyOpen, BeginOpen, WorldOK
  <2>2. Free(Reader) /\ ~shut /\ BeginOpen(Reader, k) /\ UNCHANGED <<shut, sessions, shells>>
    BY <1>3 DEF PtyOpen
  <2>3. QED BY <2>1, <2>2, OpenKeeps
<1>4. ASSUME NEW k \in Key, PtyClose(k) PROVE TerminalIndInv'
  <2>1. CloseKeys({k}) \in Closing BY CloseKeysIsClosing
  <2>2. WorldOK' BY <1>4, <1>w DEF PtyClose, WorldOK
  <2>3. Free(Reader) /\ ~shut /\ Begin(Reader, CloseKeys({k})) /\ UNCHANGED <<shut, sessions, shells, contested>>
    BY <1>4 DEF PtyClose
  <2>4. QED BY <2>1, <2>2, <2>3, CloserKeeps
<1>5. ASSUME NEW c \in Owner, PeerConnects(c) PROVE TerminalIndInv'
  <2>1. WorldOK' BY <1>5, <1>w DEF PeerConnects, WorldOK
  <2>2. QED BY <1>5, <2>1, WorldKeeps DEF PeerConnects
<1>6. ASSUME NEW c \in Owner, ClientDisconnected(c) PROVE TerminalIndInv'
  <2> DEFINE w == [CloseKeys(KeysOf(c)) EXCEPT !.revoke = {c}]
  <2>1. w \in Closing BY CloseKeysIsClosing DEF KeysOf
  <2>2. WorldOK' BY <1>6, <1>w DEF ClientDisconnected, WorldOK
  <2>3. Free(Reader) /\ ~shut /\ Begin(Reader, w) /\ UNCHANGED <<shut, sessions, shells, contested>>
    BY <1>6 DEF ClientDisconnected
  <2> HIDE DEF w
  <2>4. QED BY <2>1, <2>2, <2>3, CloserKeeps
<1>7. ASSUME NEW c \in Owner, PeerFails(c) PROVE TerminalIndInv'
  <2>1. CloseKeys(KeysOf(c)) \in Closing BY CloseKeysIsClosing DEF KeysOf
  <2>2. WorldOK' BY <1>7, <1>w DEF PeerFails, WorldOK
  <2>3. Free(Callback) /\ Begin(Callback, CloseKeys(KeysOf(c))) /\ UNCHANGED <<shut, sessions, shells, contested>>
    BY <1>7 DEF PeerFails
  <2>4. Callback # Reader BY TerminalAssumption
  <2>5. QED BY <2>1, <2>2, <2>3, <2>4, CloserKeeps
<1>8. ASSUME NEW d \in Channel, ChannelOpens(d) PROVE TerminalIndInv'
  <2>1. WorldOK' BY <1>8, <1>w DEF ChannelOpens, WorldOK
  <2>2. QED BY <1>8, <2>1, WorldKeeps DEF ChannelOpens
<1>9. ASSUME NEW d \in Channel, ChannelMessage(d) PROVE TerminalIndInv'
  <2>1. KeyOf[d] \in Key /\ d \in Thread /\ d # Reader BY TerminalAssumption DEF Thread
  <2>2. WorldOK' BY <1>9, <1>w, <2>1 DEF ChannelMessage, BeginOpen, WorldOK
  <2>3. Free(d) /\ BeginOpen(d, KeyOf[d]) /\ UNCHANGED <<shut, sessions, shells>>
    BY <1>9 DEF ChannelMessage
  <2>4. QED BY <2>1, <2>2, <2>3, OpenKeeps
<1>10. ASSUME NEW d \in Channel, ChannelCloses(d) PROVE TerminalIndInv'
  <2>1. KeyOf[d] \in Key /\ d \in Thread /\ d # Reader BY TerminalAssumption DEF Thread
  <2>2. CloseKeys(AfterChannel(d)) \in Closing BY <2>1, CloseKeysIsClosing DEF AfterChannel
  <2>3. WorldOK' BY <1>10, <1>w DEF ChannelCloses, WorldOK
  <2>4. Free(d) /\ Begin(d, CloseKeys(AfterChannel(d))) /\ UNCHANGED <<shut, sessions, shells, contested>>
    BY <1>10 DEF ChannelCloses
  <2>5. QED BY <2>1, <2>2, <2>3, <2>4, CloserKeeps
<1>11. ASSUME CloseAll PROVE TerminalIndInv'
  <2> DEFINE w == CloseKeys({k \in Key : sessions[k] # 0})
  <2>1. w \in Closing /\ w.keys = {k \in Key : sessions[k] # 0} BY CloseKeysIsClosing
  <2>2. WorldOK' BY <1>11, <1>w DEF CloseAll, Revoke, WorldOK
  <2>3. Free(Reader) /\ Begin(Reader, w) /\ UNCHANGED <<sessions, shells, contested>>
    BY <1>11 DEF CloseAll
  <2> HIDE DEF w
  <2>4. QED BY <2>1, <2>2, <2>3, CloserKeeps
<1>12. CASE UNCHANGED terminalVars
  <2>1. WorldOK' BY <1>12, <1>w DEF terminalVars, WorldOK
  <2>2. QED BY <1>12, <2>1, WorldKeeps DEF terminalVars
<1>13. QED
  BY <1>1, <1>2, <1>3, <1>4, <1>5, <1>6, <1>7, <1>8, <1>9, <1>10, <1>11, <1>12 DEF TerminalNext

(***************************************************************************)
(* However the signalling reader, the data channels, the peers and the     *)
(* shells themselves interleave, and whatever ids the browsers choose, the *)
(* invariant of the terminals holds: a running shell is the session of its *)
(* id or in the hands of the goroutine that opens it, unless two           *)
(* goroutines were opening its id at once; a shell's end is reported at    *)
(* most once, and when CloseAll has returned no session is left.           *)
(***************************************************************************)
THEOREM ShellsAreKept == TerminalSpec => []TerminalInv
<1>1. TerminalIndInv => TerminalInv BY DEF TerminalIndInv
<1>2. QED BY <1>1, TerminalStarts, TerminalStep, PTL DEF TerminalSpec

(***************************************************************************)
(* A session is taken from its shell only by the end of that shell's       *)
(* reading goroutine, or by somebody who was asked to close or to replace  *)
(* this id: the late end of a replaced shell leaves its successor alone.   *)
(* A shell that is entered overwrites another only where two goroutines    *)
(* were opening the id at once.                                            *)
(***************************************************************************)
THEOREM SessionsEndForTheirReason == TerminalSpec => EndsForItsOwnReason
<1> DEFINE A == \A k \in Key : sessions[k] # 0 /\ sessions'[k] # sessions[k] =>
                   \/ shells[sessions[k]].reading /\ ~shells'[sessions[k]].reading
                   \/ \E t \in Thread : \/ Does(t, "replace") /\ thread[t].key = k
                                        \/ Does(t, "enter") /\ thread[t].key = k /\ k \in contested
                                        \/ Does(t, "close") /\ k \in thread[t].keys
<1>1. ASSUME TerminalIndInv, [TerminalNext]_terminalVars PROVE [A]_terminalVars
  <2> USE TerminalTypes
  <2> SUFFICES ASSUME TerminalNext, NEW k \in Key, sessions[k] # 0, sessions'[k] # sessions[k]
               PROVE  \/ shells[sessions[k]].reading /\ ~shells'[sessions[k]].reading
                      \/ \E t \in Thread : \/ Does(t, "replace") /\ thread[t].key = k
                                           \/ Does(t, "enter") /\ thread[t].key = k /\ k \in contested
                                           \/ Does(t, "close") /\ k \in thread[t].keys
    BY <1>1
  <2>1. ASSUME NEW t \in Thread, Replace(t) PROVE Does(t, "replace") /\ thread[t].key = k
    <3>1. thread[t].key \in Key BY <1>1, <2>1, DoesFacts, OpeningFields DEF Replace
    <3>2. QED BY <2>1, <3>1, <1>1 DEF Replace, CloseSession, Forget
  <2>2. ASSUME NEW t \in Thread, CloseNext(t) PROVE Does(t, "close") /\ k \in thread[t].keys
    BY <1>1, <2>2 DEF CloseNext, CloseSession, Forget
  <2>3. ASSUME NEW t \in Thread, Enter(t)
        PROVE  Does(t, "enter") /\ thread[t].key = k /\ k \in contested
    <3>1. thread[t] \in Opening /\ thread[t].do = "enter" BY <1>1, <2>3, DoesFacts DEF Enter
    <3>2. thread[t].key = k BY <1>1, <2>3 DEF Enter
    <3>3. k \in contested BY <1>1, <3>1, <3>2 DEF TerminalIndInv, TerminalParts, IdIsFree
    <3>4. QED BY <2>3, <3>2, <3>3 DEF Enter
  <2>4. ASSUME NEW h \in DOMAIN shells, ReadEnds(h)
        PROVE  shells[sessions[k]].reading /\ ~shells'[sessions[k]].reading
    <3>1. shells[h] \in Shell /\ h \in 1..Len(shells) BY <1>1
    <3>2. shells[h].key = k /\ sessions[k] = h
      BY <1>1, <2>4, <3>1 DEF ReadEnds, IsExpected, Forget
    <3>3. shells' = [shells EXCEPT ![h].state = "closing", ![h].reading = FALSE]
      BY <1>1, <2>4, <3>2 DEF ReadEnds, IsExpected
    <3>4. ~shells'[h].reading BY <1>1, <3>1, <3>3 DEF Shell
    <3>5. QED BY <2>4, <3>2, <3>4 DEF ReadEnds
  <2>5. \/ \E t \in Thread : Replace(t) \/ CloseNext(t) \/ Enter(t)
        \/ \E h \in DOMAIN shells : ReadEnds(h)
    BY DEF TerminalNext, Proceed, StartShell, StartFails, CloseReturns, FinishClose, PtyOpen, PtyClose,
       PeerConnects, ClientDisconnected, PeerFails, ChannelOpens, ChannelMessage, ChannelCloses, CloseAll
  <2>6. QED BY <2>1, <2>2, <2>3, <2>4, <2>5
<1>2. TerminalIndInv /\ [TerminalNext]_terminalVars => [A]_terminalVars BY <1>1
<1>3. QED BY <1>2, TerminalStarts, TerminalStep, PTL DEF TerminalSpec, EndsForItsOwnReason

-----------------------------------------------------------------------------
(***************************************************************************)
(* The file sessions.  An upload is whole when it is committed because the *)
(* chunk that completes it marks it as finishing under the lock, and Chunk *)
(* refuses an upload that is finishing: so it stays as it was checked.     *)
(* Each chunk with data that goes well moves the progress on, so all the   *)
(* progress that was answered is below what the upload has reached.        *)
(***************************************************************************)

\* Sessions, uploads and goroutines refer to what there is.
FileRefs ==
    /\ Len(object) <= MaxSessions /\ Len(uploads) <= MaxUploads
    /\ \A c \in Client : session[c] # 0 => session[c] \in DOMAIN object
    /\ \A s \in DOMAIN object : object[s].upload # 0 => object[s].upload \in DOMAIN uploads
    /\ \A w \in Caller : work[w] # Idle => work[w].sid \in DOMAIN object /\ work[w].up \in DOMAIN uploads
    /\ \A j \in DOMAIN jobs : jobs[j].sid \in DOMAIN object

\* What was moved to a destination is whole and is written to no more; so is what a
\* caller is about to move, and what it will acknowledge as finished was moved.
WholeParts ==
    /\ \A u \in committed : Whole(u) /\ uploads[u].finishing
    /\ \A p \in Path : dest[p] > 0 => dest[p] \in committed
    /\ \A w \in Caller : work[w] # Idle =>
         /\ work[w].at \in {"commit", "pushing"} => Whole(work[w].up) /\ uploads[work[w].up].finishing
         /\ work[w].at \in {"remove", "ack"} /\ work[w].finished /\ work[w].ok => work[w].up \in committed
    /\ \A a \in acks : a.finished /\ a.ok => a.up \in committed
    /\ \A j \in DOMAIN jobs : jobs[j].up # 0 => jobs[j].up \in committed

\* A staging file is the session's, or new and still in its caller's hands.
StageIsHeld ==
    \A u \in stage :
       \/ \E c \in Client : session[c] # 0 /\ object[session[c]].upload = u
       \/ \E w \in Caller : work[w] # Idle /\ work[w].at = "staged" /\ work[w].up = u

Downloading(j) == jobs[j].running /\ jobs[j].kind = "download"

\* A download marks its session, which has no other.
DownloadParts ==
    /\ \A j \in DOMAIN jobs : Downloading(j) => object[jobs[j].sid].downloading
    /\ \A i, j \in DOMAIN jobs :
         Downloading(i) /\ Downloading(j) /\ jobs[i].sid = jobs[j].sid => i = j

\* The inductive invariant of the file sessions.
FileIndInv == FileTypeOK /\ FileRefs /\ WholeParts /\ StageIsHeld /\ DownloadParts

\* The inductive invariant gives the one that is checked.
LEMMA FileIndImplies == FileIndInv => FileInv
<1> SUFFICES ASSUME FileIndInv PROVE FileInv
  OBVIOUS
<1>1. OnlyWholeFiles BY DEF FileIndInv, WholeParts, OnlyWholeFiles
<1>2. NoStageLeftBehind BY DEF FileIndInv, StageIsHeld, NoStageLeftBehind
<1>3. OneDownload
  <2> SUFFICES ASSUME NEW s \in DOMAIN object
               PROVE  Cardinality({j \in DOMAIN jobs : jobs[j].running /\ jobs[j].kind = "download"
                                                        /\ jobs[j].sid = s}) <= 1
    BY DEF OneDownload
  <2> DEFINE D == {j \in DOMAIN jobs : jobs[j].running /\ jobs[j].kind = "download" /\ jobs[j].sid = s}
  <2>1. CASE D = {} BY <2>1, FS_EmptySet
  <2>2. CASE D # {}
    <3>1. PICK i : i \in D BY <2>2
    <3>2. D = {i} BY <3>1 DEF FileIndInv, DownloadParts, Downloading
    <3>3. Cardinality({i}) = 1 BY FS_Singleton
    <3>4. QED BY <3>2, <3>3
  <2>3. QED BY <2>1, <2>2
<1>4. QED BY <1>1, <1>2, <1>3 DEF FileIndInv, FileInv

\* The types that steps use.
LEMMA FileTypes ==
    ASSUME FileIndInv
    PROVE  /\ session \in [Client -> 0..MaxSessions] /\ work \in [Caller -> Work \cup {Idle}]
           /\ object \in Seq(Object) /\ uploads \in Seq(Upload) /\ jobs \in Seq(Job)
           /\ DOMAIN object = 1..Len(object) /\ Len(object) \in Nat
           /\ DOMAIN uploads = 1..Len(uploads) /\ Len(uploads) \in Nat
           /\ DOMAIN jobs = 1..Len(jobs) /\ Len(jobs) \in Nat
           /\ \A s \in DOMAIN object : object[s] \in Object
           /\ \A u \in DOMAIN uploads : uploads[u] \in Upload
           /\ \A j \in DOMAIN jobs : jobs[j] \in Job
           /\ \A w \in Caller : work[w] # Idle => work[w] \in Work
           /\ Idle \notin Work
           /\ MaxSessions \in Nat /\ MaxUploads \in Nat
<1>1. /\ session \in [Client -> 0..MaxSessions] /\ work \in [Caller -> Work \cup {Idle}]
      /\ object \in Seq(Object) /\ uploads \in Seq(Upload) /\ jobs \in Seq(Job)
  BY DEF FileIndInv, FileTypeOK
<1>2. QED BY <1>1, FileAssumption

\* Nothing is there at first.
LEMMA FileStarts == FileInit => FileIndInv
<1> SUFFICES ASSUME FileInit PROVE FileIndInv
  OBVIOUS
<1>1. /\ DOMAIN object = {} /\ DOMAIN uploads = {} /\ DOMAIN jobs = {}
      /\ object \in Seq(Object) /\ uploads \in Seq(Upload) /\ jobs \in Seq(Job)
      /\ Len(object) = 0 /\ Len(uploads) = 0
  BY DEF FileInit
<1>2. /\ session \in [Client -> 0..MaxSessions] /\ dest \in [Path -> -1..MaxUploads]
      /\ \A c \in Client : session[c] = 0
      /\ \A p \in Path : dest[p] = 0
  BY FileAssumption DEF FileInit
<1>3. work \in [Caller -> Work \cup {Idle}] /\ \A w \in Caller : work[w] = Idle BY DEF FileInit
<1>4. FileTypeOK BY <1>1, <1>2, <1>3 DEF FileInit, FileTypeOK
<1>5. FileRefs BY <1>1, <1>2, <1>3, FileAssumption DEF FileRefs
<1>6. WholeParts BY <1>1, <1>2, <1>3 DEF FileInit, WholeParts
<1>7. StageIsHeld /\ DownloadParts BY <1>1 DEF FileInit, StageIsHeld, DownloadParts
<1>8. QED BY <1>4, <1>5, <1>6, <1>7 DEF FileIndInv

\* Each part of the invariant is about a few variables.
LEMMA PartsKept ==
    /\ WholeParts /\ UNCHANGED <<uploads, committed, dest, work, acks, jobs>> => WholeParts'
    /\ StageIsHeld /\ UNCHANGED <<stage, session, object, work>> => StageIsHeld'
    /\ DownloadParts /\ UNCHANGED <<jobs, object>> => DownloadParts'
<1>1. WholeParts /\ UNCHANGED <<uploads, committed, dest, work, acks, jobs>> => WholeParts'
  BY DEF WholeParts, Whole
<1>2. StageIsHeld /\ UNCHANGED <<stage, session, object, work>> => StageIsHeld' BY DEF StageIsHeld
<1>3. DownloadParts /\ UNCHANGED <<jobs, object>> => DownloadParts'
  BY DEF DownloadParts, Downloading
<1>4. QED BY <1>1, <1>2, <1>3

\* The fields of sessions and of what a caller does.
LEMMA FileFields ==
    /\ \A o \in Object : /\ o.owner \in Client /\ o.live \in BOOLEAN
                         /\ o.upload \in 0..MaxUploads /\ o.downloading \in BOOLEAN
    /\ \A k \in Work : /\ k.sid \in 1..MaxSessions /\ k.up \in 1..MaxUploads /\ k.uploaded \in Nat
                       /\ k.data \in BOOLEAN /\ k.finished \in BOOLEAN /\ k.ok \in BOOLEAN
BY DEF Object, Work

\* A list that is extended.
LEMMA AppendElement ==
    ASSUME NEW S, NEW s \in Seq(S), NEW v \in S
    PROVE  /\ Append(s, v) \in Seq(S) /\ Len(Append(s, v)) = Len(s) + 1
           /\ DOMAIN Append(s, v) = DOMAIN s \cup {Len(s) + 1} /\ Len(s) + 1 \notin DOMAIN s
           /\ Len(s) + 1 \in DOMAIN Append(s, v)
           /\ \A j \in DOMAIN s : Append(s, v)[j] = s[j]
           /\ Append(s, v)[Len(s) + 1] = v
OBVIOUS

\* Caller w turns to k.
Turns(w, k) == work' = [work EXCEPT ![w] = k] /\ k \in Work \cup {Idle}

\* Upload u is whole after the step.
WholeNext(u) == uploads'[u].uploaded = uploads'[u].size /\ uploads'[u].intact

LEMMA TurnsFacts ==
    ASSUME FileIndInv, NEW w \in Caller, NEW k, Turns(w, k)
    PROVE  /\ work' \in [Caller -> Work \cup {Idle}] /\ work'[w] = k
           /\ \A v \in Caller : v # w => work'[v] = work[v]
BY FileTypes DEF Turns

\* Open
LEMMA OpenFileKeeps ==
    ASSUME FileIndInv, NEW w \in Caller, NEW c \in Client, Open(w, c)
    PROVE  FileIndInv'
<1> USE FileTypes
<1> DEFINE n == Len(object) + 1
           o == [owner |-> c, live |-> TRUE, upload |-> 0, downloading |-> FALSE]
<1>1. o \in Object BY DEF Object
<1>2. object' = Append(object, o) /\ session' = [session EXCEPT ![c] = n]
      /\ UNCHANGED <<closed, uploads, stage, dest, committed, work, jobs, acks, leaving>>
      /\ n \in 1..MaxSessions /\ session[c] = 0
  BY DEF Open, disk
<1>3. /\ object' \in Seq(Object) /\ Len(object') = n /\ DOMAIN object' = DOMAIN object \cup {n}
      /\ n \notin DOMAIN object
      /\ \A s \in DOMAIN object : object'[s] = object[s]
      /\ object'[n] = o
  BY <1>1, <1>2, AppendElement
<1>4. /\ session' \in [Client -> 0..MaxSessions] /\ session'[c] = n
      /\ \A d \in Client : d # c => session'[d] = session[d]
  BY <1>2
<1>5. o.upload = 0 OBVIOUS
<1> HIDE DEF n, o
<1>6. FileTypeOK' BY <1>2, <1>3, <1>4 DEF FileIndInv, FileTypeOK
<1>7. FileRefs'
  BY <1>2, <1>3, <1>4, <1>5 DEF FileIndInv, FileRefs
<1>8. WholeParts' BY <1>2, PartsKept DEF FileIndInv
<1>9. StageIsHeld'
  <2> SUFFICES ASSUME NEW u \in stage
               PROVE  \/ \E d \in Client : session'[d] # 0 /\ object'[session'[d]].upload = u
                      \/ \E v \in Caller : work'[v] # Idle /\ work'[v].at = "staged" /\ work'[v].up = u
    BY <1>2 DEF StageIsHeld
  <2>1. CASE \E d \in Client : session[d] # 0 /\ object[session[d]].upload = u
    <3>1. PICK d \in Client : session[d] # 0 /\ object[session[d]].upload = u BY <2>1
    <3>2. d # c /\ session[d] \in DOMAIN object BY <1>2, <3>1 DEF FileIndInv, FileRefs
    <3>3. QED BY <1>3, <1>4, <3>1, <3>2
  <2>2. CASE \E v \in Caller : work[v] # Idle /\ work[v].at = "staged" /\ work[v].up = u
    BY <1>2, <2>2
  <2>3. QED BY <2>1, <2>2 DEF FileIndInv, StageIsHeld
<1>10. DownloadParts' BY <1>2, <1>3 DEF FileIndInv, DownloadParts, Downloading, FileRefs
<1>11. QED BY <1>6, <1>7, <1>8, <1>9, <1>10 DEF FileIndInv

\* upload_start: the staging file is made.
LEMMA StartUploadKeeps ==
    ASSUME FileIndInv, NEW w \in Caller, NEW c \in Client, NEW p \in Path, NEW size \in Size,
           NEW install \in BOOLEAN, NEW fits \in BOOLEAN, StartUpload(w, c, p, size, install, fits)
    PROVE  FileIndInv'
<1> USE FileTypes
<1> DEFINE n == Len(uploads) + 1
           up == [path |-> p, size |-> size, uploaded |-> 0, intact |-> fits,
                  install |-> install, finishing |-> FALSE]
           k == [at |-> "staged", sid |-> session[c], up |-> n, data |-> FALSE,
                 uploaded |-> 0, finished |-> FALSE, ok |-> TRUE]
<1>1. up \in Upload BY DEF Upload
<1>2. n \in 1..MaxUploads /\ session[c] \in 1..MaxSessions /\ session[c] \in DOMAIN object
  BY DEF StartUpload, FileIndInv, FileRefs
<1>3. k \in Work BY <1>2 DEF Work
<1>4. /\ uploads' = Append(uploads, up) /\ stage' = stage \cup {n} /\ work' = [work EXCEPT ![w] = k]
      /\ UNCHANGED <<closed, session, object, dest, committed, jobs, acks, leaving>>
      /\ work[w] = Idle
  BY DEF StartUpload, Takes
<1>5. /\ uploads' \in Seq(Upload) /\ Len(uploads') = n /\ DOMAIN uploads' = DOMAIN uploads \cup {n}
      /\ n \notin DOMAIN uploads
      /\ \A u \in DOMAIN uploads : uploads'[u] = uploads[u]
      /\ uploads'[n] = up
  BY <1>1, <1>4, AppendElement
<1>6. /\ work' \in [Caller -> Work \cup {Idle}] /\ work'[w] = k
      /\ \A v \in Caller : v # w => work'[v] = work[v]
  BY <1>3, <1>4
<1>7. up.uploaded = 0 /\ up.size = size /\ size \in Nat BY FileAssumption
<1>8. k # Idle /\ k.at = "staged" /\ k.sid = session[c] /\ k.up = n BY <1>3
<1> HIDE DEF n, up, k
<1>9. FileTypeOK'
  <2>1. \A u \in DOMAIN uploads' : uploads'[u].uploaded <= uploads'[u].size
    BY <1>5, <1>7 DEF FileIndInv, FileTypeOK
  <2>2. QED BY <1>4, <1>5, <1>6, <2>1 DEF FileIndInv, FileTypeOK
<1>10. FileRefs'
  BY <1>2, <1>4, <1>5, <1>6, <1>8 DEF FileIndInv, FileRefs
<1>11. WholeParts'
  <2>1. \A u \in DOMAIN uploads : WholeNext(u) <=> Whole(u) BY <1>5 DEF Whole, WholeNext
  <2>2. \A u \in committed' : WholeNext(u) /\ uploads'[u].finishing
    BY <1>4, <1>5, <2>1 DEF FileIndInv, WholeParts, FileTypeOK
  <2>3. ASSUME NEW v \in Caller, work'[v] # Idle
        PROVE  /\ work'[v].at \in {"commit", "pushing"} =>
                    WholeNext(work'[v].up) /\ uploads'[work'[v].up].finishing
               /\ work'[v].at \in {"remove", "ack"} /\ work'[v].finished /\ work'[v].ok =>
                    work'[v].up \in committed'
    <3>1. CASE v = w BY <1>6, <1>8, <3>1
    <3>2. CASE v # w
      <4>1. work'[v] = work[v] /\ work[v] # Idle /\ work[v].up \in DOMAIN uploads
        BY <1>6, <2>3, <3>2 DEF FileIndInv, FileRefs
      <4>2. PICK x \in DOMAIN uploads : x = work[v].up BY <4>1
      <4>3. work[v].at \in {"commit", "pushing"} => WholeNext(x) /\ uploads'[x].finishing
        BY <1>5, <2>1, <4>1, <4>2 DEF FileIndInv, WholeParts
      <4>4. QED BY <1>4, <4>1, <4>2, <4>3 DEF FileIndInv, WholeParts
    <3>3. QED BY <3>1, <3>2
  <2>4. QED BY <1>4, <2>2, <2>3 DEF FileIndInv, WholeParts, Whole, WholeNext
<1>12. StageIsHeld'
  <2> SUFFICES ASSUME NEW u \in stage'
               PROVE  \/ \E d \in Client : session'[d] # 0 /\ object'[session'[d]].upload = u
                      \/ \E v \in Caller : work'[v] # Idle /\ work'[v].at = "staged" /\ work'[v].up = u
    BY DEF StageIsHeld
  <2>1. CASE u = n BY <1>6, <1>8, <2>1
  <2>2. CASE u \in stage
    <3>1. CASE \E d \in Client : session[d] # 0 /\ object[session[d]].upload = u
      BY <1>4, <3>1
    <3>2. CASE \E v \in Caller : work[v] # Idle /\ work[v].at = "staged" /\ work[v].up = u
      BY <1>4, <1>6, <3>2
    <3>3. QED BY <2>2, <3>1, <3>2 DEF FileIndInv, StageIsHeld
  <2>3. QED BY <1>4, <2>1, <2>2
<1>13. DownloadParts' BY <1>4, PartsKept DEF FileIndInv
<1>14. QED BY <1>9, <1>10, <1>11, <1>12, <1>13 DEF FileIndInv

\* The work k of a caller fits what was moved.
Fits(k) ==
    k # Idle =>
      /\ k.at \in {"commit", "pushing"} => Whole(k.up) /\ uploads[k.up].finishing
      /\ k.at \in {"remove", "ack"} /\ k.finished /\ k.ok => k.up \in committed'

\* A caller moves on, and perhaps moves its upload to its destination.
LEMMA WholeTurns ==
    ASSUME FileIndInv, NEW w \in Caller, NEW k, Turns(w, k), Fits(k), uploads' = uploads,
           committed \subseteq committed',
           \A u \in committed' : Whole(u) /\ uploads[u].finishing,
           \A p \in Path : dest'[p] > 0 => dest'[p] \in committed',
           \A a \in acks' : a.finished /\ a.ok => a.up \in committed',
           \A j \in DOMAIN jobs' : jobs'[j].up # 0 => jobs'[j].up \in committed'
    PROVE  WholeParts'
<1>1. ASSUME NEW v \in Caller, work'[v] # Idle
      PROVE  /\ work'[v].at \in {"commit", "pushing"} =>
                  WholeNext(work'[v].up) /\ uploads'[work'[v].up].finishing
             /\ work'[v].at \in {"remove", "ack"} /\ work'[v].finished /\ work'[v].ok =>
                  work'[v].up \in committed'
  <2>1. CASE v = w BY <1>1, <2>1, TurnsFacts DEF Fits, Whole, WholeNext
  <2>2. CASE v # w
    BY <1>1, <2>2, TurnsFacts DEF FileIndInv, WholeParts, Whole, WholeNext
  <2>3. QED BY <2>1, <2>2
<1>2. QED BY <1>1 DEF WholeParts, Whole, WholeNext

\* startUpload under the lock.
LEMMA AcceptUploadKeeps ==
    ASSUME FileIndInv, NEW w \in Caller, AcceptUpload(w)
    PROVE  FileIndInv'
<1> USE FileTypes
<1>1. PICK k \in Work : k = work[w] /\ k # Idle /\ k.at = "staged" BY DEF AcceptUpload, At
<1>2. k.sid \in DOMAIN object /\ k.up \in DOMAIN uploads /\ k.up \in 1..MaxUploads
  BY <1>1, FileFields DEF FileIndInv, FileRefs
<1>3. UNCHANGED <<closed, session, uploads, dest, committed, jobs, acks, leaving>> BY DEF AcceptUpload
<1>4. PICK m \in Work \cup {Idle} :
        /\ work' = [work EXCEPT ![w] = m]
        /\ m # Idle => m.at = "empty" /\ m.sid = k.sid /\ m.up = k.up
  <2>1. CASE work' = [work EXCEPT ![w].at = "empty"]
    <3>1. PICK m : m = [k EXCEPT !.at = "empty"] OBVIOUS
    <3>2. m \in Work /\ m.at = "empty" /\ m.sid = k.sid /\ m.up = k.up BY <3>1 DEF Work
    <3>3. work' = [work EXCEPT ![w] = m] BY <1>1, <2>1, <3>1
    <3>4. QED BY <3>2, <3>3
  <2>2. CASE work' = [work EXCEPT ![w] = Idle] BY <2>2
  <2>3. QED BY <2>1, <2>2 DEF AcceptUpload, Goto, Return
<1>5. Turns(w, m) BY <1>4 DEF Turns
<1>6. /\ work' \in [Caller -> Work \cup {Idle}] /\ work'[w] = m
      /\ \A v \in Caller : v # w => work'[v] = work[v]
  BY <1>5, TurnsFacts
<1>7. WholeParts'
  <2>1. Fits(m) BY <1>4 DEF Fits
  <2>2. QED BY <1>3, <1>5, <2>1, WholeTurns DEF FileIndInv, WholeParts
<1>8. CASE MayUpload(k.sid)
  <2>1. object' = [object EXCEPT ![k.sid].upload = k.up] /\ stage' = stage
    BY <1>1, <1>8 DEF AcceptUpload
  <2>2. PICK o \in Object : /\ o = [object[k.sid] EXCEPT !.upload = k.up]
                            /\ o.owner = object[k.sid].owner /\ o.upload = k.up
                            /\ o.downloading = object[k.sid].downloading
    <3>1. object[k.sid] \in Object BY <1>2
    <3>2. PICK o : o = [object[k.sid] EXCEPT !.upload = k.up] OBVIOUS
    <3>3. k.up \in 0..MaxUploads BY <1>2
    <3>4. /\ o \in Object /\ o.owner = object[k.sid].owner /\ o.upload = k.up
          /\ o.downloading = object[k.sid].downloading
      BY ONLY <3>1, <3>2, <3>3 DEF Object
    <3>5. QED BY <3>2, <3>4
  <2>3. object' = [object EXCEPT ![k.sid] = o] BY <2>1, <2>2
  <2>4. /\ object' \in Seq(Object) /\ Len(object') = Len(object) /\ DOMAIN object' = DOMAIN object
        /\ object'[k.sid] = o /\ \A s \in DOMAIN object : s # k.sid => object'[s] = object[s]
    BY <1>2, <2>3, ReplaceElement
  <2>5. object[k.sid].upload = 0 /\ session[object[k.sid].owner] = k.sid /\ object[k.sid].owner \in Client
    BY <1>2, <1>8, FileFields DEF MayUpload
  <2>6. FileTypeOK' BY <1>3, <1>6, <2>1, <2>4 DEF FileIndInv, FileTypeOK
  <2>7. FileRefs' BY <1>2, <1>3, <1>4, <1>6, <2>2, <2>4 DEF FileIndInv, FileRefs
  <2>8. StageIsHeld'
    <3> SUFFICES ASSUME NEW u \in stage
                 PROVE  \/ \E d \in Client : session'[d] # 0 /\ object'[session'[d]].upload = u
                        \/ \E v \in Caller : work'[v] # Idle /\ work'[v].at = "staged" /\ work'[v].up = u
      BY <2>1 DEF StageIsHeld
    <3>1. CASE \E d \in Client : session[d] # 0 /\ object[session[d]].upload = u
      <4>1. PICK d \in Client : session[d] # 0 /\ object[session[d]].upload = u BY <3>1
      <4>2. session[d] \in DOMAIN object /\ u # 0 BY <4>1 DEF FileIndInv, FileRefs, FileTypeOK
      <4>3. session[d] # k.sid BY <2>5, <4>1, <4>2
      <4>4. QED BY <1>3, <2>4, <4>1, <4>2, <4>3
    <3>2. CASE \E v \in Caller : work[v] # Idle /\ work[v].at = "staged" /\ work[v].up = u
      <4>1. PICK v \in Caller : work[v] # Idle /\ work[v].at = "staged" /\ work[v].up = u BY <3>2
      <4>2. CASE v = w
        <5>1. session'[object[k.sid].owner] = k.sid /\ k.sid # 0 BY <1>2, <1>3, <2>5
        <5>2. object'[k.sid].upload = u BY <1>1, <2>2, <2>4, <4>1, <4>2
        <5>3. QED BY <2>5, <5>1, <5>2
      <4>3. CASE v # w BY <1>6, <4>1, <4>3
      <4>4. QED BY <4>2, <4>3
    <3>3. QED BY <3>1, <3>2 DEF FileIndInv, StageIsHeld
  <2>9. DownloadParts'
    <3>1. \A s \in DOMAIN object : object'[s].downloading = object[s].downloading BY <2>2, <2>4
    <3>2. QED BY <1>3, <3>1 DEF FileIndInv, FileRefs, DownloadParts, Downloading
  <2>10. QED BY <1>7, <2>6, <2>7, <2>8, <2>9 DEF FileIndInv
<1>9. CASE ~MayUpload(k.sid)
  <2>1. object' = object /\ stage' = stage \ {k.up} BY <1>1, <1>9 DEF AcceptUpload
  <2>2. FileTypeOK' BY <1>3, <1>6, <2>1 DEF FileIndInv, FileTypeOK
  <2>3. FileRefs'
    <3>1. \A v \in Caller : work'[v] # Idle =>
            work'[v].sid \in DOMAIN object /\ work'[v].up \in DOMAIN uploads
      <4> SUFFICES ASSUME NEW v \in Caller, work'[v] # Idle
                   PROVE  work'[v].sid \in DOMAIN object /\ work'[v].up \in DOMAIN uploads
        OBVIOUS
      <4>1. CASE v = w BY <1>2, <1>4, <1>6, <4>1
      <4>2. CASE v # w BY <1>6, <4>2 DEF FileIndInv, FileRefs
      <4>3. QED BY <4>1, <4>2
    <3>2. object' = object /\ uploads' = uploads /\ session' = session /\ jobs' = jobs BY <1>3, <2>1
    <3>3. QED BY ONLY FileIndInv, <3>1, <3>2 DEF FileIndInv, FileRefs
  <2>4. StageIsHeld'
    <3>1. ASSUME NEW v \in Caller, NEW u \in stage', work[v] # Idle, work[v].at = "staged", work[v].up = u
          PROVE  work'[v] = work[v]
      BY <1>1, <1>6, <2>1, <3>1
    <3>2. QED BY <1>3, <2>1, <3>1 DEF FileIndInv, StageIsHeld
  <2>5. DownloadParts' BY <1>3, <2>1, PartsKept DEF FileIndInv
  <2>6. QED BY <1>7, <2>2, <2>3, <2>4, <2>5 DEF FileIndInv
<1>10. QED BY <1>8, <1>9

\* What is left alone when a caller goes on with a file it does not stage.
LEMMA HeldTurns ==
    ASSUME FileIndInv, NEW w \in Caller, NEW k, Turns(w, k),
           ~(work[w] # Idle /\ work[w].at = "staged"),
           stage' \subseteq stage, UNCHANGED <<session, object>>
    PROVE  StageIsHeld'
<1>1. ASSUME NEW v \in Caller, work[v] # Idle, work[v].at = "staged"
      PROVE  work'[v] = work[v]
  BY <1>1, TurnsFacts
<1>2. QED BY <1>1 DEF FileIndInv, StageIsHeld

\* CommitUpload begins, or fails before it has begun.
LEMMA CommitUploadKeeps ==
    ASSUME FileIndInv, NEW w \in Caller, CommitUpload(w)
    PROVE  FileIndInv'
<1> USE FileTypes
<1>1. PICK k \in Work : k = work[w] /\ k # Idle /\ k.at = "commit" BY DEF CommitUpload, At
<1>2. k.sid \in DOMAIN object /\ k.up \in DOMAIN uploads /\ Whole(k.up) /\ uploads[k.up].finishing
  BY <1>1 DEF FileIndInv, FileRefs, WholeParts
<1>3. UNCHANGED <<closed, session, object, uploads, stage, dest, committed, jobs, acks, leaving>>
  BY DEF CommitUpload, disk
<1>4. PICK m \in Work : /\ work' = [work EXCEPT ![w] = m] /\ m.sid = k.sid /\ m.up = k.up
                        /\ m.at = "pushing" \/ (m.at = "remove" /\ m.ok = FALSE)
  <2>1. CASE work' = [work EXCEPT ![w].at = "pushing"]
    <3>1. PICK m : m = [k EXCEPT !.at = "pushing"] OBVIOUS
    <3>2. m \in Work /\ m.at = "pushing" /\ m.sid = k.sid /\ m.up = k.up BY <3>1 DEF Work
    <3>3. work' = [work EXCEPT ![w] = m] BY <1>1, <2>1, <3>1
    <3>4. QED BY <3>2, <3>3
  <2>2. CASE work' = [work EXCEPT ![w].at = "remove", ![w].ok = FALSE]
    <3>1. PICK m : m = [k EXCEPT !.at = "remove", !.ok = FALSE] OBVIOUS
    <3>2. m \in Work /\ m.at = "remove" /\ m.ok = FALSE /\ m.sid = k.sid /\ m.up = k.up BY <3>1 DEF Work
    <3>3. work' = [work EXCEPT ![w] = m] BY <1>1, <2>2, <3>1
    <3>4. QED BY <3>2, <3>3
  <2>3. QED BY <2>1, <2>2 DEF CommitUpload, Goto
<1>5. Turns(w, m) BY <1>4 DEF Turns
<1>6. /\ work' \in [Caller -> Work \cup {Idle}] /\ work'[w] = m
      /\ \A v \in Caller : v # w => work'[v] = work[v]
  BY <1>5, TurnsFacts
<1>7. Fits(m) BY <1>2, <1>4 DEF Fits
<1>8. WholeParts' BY <1>3, <1>5, <1>7, WholeTurns DEF FileIndInv, WholeParts
<1>9. FileTypeOK' BY <1>3, <1>6 DEF FileIndInv, FileTypeOK
<1>10. FileRefs' BY <1>2, <1>3, <1>4, <1>6 DEF FileIndInv, FileRefs
<1>11. StageIsHeld' BY <1>1, <1>3, <1>5, HeldTurns
<1>12. DownloadParts' BY <1>3, PartsKept DEF FileIndInv
<1>13. QED BY <1>8, <1>9, <1>10, <1>11, <1>12 DEF FileIndInv

\* The move to the destination is made, or not.
LEMMA CommitReturnsKeeps ==
    ASSUME FileIndInv, NEW w \in Caller, CommitReturns(w)
    PROVE  FileIndInv'
<1> USE FileTypes
<1>1. PICK k \in Work : k = work[w] /\ k # Idle /\ k.at = "pushing" BY DEF CommitReturns, At
<1>2. /\ k.sid \in DOMAIN object /\ k.up \in DOMAIN uploads /\ Whole(k.up) /\ uploads[k.up].finishing
      /\ k.up \in 1..MaxUploads /\ uploads[k.up].path \in Path
  <2>1. k.sid \in DOMAIN object /\ k.up \in DOMAIN uploads /\ Whole(k.up) /\ uploads[k.up].finishing
    BY <1>1 DEF FileIndInv, FileRefs, WholeParts
  <2>2. uploads[k.up] \in Upload BY <2>1
  <2>3. QED BY <2>1, <2>2, FileFields DEF Upload
<1>3. UNCHANGED <<closed, session, object, uploads, stage, jobs, acks, leaving>> BY DEF CommitReturns
<1>4. PICK moved \in BOOLEAN, ok \in BOOLEAN :
        /\ ok => moved
        /\ work' = [work EXCEPT ![w].at = "remove", ![w].ok = ok]
        /\ IF moved THEN /\ dest' = [dest EXCEPT ![uploads[k.up].path] = k.up]
                         /\ committed' = committed \cup {k.up}
                    ELSE UNCHANGED <<dest, committed>>
  BY <1>1 DEF CommitReturns
<1>5. PICK m \in Work : /\ work' = [work EXCEPT ![w] = m] /\ m.sid = k.sid /\ m.up = k.up
                        /\ m.at = "remove" /\ m.ok = ok
  <2>1. PICK m : m = [k EXCEPT !.at = "remove", !.ok = ok] OBVIOUS
  <2>2. m \in Work /\ m.at = "remove" /\ m.ok = ok /\ m.sid = k.sid /\ m.up = k.up BY <2>1 DEF Work
  <2>3. work' = [work EXCEPT ![w] = m] BY <1>1, <1>4, <2>1
  <2>4. QED BY <2>2, <2>3
<1>6. Turns(w, m) BY <1>5 DEF Turns
<1>7. /\ work' \in [Caller -> Work \cup {Idle}] /\ work'[w] = m
      /\ \A v \in Caller : v # w => work'[v] = work[v]
  BY <1>6, TurnsFacts
<1>8. dest \in [Path -> -1..MaxUploads] /\ committed \subseteq DOMAIN uploads
  BY DEF FileIndInv, FileTypeOK
<1>9. /\ dest' \in [Path -> -1..MaxUploads] /\ committed' \subseteq DOMAIN uploads
      /\ committed \subseteq committed'
      /\ \A u \in committed' : Whole(u) /\ uploads[u].finishing
      /\ \A p \in Path : dest'[p] > 0 => dest'[p] \in committed'
      /\ ok => k.up \in committed'
  <2>1. CASE moved
    <3>1. dest' = [dest EXCEPT ![uploads[k.up].path] = k.up] /\ committed' = committed \cup {k.up}
      BY <1>4, <2>1
    <3>2. QED BY <1>2, <1>8, <3>1 DEF FileIndInv, WholeParts
  <2>2. CASE ~moved BY <1>4, <1>8, <2>2 DEF FileIndInv, WholeParts
  <2>3. QED BY <2>1, <2>2
<1>10. Fits(m) BY <1>5, <1>9 DEF Fits
<1>11. WholeParts' BY <1>3, <1>6, <1>9, <1>10, WholeTurns DEF FileIndInv, WholeParts
<1>12. FileTypeOK' BY <1>3, <1>7, <1>9 DEF FileIndInv, FileTypeOK
<1>13. FileRefs' BY <1>2, <1>3, <1>5, <1>7 DEF FileIndInv, FileRefs
<1>14. StageIsHeld' BY <1>1, <1>3, <1>6, HeldTurns
<1>15. DownloadParts' BY <1>3, PartsKept DEF FileIndInv
<1>16. QED BY <1>11, <1>12, <1>13, <1>14, <1>15 DEF FileIndInv

\* What Chunk makes of the upload of a session.
Chunked(w, c, n, u, up, k) ==
    /\ u \in DOMAIN uploads /\ ~uploads[u].finishing
    /\ uploads' = [uploads EXCEPT ![u] = up] /\ up \in Upload
    /\ up.size = uploads[u].size /\ up.uploaded <= up.size /\ u = object[session[c]].upload
    /\ uploads[u].uploaded <= up.uploaded /\ (k.data <=> n > 0)
    /\ k.uploaded = up.uploaded /\ (k.ok => up.uploaded = uploads[u].uploaded + n)
    /\ Turns(w, k) /\ k \in Work /\ k.up = u /\ k.sid = session[c] /\ session[c] \in DOMAIN object
    /\ k.at \in {"ack", "commit", "remove"}
    /\ k.at = "commit" => up.uploaded = up.size /\ up.intact /\ up.finishing /\ k.ok
    /\ k.at = "ack" => ~k.finished
    /\ k.at = "remove" => ~k.ok

\* Chunk does nothing, or counts a chunk and decides how to go on.
LEMMA ChunkIntoCases ==
    ASSUME FileIndInv, NEW w \in Caller, NEW c \in Client, NEW n \in Nat, NEW fits \in BOOLEAN,
           ChunkInto(w, c, n, fits)
    PROVE  \/ Turns(w, Idle) /\ uploads' = uploads
           \/ \E u, up, k : Chunked(w, c, n, u, up, k)
<1> USE FileTypes
<1> DEFINE sid == session[c]
           u == IF sid = 0 THEN 0 ELSE object[sid].upload
<1>1. CASE u = 0 \/ (u # 0 /\ uploads[u].finishing)
  <2>1. Return(w) /\ uploads' = uploads BY <1>1 DEF ChunkInto
  <2>2. QED BY <2>1 DEF Return, Turns
<1>2. CASE ~(u = 0 \/ (u # 0 /\ uploads[u].finishing))
  <2>1. sid \in DOMAIN object /\ sid \in 1..MaxSessions BY <1>2 DEF FileIndInv, FileRefs
  <2>2. u \in DOMAIN uploads /\ ~uploads[u].finishing /\ u \in 1..MaxUploads
    BY <1>2, <2>1 DEF FileIndInv, FileRefs
  <2>3. PICK r \in Upload : r = uploads[u] BY <2>2
  <2>4. /\ r.uploaded \in Nat /\ r.size \in Size /\ r.size \in Nat /\ r.intact \in BOOLEAN
        /\ r.uploaded <= r.size /\ r.finishing \in BOOLEAN
    BY <2>2, <2>3, FileAssumption DEF Upload, FileIndInv, FileTypeOK
  <2>5. PICK written \in (IF Exceeds(uploads[u], n) THEN {0} ELSE 0..n), stored \in BOOLEAN :
          LET total == uploads[u].uploaded + written
              upload == [uploads[u] EXCEPT !.uploaded = total, !.intact = @ /\ (fits \/ n = 0)]
              ok == written = n /\ Passes(upload, total, stored)
              finished == written # n \/ total = upload.size
          IN  /\ uploads' = [uploads EXCEPT ![u] = [upload EXCEPT !.finishing = finished]]
              /\ work' = [work EXCEPT ![w] =
                   [at |-> IF ~finished THEN "ack" ELSE IF ok THEN "commit" ELSE "remove",
                    sid |-> sid, up |-> u, data |-> n > 0, uploaded |-> total,
                    finished |-> finished, ok |-> ok]]
    BY ONLY <1>2, ChunkInto(w, c, n, fits) DEF ChunkInto
  <2> DEFINE total == r.uploaded + written
             upload == [r EXCEPT !.uploaded = total, !.intact = @ /\ (fits \/ n = 0)]
             ok == written = n /\ Passes(upload, total, stored)
             finished == written # n \/ total = upload.size
             k == [at |-> IF ~finished THEN "ack" ELSE IF ok THEN "commit" ELSE "remove",
                   sid |-> sid, up |-> u, data |-> n > 0, uploaded |-> total,
                   finished |-> finished, ok |-> ok]
             up == [upload EXCEPT !.finishing = finished]
  <2>6. total \in Nat /\ total <= r.size
    <3>1. written \in (IF r.uploaded + n > r.size THEN {0} ELSE 0..n) BY <2>3, <2>5 DEF Exceeds
    <3>2. QED BY ONLY <2>4, <3>1, n \in Nat
  <2>7. PICK x \in Upload : /\ x = upload /\ x.size = r.size /\ x.uploaded = total /\ x.intact \in BOOLEAN
    <3>1. PICK b \in BOOLEAN : b = (r.intact /\ (fits \/ n = 0)) OBVIOUS
    <3>2. PICK x : x = [r EXCEPT !.uploaded = total, !.intact = b] OBVIOUS
    <3>3. x \in Upload /\ x.size = r.size /\ x.uploaded = total BY ONLY r \in Upload, <2>6, <3>1, <3>2 DEF Upload
    <3>4. x = upload BY <3>1, <3>2
    <3>5. x.intact \in BOOLEAN BY <3>3 DEF Upload
    <3>6. QED BY <3>3, <3>4, <3>5
  <2>8. ok \in BOOLEAN /\ finished \in BOOLEAN OBVIOUS
  <2>9. PICK g \in BOOLEAN, f \in BOOLEAN : g = ok /\ f = finished BY <2>8
  <2>10. /\ f <=> (written # n \/ total = r.size)
         /\ g <=> (written = n /\ (total = r.size => x.intact /\ stored))
    BY <2>7, <2>9 DEF Passes
  <2>11. PICK y \in Upload : /\ y = up /\ y.size = r.size /\ y.uploaded = total /\ y.intact = x.intact
                             /\ y.finishing = f
    <3>1. PICK y : y = [x EXCEPT !.finishing = f] OBVIOUS
    <3>2. /\ y \in Upload /\ y.size = x.size /\ y.uploaded = x.uploaded /\ y.intact = x.intact
          /\ y.finishing = f
      BY ONLY x \in Upload, f \in BOOLEAN, <3>1 DEF Upload
    <3>3. y = up BY <2>7, <2>9, <3>1
    <3>4. QED BY <2>7, <3>2, <3>3
  <2>12. PICK a \in {"ack", "commit", "remove"} :
           a = IF ~f THEN "ack" ELSE IF g THEN "commit" ELSE "remove"
    OBVIOUS
  <2>13. PICK q \in Work : /\ q = k /\ q.at = a /\ q.sid = sid /\ q.up = u /\ q.finished = f /\ q.ok = g
                           /\ q.uploaded = total /\ (q.data <=> n > 0)
    <3>0. PICK d \in BOOLEAN : d = (n > 0)
      <4>1. (n > 0) \in BOOLEAN OBVIOUS
      <4>2. QED BY <4>1, Zenon
    <3>1. PICK q : q = [at |-> a, sid |-> sid, up |-> u, data |-> d, uploaded |-> total, finished |-> f,
                        ok |-> g]
      OBVIOUS
    <3>2. /\ q.at = a /\ q.sid = sid /\ q.up = u /\ q.finished = f /\ q.ok = g /\ q.uploaded = total
          /\ q.data <=> n > 0
      BY ONLY <3>0, <3>1
    <3>3. q \in Work BY <2>1, <2>2, <2>6, <3>1 DEF Work
    <3>4. q = k BY <2>9, <2>12, <3>0, <3>1
    <3>5. QED BY <3>2, <3>3, <3>4
  <2>14. uploads' = [uploads EXCEPT ![u] = y] /\ work' = [work EXCEPT ![w] = q]
    BY <2>3, <2>5, <2>11, <2>13
  <2>15. Chunked(w, c, n, u, y, q)
    <3>1. q.at = "commit" => y.uploaded = y.size /\ y.intact /\ y.finishing /\ q.ok
      BY <2>10, <2>11, <2>12, <2>13
    <3>2. (q.at = "ack" => ~q.finished) /\ (q.at = "remove" => ~q.ok)
      BY <2>12, <2>13
    <3>3. y.size = uploads[u].size /\ y.uploaded <= y.size BY <2>3, <2>6, <2>11
    <3>4. /\ r.uploaded <= y.uploaded /\ (q.data <=> n > 0)
          /\ (q.ok => y.uploaded = r.uploaded + n)
      <4>1. written \in Nat BY <2>5
      <4>2. QED BY <2>4, <2>6, <2>10, <2>11, <2>13, <4>1
    <3>5. u = object[session[c]].upload BY <1>2
    <3> HIDE DEF k, up, upload, ok, finished, total
    <3>6. QED
      BY <2>1, <2>2, <2>3, <2>11, <2>12, <2>13, <2>14, <3>1, <3>2, <3>3, <3>4, <3>5 DEF Chunked, Turns
  <2>16. QED BY <2>15
<1>3. QED BY <1>1, <1>2

\* Chunk, and the end of an empty upload.
LEMMA ChunkIntoKeeps ==
    ASSUME FileIndInv, NEW w \in Caller, NEW c \in Client, NEW n \in Nat, NEW fits \in BOOLEAN,
           ChunkInto(w, c, n, fits), ~(work[w] # Idle /\ work[w].at = "staged"),
           UNCHANGED <<closed, session, object, stage, dest, committed, jobs, acks, leaving>>
    PROVE  FileIndInv'
<1> USE FileTypes
<1>1. DownloadParts' BY PartsKept DEF FileIndInv
<1>2. CASE Turns(w, Idle) /\ uploads' = uploads
  <2>1. /\ work' \in [Caller -> Work \cup {Idle}] /\ work'[w] = Idle
        /\ \A v \in Caller : v # w => work'[v] = work[v]
    BY <1>2, TurnsFacts
  <2>2. FileTypeOK' BY <1>2, <2>1 DEF FileIndInv, FileTypeOK
  <2>3. FileRefs' BY <1>2, <2>1 DEF FileIndInv, FileRefs
  <2>4. Fits(Idle) BY DEF Fits
  <2>5. WholeParts' BY <1>2, <2>4, WholeTurns DEF FileIndInv, WholeParts
  <2>6. StageIsHeld' BY <1>2, HeldTurns
  <2>7. QED BY <1>1, <2>2, <2>3, <2>5, <2>6 DEF FileIndInv
<1>3. CASE \E u, up, k : Chunked(w, c, n, u, up, k)
  <2>1. PICK u, up, k : Chunked(w, c, n, u, up, k) BY <1>3
  <2>2. /\ u \in DOMAIN uploads /\ ~uploads[u].finishing /\ up \in Upload /\ up.uploaded <= up.size
        /\ uploads' = [uploads EXCEPT ![u] = up] /\ Turns(w, k) /\ k \in Work
        /\ k.up = u /\ k.sid \in DOMAIN object
    BY <2>1 DEF Chunked
  <2>3. /\ uploads' \in Seq(Upload) /\ Len(uploads') = Len(uploads) /\ DOMAIN uploads' = DOMAIN uploads
        /\ uploads'[u] = up /\ \A x \in DOMAIN uploads : x # u => uploads'[x] = uploads[x]
    BY <2>2, ReplaceElement
  <2>4. /\ work' \in [Caller -> Work \cup {Idle}] /\ work'[w] = k
        /\ \A v \in Caller : v # w => work'[v] = work[v]
    BY <2>2, TurnsFacts
  <2>5. FileTypeOK'
    <3>1. \A x \in DOMAIN uploads' : uploads'[x].uploaded <= uploads'[x].size
      BY <2>2, <2>3 DEF FileIndInv, FileTypeOK
    <3>2. QED BY <2>3, <2>4, <3>1 DEF FileIndInv, FileTypeOK
  <2>6. FileRefs' BY <2>2, <2>3, <2>4 DEF FileIndInv, FileRefs
  <2>7. WholeParts'
    <3>1. \A x \in DOMAIN uploads : x # u => (WholeNext(x) <=> Whole(x)) BY <2>3 DEF Whole, WholeNext
    <3>2. \A x \in committed' : WholeNext(x) /\ uploads'[x].finishing
      BY <2>2, <2>3, <3>1 DEF FileIndInv, WholeParts, FileTypeOK
    <3>3. ASSUME NEW v \in Caller, work'[v] # Idle
          PROVE  /\ work'[v].at \in {"commit", "pushing"} =>
                      WholeNext(work'[v].up) /\ uploads'[work'[v].up].finishing
                 /\ work'[v].at \in {"remove", "ack"} /\ work'[v].finished /\ work'[v].ok =>
                      work'[v].up \in committed'
      <4>1. CASE v = w
        <5>1. k.at = "commit" => WholeNext(u) /\ uploads'[u].finishing
          BY <2>1, <2>3 DEF Chunked, WholeNext
        <5>2. k.at \in {"ack", "commit", "remove"} /\ (k.at = "ack" => ~k.finished)
              /\ (k.at = "remove" => ~k.ok)
          BY <2>1 DEF Chunked
        <5>3. QED BY <2>2, <2>4, <4>1, <5>1, <5>2
      <4>2. CASE v # w
        <5>1. work'[v] = work[v] /\ work[v] # Idle /\ work[v].up \in DOMAIN uploads
          BY <2>4, <3>3, <4>2 DEF FileIndInv, FileRefs
        <5>2. PICK x \in DOMAIN uploads : x = work[v].up BY <5>1
        <5>3. work[v].at \in {"commit", "pushing"} => WholeNext(x) /\ uploads'[x].finishing
          BY <2>2, <2>3, <3>1, <5>1, <5>2 DEF FileIndInv, WholeParts
        <5>4. QED BY <5>1, <5>2, <5>3 DEF FileIndInv, WholeParts
      <4>3. QED BY <4>1, <4>2
    <3>4. QED BY <3>2, <3>3 DEF FileIndInv, WholeParts, Whole, WholeNext
  <2>8. StageIsHeld' BY <2>2, HeldTurns
  <2>9. QED BY <1>1, <2>5, <2>6, <2>7, <2>8 DEF FileIndInv
<1>4. QED BY <1>2, <1>3, ChunkIntoCases

\* The staging file is removed, and the session has no upload any more.
LEMMA RemoveStageKeeps ==
    ASSUME FileIndInv, NEW w \in Caller, RemoveStage(w)
    PROVE  FileIndInv'
<1> USE FileTypes
<1>1. PICK k \in Work : k = work[w] /\ k # Idle /\ k.at = "remove" BY DEF RemoveStage, At
<1>2. k.sid \in DOMAIN object /\ k.up \in DOMAIN uploads BY <1>1 DEF FileIndInv, FileRefs
<1>3. /\ UNCHANGED <<closed, session, uploads, dest, committed, jobs, acks, leaving>>
      /\ stage' = stage \ {k.up}
  BY <1>1 DEF RemoveStage
<1>4. PICK m \in Work : /\ work' = [work EXCEPT ![w] = m] /\ m.sid = k.sid /\ m.up = k.up
                        /\ m.at = "ack" /\ m.ok = k.ok /\ m.finished = k.finished
  <2>1. PICK m : m = [k EXCEPT !.at = "ack"] OBVIOUS
  <2>2. m \in Work /\ m.at = "ack" /\ m.sid = k.sid /\ m.up = k.up /\ m.ok = k.ok /\ m.finished = k.finished
    BY ONLY <2>1, k \in Work DEF Work
  <2>3. work' = [work EXCEPT ![w] = m] BY <1>1, <2>1 DEF RemoveStage, Goto
  <2>4. QED BY <2>2, <2>3
<1>5. Turns(w, m) BY <1>4 DEF Turns
<1>6. /\ work' \in [Caller -> Work \cup {Idle}] /\ work'[w] = m
      /\ \A v \in Caller : v # w => work'[v] = work[v]
  BY <1>5, TurnsFacts
<1>7. PICK o \in Object : /\ object' = [object EXCEPT ![k.sid] = o]
                          /\ o.upload = (IF object[k.sid].upload = k.up THEN 0 ELSE object[k.sid].upload)
                          /\ o.downloading = object[k.sid].downloading
  <2>1. PICK r \in Object : r = object[k.sid] BY <1>2
  <2>2. PICK x \in 0..MaxUploads : x = IF r.upload = k.up THEN 0 ELSE r.upload
    <3>1. r.upload \in 0..MaxUploads /\ 0 \in 0..MaxUploads BY FileFields
    <3>2. QED BY <3>1
  <2>3. PICK o : o = [r EXCEPT !.upload = x] OBVIOUS
  <2>4. o \in Object /\ o.upload = x /\ o.downloading = r.downloading
    BY ONLY r \in Object, x \in 0..MaxUploads, <2>3 DEF Object
  <2>5. object' = [object EXCEPT ![k.sid].upload = IF @ = k.up THEN 0 ELSE @]
    BY <1>1 DEF RemoveStage
  <2>6. object' = [object EXCEPT ![k.sid] = o] BY <2>1, <2>2, <2>3, <2>5
  <2>7. QED BY <2>1, <2>2, <2>4, <2>6
<1>8. /\ object' \in Seq(Object) /\ Len(object') = Len(object) /\ DOMAIN object' = DOMAIN object
      /\ object'[k.sid] = o /\ \A s \in DOMAIN object : s # k.sid => object'[s] = object[s]
  BY <1>2, <1>7, ReplaceElement
<1>9. FileTypeOK' BY <1>3, <1>6, <1>8 DEF FileIndInv, FileTypeOK
<1>10. FileRefs' BY <1>2, <1>3, <1>4, <1>6, <1>7, <1>8 DEF FileIndInv, FileRefs
<1>11. WholeParts'
  <2>1. Fits(m) BY <1>1, <1>3, <1>4 DEF Fits, FileIndInv, WholeParts
  <2>2. QED BY <1>3, <1>5, <2>1, WholeTurns DEF FileIndInv, WholeParts
<1>12. StageIsHeld'
  <2> SUFFICES ASSUME NEW u \in stage'
               PROVE  \/ \E d \in Client : session'[d] # 0 /\ object'[session'[d]].upload = u
                      \/ \E v \in Caller : work'[v] # Idle /\ work'[v].at = "staged" /\ work'[v].up = u
    BY DEF StageIsHeld
  <2>1. u \in stage /\ u # k.up BY <1>3
  <2>2. CASE \E d \in Client : session[d] # 0 /\ object[session[d]].upload = u
    <3>1. PICK d \in Client : session[d] # 0 /\ object[session[d]].upload = u BY <2>2
    <3>2. session[d] \in DOMAIN object BY <3>1 DEF FileIndInv, FileRefs
    <3>3. object'[session[d]].upload = u BY <1>7, <1>8, <2>1, <3>1, <3>2
    <3>4. QED BY <1>3, <3>1, <3>3
  <2>3. CASE \E v \in Caller : work[v] # Idle /\ work[v].at = "staged" /\ work[v].up = u
    <3>1. PICK v \in Caller : work[v] # Idle /\ work[v].at = "staged" /\ work[v].up = u BY <2>3
    <3>2. v # w BY <1>1, <3>1
    <3>3. QED BY <1>6, <3>1, <3>2
  <2>4. QED BY <2>1, <2>2, <2>3 DEF FileIndInv, StageIsHeld
<1>13. DownloadParts'
  <2>1. \A s \in DOMAIN object : object'[s].downloading = object[s].downloading BY <1>7, <1>8
  <2>2. QED BY <1>3, <2>1 DEF FileIndInv, FileRefs, DownloadParts, Downloading
<1>14. QED BY <1>9, <1>10, <1>11, <1>12, <1>13 DEF FileIndInv

\* One more goroutine.
LEMMA SpawnFacts ==
    ASSUME FileIndInv, NEW kind \in {"download", "install"}, NEW sid \in 1..MaxSessions,
           NEW u \in 0..MaxUploads, NEW left \in Nat, Spawn(kind, sid, u, left)
    PROVE  \E job \in Job : /\ job.kind = kind /\ job.sid = sid /\ job.up = u
                            /\ jobs' \in Seq(Job) /\ DOMAIN jobs' = DOMAIN jobs \cup {Len(jobs) + 1}
                            /\ Len(jobs) + 1 \notin DOMAIN jobs
                            /\ jobs'[Len(jobs) + 1] = job
                            /\ \A j \in DOMAIN jobs : jobs'[j] = jobs[j]
<1> USE FileTypes
<1>1. PICK job : job = [kind |-> kind, sid |-> sid, up |-> u, left |-> left, running |-> TRUE] OBVIOUS
<1>2. job \in Job /\ job.kind = kind /\ job.sid = sid /\ job.up = u BY <1>1 DEF Job
<1>3. jobs' = Append(jobs, job) BY <1>1 DEF Spawn
<1>4. QED BY <1>2, <1>3, AppendElement

\* The acknowledgement is sent, and an installation may start.
LEMMA AcknowledgeKeeps ==
    ASSUME FileIndInv, NEW w \in Caller, Acknowledge(w)
    PROVE  FileIndInv'
<1> USE FileTypes
<1>1. PICK k \in Work : k = work[w] /\ k # Idle /\ k.at = "ack" BY DEF Acknowledge, At
<1>2. /\ k.sid \in DOMAIN object /\ k.up \in DOMAIN uploads
      /\ k.sid \in 1..MaxSessions /\ k.up \in 1..MaxUploads
      /\ k.finished /\ k.ok => k.up \in committed
  BY <1>1, FileFields DEF FileIndInv, FileRefs, WholeParts
<1>3. /\ UNCHANGED <<closed, session, object, uploads, stage, dest, committed, leaving>>
      /\ work' = [work EXCEPT ![w] = Idle]
  BY DEF Acknowledge, Return, disk
<1>4. Turns(w, Idle) BY <1>3 DEF Turns
<1>5. /\ work' \in [Caller -> Work \cup {Idle}] /\ work'[w] = Idle
      /\ \A v \in Caller : v # w => work'[v] = work[v]
  BY <1>4, TurnsFacts
<1>6. \A a \in acks' : a.finished /\ a.ok => a.up \in committed
  <2>1. acks' = acks \cup {[up |-> k.up, data |-> k.data, uploaded |-> Progress(k),
                            finished |-> k.finished, ok |-> k.ok]}
    BY <1>1 DEF Acknowledge
  <2>2. QED BY <1>2, <2>1 DEF FileIndInv, WholeParts
<1>7. /\ jobs' \in Seq(Job) /\ DOMAIN jobs \subseteq DOMAIN jobs'
      /\ \A j \in DOMAIN jobs : jobs'[j] = jobs[j]
      /\ \A j \in DOMAIN jobs' : j \notin DOMAIN jobs =>
           jobs'[j].kind = "install" /\ jobs'[j].sid = k.sid /\ jobs'[j].up \in committed
  <2>1. CASE k.finished /\ k.ok /\ uploads[k.up].install
    <3>1. Spawn("install", k.sid, k.up, 0) /\ k.up \in 0..MaxUploads /\ 0 \in Nat
      BY <1>1, <1>2, <2>1 DEF Acknowledge
    <3>2. PICK job \in Job : /\ job.kind = "install" /\ job.sid = k.sid /\ job.up = k.up
                             /\ jobs' \in Seq(Job) /\ DOMAIN jobs' = DOMAIN jobs \cup {Len(jobs) + 1}
                             /\ Len(jobs) + 1 \notin DOMAIN jobs
                             /\ jobs'[Len(jobs) + 1] = job
                             /\ \A j \in DOMAIN jobs : jobs'[j] = jobs[j]
      <4>1. PICK a \in 1..MaxSessions, b \in 0..MaxUploads : a = k.sid /\ b = k.up BY <1>2, <3>1
      <4>2. Spawn("install", a, b, 0) BY <3>1, <4>1
      <4>3. PICK job \in Job : /\ job.kind = "install" /\ job.sid = a /\ job.up = b
                               /\ jobs' \in Seq(Job) /\ DOMAIN jobs' = DOMAIN jobs \cup {Len(jobs) + 1}
                               /\ Len(jobs) + 1 \notin DOMAIN jobs
                               /\ jobs'[Len(jobs) + 1] = job
                               /\ \A j \in DOMAIN jobs : jobs'[j] = jobs[j]
        BY ONLY FileIndInv, <3>1, <4>2, SpawnFacts
      <4>4. job.sid = k.sid /\ job.up = k.up BY ONLY <4>1, <4>3
      <4>5. QED BY ONLY <4>3, <4>4
    <3>3. QED BY <1>2, <2>1, <3>2
  <2>2. CASE ~(k.finished /\ k.ok /\ uploads[k.up].install)
    <3>1. jobs' = jobs BY <1>1, <2>2 DEF Acknowledge
    <3>2. QED BY <3>1
  <2>3. QED BY <2>1, <2>2
<1>8. FileTypeOK' BY <1>3, <1>5, <1>7 DEF FileIndInv, FileTypeOK
<1>9. FileRefs' BY <1>2, <1>3, <1>5, <1>7 DEF FileIndInv, FileRefs
<1>10. WholeParts'
  <2>1. Fits(Idle) BY DEF Fits
  <2>2. \A j \in DOMAIN jobs' : jobs'[j].up # 0 => jobs'[j].up \in committed
    BY <1>7 DEF FileIndInv, WholeParts
  <2>3. QED BY <1>3, <1>4, <1>6, <2>1, <2>2, WholeTurns DEF FileIndInv, WholeParts
<1>11. StageIsHeld' BY <1>1, <1>3, <1>4, HeldTurns
<1>12. DownloadParts' BY <1>3, <1>7 DEF FileIndInv, DownloadParts, Downloading
<1>13. QED BY <1>8, <1>9, <1>10, <1>11, <1>12 DEF FileIndInv

\* delete
LEMMA DeleteKeeps ==
    ASSUME FileIndInv, NEW w \in Caller, NEW c \in Client, NEW p \in Path, Delete(w, c, p)
    PROVE  FileIndInv'
<1> USE FileTypes
<1>1. /\ UNCHANGED <<closed, session, object, uploads, stage, committed, work, jobs, acks, leaving>>
      /\ dest' = [dest EXCEPT ![p] = -1]
  BY DEF Delete
<1>2. dest \in [Path -> -1..MaxUploads] BY DEF FileIndInv, FileTypeOK
<1>3. /\ dest' \in [Path -> -1..MaxUploads]
      /\ \A q \in Path : dest'[q] > 0 => dest'[q] \in committed
  BY <1>1, <1>2 DEF FileIndInv, WholeParts
<1>4. FileTypeOK' BY <1>1, <1>3 DEF FileIndInv, FileTypeOK
<1>5. FileRefs' BY <1>1 DEF FileIndInv, FileRefs
<1>6. WholeParts' BY <1>1, <1>3 DEF FileIndInv, WholeParts, Whole
<1>7. StageIsHeld' /\ DownloadParts' BY <1>1, PartsKept DEF FileIndInv
<1>8. QED BY <1>4, <1>5, <1>6, <1>7 DEF FileIndInv

\* Jobs do not change what was moved.
LEMMA WholeJobs ==
    ASSUME WholeParts, UNCHANGED <<uploads, committed, dest, work, acks>>,
           \A j \in DOMAIN jobs' : jobs'[j].up # 0 => jobs'[j].up \in committed
    PROVE  WholeParts'
BY DEF WholeParts, Whole

\* download_start
LEMMA StartDownloadKeeps ==
    ASSUME FileIndInv, NEW w \in Caller, NEW c \in Client, NEW size \in Size, StartDownload(w, c, size)
    PROVE  FileIndInv'
<1> USE FileTypes
<1>1. PICK s : s = session[c] OBVIOUS
<1>2. s \in 1..MaxSessions /\ s \in DOMAIN object BY <1>1 DEF StartDownload, FileIndInv, FileRefs
<1>3. /\ UNCHANGED <<closed, session, uploads, stage, dest, committed, work, acks, leaving>>
      /\ object' = [object EXCEPT ![s].downloading = TRUE] /\ Spawn("download", s, 0, size)
      /\ object[s].downloading = FALSE
  <2>1. ~object[s].downloading BY <1>1 DEF StartDownload, MayDownload
  <2>2. object[s].downloading \in BOOLEAN BY <1>2, FileFields
  <2>3. object[s].downloading = FALSE BY <2>1, <2>2
  <2>4. QED BY <1>1, <2>3 DEF StartDownload, disk
<1>4. PICK o \in Object : /\ object' = [object EXCEPT ![s] = o] /\ o.upload = object[s].upload
                          /\ o.downloading = TRUE
  <2>1. PICK r \in Object : r = object[s] BY <1>2
  <2>2. PICK o : o = [r EXCEPT !.downloading = TRUE] OBVIOUS
  <2>3. o \in Object /\ o.upload = r.upload /\ o.downloading = TRUE BY ONLY r \in Object, <2>2 DEF Object
  <2>4. object' = [object EXCEPT ![s] = o] BY <1>3, <2>1, <2>2
  <2>5. QED BY <2>1, <2>3, <2>4
<1>5. /\ object' \in Seq(Object) /\ Len(object') = Len(object) /\ DOMAIN object' = DOMAIN object
      /\ object'[s] = o /\ \A x \in DOMAIN object : x # s => object'[x] = object[x]
  BY <1>2, <1>4, ReplaceElement
<1>6. \A x \in DOMAIN object : /\ object'[x].upload = object[x].upload
                               /\ object[x].downloading => object'[x].downloading
  BY <1>4, <1>5
<1>7. PICK job \in Job : /\ job.kind = "download" /\ job.sid = s /\ job.up = 0
                         /\ jobs' \in Seq(Job) /\ DOMAIN jobs' = DOMAIN jobs \cup {Len(jobs) + 1}
                         /\ Len(jobs) + 1 \notin DOMAIN jobs
                         /\ jobs'[Len(jobs) + 1] = job
                         /\ \A j \in DOMAIN jobs : jobs'[j] = jobs[j]
  <2>1. size \in Nat /\ 0 \in 0..MaxUploads BY FileAssumption
  <2>2. QED BY <1>2, <1>3, <2>1, SpawnFacts
<1>8. FileTypeOK' BY <1>3, <1>5, <1>7 DEF FileIndInv, FileTypeOK
<1>9. FileRefs' BY <1>2, <1>3, <1>5, <1>6, <1>7 DEF FileIndInv, FileRefs
<1>10. WholeParts'
  <2>1. \A j \in DOMAIN jobs' : jobs'[j].up # 0 => jobs'[j].up \in committed
    BY <1>7 DEF FileIndInv, WholeParts
  <2>2. QED BY <1>3, <2>1, WholeJobs DEF FileIndInv
<1>11. StageIsHeld' BY <1>3, <1>6 DEF FileIndInv, FileRefs, StageIsHeld
<1>12. DownloadParts'
  <2>1. \A j \in DOMAIN jobs : Downloading(j) => jobs[j].sid # s
    BY <1>3 DEF FileIndInv, DownloadParts
  <2>2. \A j \in DOMAIN jobs' : jobs'[j].running /\ jobs'[j].kind = "download" =>
                                   object'[jobs'[j].sid].downloading
    <3> SUFFICES ASSUME NEW j \in DOMAIN jobs', jobs'[j].running, jobs'[j].kind = "download"
                 PROVE  object'[jobs'[j].sid].downloading
      OBVIOUS
    <3>1. CASE j \in DOMAIN jobs
      <4>1. jobs'[j] = jobs[j] /\ jobs[j].sid \in DOMAIN object BY <1>7, <3>1 DEF FileIndInv, FileRefs
      <4>2. object[jobs[j].sid].downloading BY <3>1, <4>1 DEF FileIndInv, DownloadParts, Downloading
      <4>3. QED BY <1>6, <4>1, <4>2
    <3>2. CASE j = Len(jobs) + 1 BY <1>4, <1>5, <1>7, <3>2
    <3>3. QED BY <1>7, <3>1, <3>2
  <2>3. \A i, j \in DOMAIN jobs' :
          (/\ jobs'[i].running /\ jobs'[i].kind = "download"
           /\ jobs'[j].running /\ jobs'[j].kind = "download" /\ jobs'[i].sid = jobs'[j].sid) => i = j
    BY <1>7, <2>1 DEF FileIndInv, DownloadParts, Downloading
  <2>4. QED BY <2>2, <2>3 DEF DownloadParts, Downloading
<1>13. QED BY <1>8, <1>9, <1>10, <1>11, <1>12 DEF FileIndInv

\* install_apk
LEMMA StartInstallKeeps ==
    ASSUME FileIndInv, NEW w \in Caller, NEW c \in Client, StartInstall(w, c)
    PROVE  FileIndInv'
<1> USE FileTypes
<1>1. PICK s : s = session[c] OBVIOUS
<1>2. s \in 1..MaxSessions /\ s \in DOMAIN object BY <1>1 DEF StartInstall, FileIndInv, FileRefs
<1>3. /\ UNCHANGED <<closed, session, object, uploads, stage, dest, committed, work, acks, leaving>>
      /\ Spawn("install", s, 0, 0)
  BY <1>1 DEF StartInstall, disk
<1>4. PICK job \in Job : /\ job.kind = "install" /\ job.sid = s /\ job.up = 0
                         /\ jobs' \in Seq(Job) /\ DOMAIN jobs' = DOMAIN jobs \cup {Len(jobs) + 1}
                         /\ Len(jobs) + 1 \notin DOMAIN jobs
                         /\ jobs'[Len(jobs) + 1] = job
                         /\ \A j \in DOMAIN jobs : jobs'[j] = jobs[j]
  <2>1. 0 \in Nat /\ 0 \in 0..MaxUploads OBVIOUS
  <2>2. QED BY ONLY FileIndInv, <1>2, <1>3, <2>1, SpawnFacts
<1>5. FileTypeOK' BY <1>3, <1>4 DEF FileIndInv, FileTypeOK
<1>6. FileRefs' BY <1>2, <1>3, <1>4 DEF FileIndInv, FileRefs
<1>7. WholeParts'
  <2>1. \A j \in DOMAIN jobs' : jobs'[j].up # 0 => jobs'[j].up \in committed
    BY <1>4 DEF FileIndInv, WholeParts
  <2>2. QED BY <1>3, <2>1, WholeJobs DEF FileIndInv
<1>8. StageIsHeld' BY <1>3, PartsKept DEF FileIndInv
<1>9. DownloadParts' BY <1>3, <1>4 DEF FileIndInv, DownloadParts, Downloading
<1>10. QED BY <1>5, <1>6, <1>7, <1>8, <1>9 DEF FileIndInv

\* A goroutine goes on or ends: it stays what it is, for its session.
JobStep(j, job) ==
    /\ jobs' = [jobs EXCEPT ![j] = job] /\ job \in Job
    /\ job.kind = jobs[j].kind /\ job.sid = jobs[j].sid /\ job.up = jobs[j].up

LEMMA JobStepFacts ==
    ASSUME FileIndInv, NEW j \in DOMAIN jobs, NEW job, JobStep(j, job)
    PROVE  /\ jobs' \in Seq(Job) /\ DOMAIN jobs' = DOMAIN jobs
           /\ jobs'[j] = job /\ \A i \in DOMAIN jobs : i # j => jobs'[i] = jobs[i]
           /\ \A i \in DOMAIN jobs : /\ jobs'[i].kind = jobs[i].kind /\ jobs'[i].sid = jobs[i].sid
                                     /\ jobs'[i].up = jobs[i].up
<1>1. /\ jobs' \in Seq(Job) /\ DOMAIN jobs' = DOMAIN jobs
      /\ jobs'[j] = job /\ \A i \in DOMAIN jobs : i # j => jobs'[i] = jobs[i]
  BY FileTypes, ReplaceElement DEF JobStep
<1>2. QED BY <1>1 DEF JobStep

\* The end of a goroutine.
LEMMA JobEnds ==
    ASSUME FileIndInv, NEW j \in DOMAIN jobs, jobs' = [jobs EXCEPT ![j].running = FALSE]
    PROVE  \E job : JobStep(j, job) /\ job.running = FALSE
<1>1. PICK r \in Job : r = jobs[j] BY FileTypes
<1>2. PICK job : job = [r EXCEPT !.running = FALSE] OBVIOUS
<1>3. job \in Job /\ job.kind = r.kind /\ job.sid = r.sid /\ job.up = r.up /\ job.running = FALSE
  BY ONLY r \in Job, <1>2 DEF Job
<1>4. jobs' = [jobs EXCEPT ![j] = job] BY <1>1, <1>2
<1>5. QED BY <1>1, <1>3, <1>4 DEF JobStep

\* A step of a goroutine that leaves the sessions alone and starts no download.
LEMMA JobKeeps ==
    ASSUME FileIndInv, NEW j \in DOMAIN jobs, NEW job, JobStep(j, job),
           Downloading(j) \/ job.running = FALSE \/ job.kind # "download",
           UNCHANGED <<closed, session, object, uploads, stage, dest, committed, work, acks, leaving>>
    PROVE  FileIndInv'
<1> USE FileTypes
<1>1. /\ jobs' \in Seq(Job) /\ DOMAIN jobs' = DOMAIN jobs
      /\ jobs'[j] = job /\ \A i \in DOMAIN jobs : i # j => jobs'[i] = jobs[i]
      /\ \A i \in DOMAIN jobs : /\ jobs'[i].kind = jobs[i].kind /\ jobs'[i].sid = jobs[i].sid
                                /\ jobs'[i].up = jobs[i].up
  BY JobStepFacts
<1>2. FileTypeOK' BY <1>1 DEF FileIndInv, FileTypeOK
<1>3. FileRefs' BY <1>1 DEF FileIndInv, FileRefs
<1>4. WholeParts'
  <2>1. \A i \in DOMAIN jobs' : jobs'[i].up # 0 => jobs'[i].up \in committed
    BY <1>1 DEF FileIndInv, WholeParts
  <2>2. QED BY <2>1, WholeJobs DEF FileIndInv
<1>5. StageIsHeld' BY PartsKept DEF FileIndInv
<1>6. DownloadParts'
  <2>1. \A i \in DOMAIN jobs : jobs'[i].running /\ jobs'[i].kind = "download" => Downloading(i)
    BY <1>1 DEF Downloading
  <2>2. QED BY <1>1, <2>1 DEF FileIndInv, DownloadParts, Downloading
<1>7. QED BY <1>2, <1>3, <1>4, <1>5, <1>6 DEF FileIndInv

LEMMA InstallEndsKeeps ==
    ASSUME FileIndInv, NEW j \in DOMAIN jobs, InstallEnds(j)
    PROVE  FileIndInv'
<1>1. PICK job : JobStep(j, job) /\ job.running = FALSE BY JobEnds DEF InstallEnds
<1>2. QED BY <1>1, JobKeeps DEF InstallEnds, disk

LEMMA DownloadChunkKeeps ==
    ASSUME FileIndInv, NEW j \in DOMAIN jobs, DownloadChunk(j)
    PROVE  FileIndInv'
<1>1. PICK r \in Job : r = jobs[j] BY FileTypes
<1>2. r.left \in Nat /\ r.left > 0 BY <1>1 DEF DownloadChunk, GoesOn, Job
<1>3. PICK job : job = [r EXCEPT !.left = r.left - 1] OBVIOUS
<1>4. r.left - 1 \in Nat BY <1>2
<1>5. job \in Job /\ job.kind = r.kind /\ job.sid = r.sid /\ job.up = r.up
  BY ONLY r \in Job, <1>3, <1>4 DEF Job
<1>6. jobs' = [jobs EXCEPT ![j] = job] BY <1>1, <1>3 DEF DownloadChunk
<1>7. JobStep(j, job) BY <1>1, <1>5, <1>6 DEF JobStep
<1>8. QED BY <1>7, JobKeeps DEF DownloadChunk, Downloading, disk

\* A download ends, and its session may start another.
LEMMA DownloadEndsKeeps ==
    ASSUME FileIndInv, NEW j \in DOMAIN jobs, DownloadEnds(j)
    PROVE  FileIndInv'
<1> USE FileTypes
<1>1. PICK job : JobStep(j, job) /\ job.running = FALSE BY JobEnds DEF DownloadEnds
<1>2. /\ jobs' \in Seq(Job) /\ DOMAIN jobs' = DOMAIN jobs
      /\ jobs'[j] = job /\ \A i \in DOMAIN jobs : i # j => jobs'[i] = jobs[i]
      /\ \A i \in DOMAIN jobs : /\ jobs'[i].kind = jobs[i].kind /\ jobs'[i].sid = jobs[i].sid
                                /\ jobs'[i].up = jobs[i].up
  BY <1>1, JobStepFacts
<1>3. PICK s \in DOMAIN object : s = jobs[j].sid BY DEF FileIndInv, FileRefs
<1>4. /\ UNCHANGED <<closed, session, uploads, stage, dest, committed, work, acks, leaving>>
      /\ object' = [object EXCEPT ![s].downloading = FALSE] /\ Downloading(j)
  BY <1>3 DEF DownloadEnds, Downloading, disk
<1>5. PICK o \in Object : object' = [object EXCEPT ![s] = o] /\ o.upload = object[s].upload
  <2>1. PICK r \in Object : r = object[s] BY <1>3
  <2>2. PICK o : o = [r EXCEPT !.downloading = FALSE] OBVIOUS
  <2>3. o \in Object /\ o.upload = r.upload BY ONLY r \in Object, <2>2 DEF Object
  <2>4. object' = [object EXCEPT ![s] = o] BY <1>4, <2>1, <2>2
  <2>5. QED BY <2>1, <2>3, <2>4
<1>6. /\ object' \in Seq(Object) /\ Len(object') = Len(object) /\ DOMAIN object' = DOMAIN object
      /\ object'[s] = o /\ \A x \in DOMAIN object : x # s => object'[x] = object[x]
  BY <1>5, ReplaceElement
<1>7. \A x \in DOMAIN object : object'[x].upload = object[x].upload BY <1>5, <1>6
<1>8. FileTypeOK' BY <1>2, <1>4, <1>6 DEF FileIndInv, FileTypeOK
<1>9. FileRefs' BY <1>2, <1>4, <1>6, <1>7 DEF FileIndInv, FileRefs
<1>10. WholeParts'
  <2>1. \A i \in DOMAIN jobs' : jobs'[i].up # 0 => jobs'[i].up \in committed
    BY <1>2 DEF FileIndInv, WholeParts
  <2>2. QED BY <1>4, <2>1, WholeJobs DEF FileIndInv
<1>11. StageIsHeld' BY <1>4, <1>7 DEF FileIndInv, FileRefs, StageIsHeld
<1>12. DownloadParts'
  <2>1. \A i \in DOMAIN jobs : jobs'[i].running /\ jobs'[i].kind = "download" =>
                                  Downloading(i) /\ i # j
    BY <1>1, <1>2 DEF Downloading
  <2>2. \A i \in DOMAIN jobs : Downloading(i) /\ i # j => jobs[i].sid # s
    BY <1>3, <1>4 DEF FileIndInv, DownloadParts
  <2>3. \A i \in DOMAIN jobs : jobs'[i].running /\ jobs'[i].kind = "download" =>
                                  object'[jobs'[i].sid].downloading
    BY <1>2, <1>6, <2>1, <2>2 DEF FileIndInv, FileRefs, DownloadParts
  <2>4. \A h, i \in DOMAIN jobs :
          (/\ jobs'[h].running /\ jobs'[h].kind = "download"
           /\ jobs'[i].running /\ jobs'[i].kind = "download" /\ jobs'[h].sid = jobs'[i].sid) => h = i
    BY <1>2, <2>1 DEF FileIndInv, DownloadParts
  <2>5. QED BY <1>2, <2>3, <2>4 DEF DownloadParts, Downloading
<1>13. QED BY <1>8, <1>9, <1>10, <1>11, <1>12 DEF FileIndInv

\* Discard: the staging files go with the sessions.
LEMMA DiscardKeeps ==
    ASSUME FileIndInv, NEW cs \in SUBSET Client, Discard(cs), closed' \in BOOLEAN, leaving' \subseteq Client,
           UNCHANGED <<uploads, dest, committed, work, jobs, acks>>
    PROVE  FileIndInv'
<1> USE FileTypes
<1> DEFINE sids == {session[c] : c \in cs} \ {0}
<1>1. /\ stage' = stage \ {object[s].upload : s \in sids}
      /\ session' = [c \in Client |-> IF c \in cs THEN 0 ELSE session[c]]
      /\ object' = [s \in DOMAIN object |->
                      IF s \in sids THEN [object[s] EXCEPT !.live = FALSE] ELSE object[s]]
  BY DEF Discard
<1>2. \A s \in DOMAIN object : /\ object'[s] \in Object /\ object'[s].upload = object[s].upload
                               /\ object'[s].downloading = object[s].downloading
  <2> SUFFICES ASSUME NEW s \in DOMAIN object
               PROVE  /\ object'[s] \in Object /\ object'[s].upload = object[s].upload
                      /\ object'[s].downloading = object[s].downloading
    OBVIOUS
  <2>1. PICK r \in Object : r = object[s] OBVIOUS
  <2>2. PICK o : o = [r EXCEPT !.live = FALSE] OBVIOUS
  <2>3. o \in Object /\ o.upload = r.upload /\ o.downloading = r.downloading
    BY ONLY r \in Object, <2>2 DEF Object
  <2>4. object'[s] = o \/ object'[s] = r BY <1>1, <2>1, <2>2
  <2>5. QED BY <2>1, <2>3, <2>4
<1>3. DOMAIN object' = DOMAIN object /\ object' \in Seq(Object) /\ Len(object') = Len(object)
  <2>1. DOMAIN object' = 1..Len(object) BY <1>1
  <2>2. object' = [s \in 1..Len(object) |-> object'[s]] BY <1>1
  <2>3. object' \in Seq(Object) BY <1>2, <2>1, <2>2
  <2>4. QED BY <2>1, <2>3
<1>4. /\ session' \in [Client -> 0..MaxSessions]
      /\ \A c \in Client : session'[c] = (IF c \in cs THEN 0 ELSE session[c])
  BY <1>1
<1>5. \A c \in cs : session[c] # 0 => object[session[c]].upload \notin stage' BY <1>1
<1> HIDE DEF sids
<1>6. stage' \subseteq stage BY <1>1
<1>7. FileTypeOK' BY <1>3, <1>4, <1>6 DEF FileIndInv, FileTypeOK
<1>8. FileRefs' BY <1>2, <1>3, <1>4 DEF FileIndInv, FileRefs
<1>9. WholeParts' BY PartsKept DEF FileIndInv
<1>10. StageIsHeld'
  <2> SUFFICES ASSUME NEW u \in stage'
               PROVE  \/ \E d \in Client : session'[d] # 0 /\ object'[session'[d]].upload = u
                      \/ \E v \in Caller : work'[v] # Idle /\ work'[v].at = "staged" /\ work'[v].up = u
    BY DEF StageIsHeld
  <2>1. CASE \E d \in Client : session[d] # 0 /\ object[session[d]].upload = u
    <3>1. PICK d \in Client : session[d] # 0 /\ object[session[d]].upload = u BY <2>1
    <3>2. session[d] \in DOMAIN object BY <3>1 DEF FileIndInv, FileRefs
    <3>3. d \notin cs BY <1>5, <3>1
    <3>4. QED BY <1>2, <1>4, <3>1, <3>2, <3>3
  <2>2. CASE \E v \in Caller : work[v] # Idle /\ work[v].at = "staged" /\ work[v].up = u BY <2>2
  <2>3. QED BY <1>6, <2>1, <2>2 DEF FileIndInv, StageIsHeld
<1>11. DownloadParts' BY <1>2, <1>3 DEF FileIndInv, FileRefs, DownloadParts, Downloading
<1>12. QED BY <1>7, <1>8, <1>9, <1>10, <1>11 DEF FileIndInv

\* Every step of the file sessions keeps the inductive invariant.
LEMMA FileStep == FileIndInv /\ [FileNext]_fileVars => FileIndInv'
<1> SUFFICES ASSUME FileIndInv, [FileNext]_fileVars PROVE FileIndInv'
  OBVIOUS
<1>1. CASE UNCHANGED fileVars
  <2>1. FileTypeOK' BY <1>1 DEF fileVars, FileIndInv, FileTypeOK
  <2>2. FileRefs' BY <1>1 DEF fileVars, FileIndInv, FileRefs
  <2>3. QED BY <1>1, <2>1, <2>2, PartsKept DEF fileVars, FileIndInv
<1>2. ASSUME NEW w \in Caller, Inside(w) \/ Close(w) PROVE FileIndInv'
  <2>1. CASE EmptyFile(w)
    <3>1. At(w, "empty") /\ ~(work[w] # Idle /\ work[w].at = "staged") BY <2>1 DEF EmptyFile, At
    <3>2. work[w].sid \in DOMAIN object BY <3>1 DEF At, FileIndInv, FileRefs
    <3>3. PICK c \in Client : c = object[work[w].sid].owner BY <3>2, FileTypes, FileFields
    <3>4. ChunkInto(w, c, 0, TRUE) BY <2>1, <3>3 DEF EmptyFile
    <3>5. UNCHANGED <<closed, session, object, stage, dest, committed, jobs, acks, leaving>>
      BY <2>1 DEF EmptyFile, disk
    <3>6. 0 \in Nat /\ TRUE \in BOOLEAN OBVIOUS
    <3>7. QED BY <3>1, <3>4, <3>5, <3>6, ChunkIntoKeeps
  <2>2. CASE Close(w)
    <3>1. /\ Discard(Client) /\ closed' \in BOOLEAN /\ leaving' \subseteq Client
          /\ UNCHANGED <<uploads, dest, committed, work, jobs, acks>> /\ Client \in SUBSET Client
      BY <2>2 DEF Close
    <3>2. QED BY <3>1, DiscardKeeps
  <2>3. QED BY <1>2, <2>1, <2>2, AcceptUploadKeeps, CommitUploadKeeps, CommitReturnsKeeps,
               RemoveStageKeeps, AcknowledgeKeeps DEF Inside
<1>3. ASSUME NEW w \in Caller, NEW c \in Client, CloseClient(w, c) PROVE FileIndInv'
  <2>1. /\ Discard({c}) /\ closed' \in BOOLEAN /\ leaving' \subseteq Client /\ {c} \in SUBSET Client
        /\ UNCHANGED <<uploads, dest, committed, work, jobs, acks>>
    BY <1>3 DEF CloseClient, FileIndInv, FileTypeOK
  <2>2. QED BY <2>1, DiscardKeeps
<1>4. ASSUME NEW w \in Caller, NEW c \in Client, NEW n \in ChunkSize, NEW fits \in BOOLEAN,
             Chunk(w, c, n, fits)
      PROVE  FileIndInv'
  <2>1. /\ ChunkInto(w, c, n, fits) /\ work[w] = Idle /\ n \in Nat
        /\ UNCHANGED <<closed, session, object, stage, dest, committed, jobs, acks, leaving>>
    BY <1>4, FileAssumption DEF Chunk, Takes, disk
  <2>2. QED BY <2>1, ChunkIntoKeeps
<1>5. ASSUME NEW c \in Client, BrowserLeaves(c) PROVE FileIndInv'
  <2>1. /\ UNCHANGED <<closed, session, object, uploads, stage, dest, committed, work, jobs, acks>>
        /\ leaving' \subseteq Client
    BY <1>5 DEF BrowserLeaves, disk, FileIndInv, FileTypeOK
  <2>2. FileTypeOK' BY <2>1 DEF FileIndInv, FileTypeOK
  <2>3. FileRefs' BY <2>1 DEF FileIndInv, FileRefs
  <2>4. QED BY <2>1, <2>2, <2>3, PartsKept DEF FileIndInv
<1>6. QED
  BY <1>1, <1>2, <1>3, <1>4, <1>5, OpenFileKeeps, StartInstallKeeps, DeleteKeeps, StartUploadKeeps,
     StartDownloadKeeps, DownloadChunkKeeps, DownloadEndsKeeps, InstallEndsKeeps DEF FileNext

\* Only whole files are moved to their destination or installed, sessions leave no
\* staging file behind however they end, and a session has one download at a time.
THEOREM OnlyWholeFilesArrive == FileSpec => []FileInv
<1>1. FileSpec => []FileIndInv BY FileStarts, FileStep, PTL DEF FileSpec
<1>2. QED BY <1>1, FileIndImplies, PTL

\* The work k of a caller is about a chunk with data that went well.
Answered(k) == k # Idle /\ k.at \in {"commit", "pushing", "remove", "ack"} /\ k.data /\ k.ok

Ack == [up: 1..MaxUploads, data: BOOLEAN, uploaded: Nat, finished: BOOLEAN, ok: BOOLEAN]

\* Upload u has come to x.
Within(u, x) == u \in DOMAIN uploads /\ x <= uploads[u].uploaded

\* Progress that was answered, or will be, was made; each once.
AckParts ==
    /\ acks \subseteq Ack
    /\ \A w \in Caller : At(w, "commit") \/ At(w, "pushing") => work[w].ok
    /\ \A w \in Caller : Answered(work[w]) => Within(work[w].up, work[w].uploaded)
    /\ \A a \in acks : a.data /\ a.ok => Within(a.up, a.uploaded)
    /\ \A v, w \in Caller :
         v # w /\ Answered(work[v]) /\ Answered(work[w]) /\ work[v].up = work[w].up =>
           work[v].uploaded # work[w].uploaded
    /\ \A w \in Caller, a \in acks :
         Answered(work[w]) /\ a.data /\ a.ok /\ a.up = work[w].up => a.uploaded # work[w].uploaded

\* The same after a step.
WithinNext(u, x) == u \in DOMAIN uploads' /\ x <= uploads'[u].uploaded

\* Uploads are there for good, and only grow.
UploadsGrow ==
    \A u \in DOMAIN uploads : u \in DOMAIN uploads' /\ uploads[u].uploaded <= uploads'[u].uploaded

LEMMA GrowFacts ==
    ASSUME FileIndInv, FileIndInv', UploadsGrow
    PROVE  \A u, x : x \in Nat /\ Within(u, x) => WithinNext(u, x)
<1>1. \A u \in DOMAIN uploads : uploads[u].uploaded \in Nat /\ uploads'[u].uploaded \in Nat
  <2> SUFFICES ASSUME NEW u \in DOMAIN uploads
               PROVE  uploads[u].uploaded \in Nat /\ uploads'[u].uploaded \in Nat
    OBVIOUS
  <2>1. u \in DOMAIN uploads' BY DEF UploadsGrow
  <2>2. uploads \in Seq(Upload) /\ uploads' \in Seq(Upload) BY DEF FileIndInv, FileTypeOK
  <2>3. uploads[u] \in Upload /\ uploads'[u] \in Upload BY <2>1, <2>2
  <2>4. QED BY <2>3 DEF Upload
<1>2. QED BY <1>1 DEF UploadsGrow, Within, WithinNext

LEMMA WorkUploaded ==
    ASSUME FileIndInv, NEW w \in Caller, Answered(work[w])
    PROVE  work[w].uploaded \in Nat /\ work[w].ok \in BOOLEAN
BY FileTypes, FileFields DEF Answered

\* Caller w does not answer anew.
QuietBy(w) ==
    /\ UploadsGrow /\ acks' = acks
    /\ \A v \in Caller : v # w => work'[v] = work[v]
    /\ Answered(work'[w]) =>
         Answered(work[w]) /\ work'[w].up = work[w].up /\ work'[w].uploaded = work[w].uploaded
    /\ work'[w] # Idle /\ work'[w].at \in {"commit", "pushing"} => work'[w].ok

\* What a quiet step keeps.
LEMMA QuietKeeps ==
    ASSUME FileIndInv, FileIndInv', AckParts, NEW w \in Caller, QuietBy(w)
    PROVE  AckParts'
<1>1. \A u, x : x \in Nat /\ Within(u, x) => WithinNext(u, x) BY GrowFacts DEF QuietBy
<1>2. \A v \in Caller : Answered(work'[v]) =>
        Answered(work[v]) /\ work'[v].up = work[v].up /\ work'[v].uploaded = work[v].uploaded
  BY DEF QuietBy
<1>3. \A v \in Caller : Answered(work'[v]) => WithinNext(work'[v].up, work'[v].uploaded)
  BY <1>1, <1>2, WorkUploaded DEF AckParts
<1>4. \A a \in acks' : a.data /\ a.ok => WithinNext(a.up, a.uploaded)
  BY <1>1 DEF AckParts, Ack, QuietBy
<1>5. \A v, x \in Caller :
        v # x /\ Answered(work'[v]) /\ Answered(work'[x]) /\ work'[v].up = work'[x].up =>
          work'[v].uploaded # work'[x].uploaded
  BY <1>2 DEF AckParts
<1>6. \A v \in Caller, a \in acks' :
        Answered(work'[v]) /\ a.data /\ a.ok /\ a.up = work'[v].up => a.uploaded # work'[v].uploaded
  BY <1>2 DEF AckParts, QuietBy
<1>7. \A v \in Caller : work'[v] # Idle /\ work'[v].at \in {"commit", "pushing"} => work'[v].ok
  BY DEF AckParts, QuietBy, At
<1>8. QED
  BY <1>3, <1>4, <1>5, <1>6, <1>7 DEF AckParts, Within, WithinNext, QuietBy, At

\* Uploads that stay as they are have grown in the weak sense.
LEMMA SameUploads == FileIndInv /\ uploads' = uploads => UploadsGrow
<1> SUFFICES ASSUME FileIndInv, uploads' = uploads PROVE UploadsGrow
  OBVIOUS
<1>1. \A u \in DOMAIN uploads : uploads[u].uploaded \in Nat BY FileTypes DEF Upload
<1>2. QED BY <1>1 DEF UploadsGrow

\* A caller outside the manager does something that leaves it there.
LEMMA IdleIsQuiet ==
    ASSUME FileIndInv, NEW w \in Caller, work[w] = Idle, UNCHANGED <<work, uploads, acks>>
    PROVE  QuietBy(w)
BY SameUploads DEF QuietBy, Answered

\* startUpload makes the staging file.
LEMMA StagingIsQuiet ==
    ASSUME FileIndInv, NEW w \in Caller, NEW c \in Client, NEW p \in Path, NEW size \in Size,
           NEW install \in BOOLEAN, NEW fits \in BOOLEAN, StartUpload(w, c, p, size, install, fits)
    PROVE  QuietBy(w)
<1> USE FileTypes
<1> DEFINE up == [path |-> p, size |-> size, uploaded |-> 0, intact |-> fits,
                  install |-> install, finishing |-> FALSE]
<1>1. up \in Upload BY DEF Upload
<1>2. uploads' = Append(uploads, up) /\ acks' = acks BY DEF StartUpload
<1>3. DOMAIN uploads \subseteq DOMAIN uploads' /\ \A u \in DOMAIN uploads : uploads'[u] = uploads[u]
  BY <1>1, <1>2, AppendElement
<1> HIDE DEF up
<1>4. \A u \in DOMAIN uploads : uploads[u].uploaded \in Nat BY DEF Upload
<1>5. UploadsGrow BY <1>3, <1>4 DEF UploadsGrow
<1>6. work'[w].at = "staged" /\ \A v \in Caller : v # w => work'[v] = work[v] BY DEF StartUpload
<1>7. QED BY <1>2, <1>5, <1>6 DEF QuietBy, Answered

\* startUpload under the lock.
LEMMA AcceptIsQuiet ==
    ASSUME FileIndInv, NEW w \in Caller, AcceptUpload(w)
    PROVE  QuietBy(w)
<1> USE FileTypes
<1>1. PICK k \in Work : k = work[w] /\ k # Idle BY DEF AcceptUpload, At
<1>2. uploads' = uploads /\ acks' = acks BY DEF AcceptUpload
<1>3. CASE work' = [work EXCEPT ![w].at = "empty"]
  <2>1. PICK m : m = [k EXCEPT !.at = "empty"] OBVIOUS
  <2>2. m.at = "empty" BY ONLY k \in Work, <2>1 DEF Work
  <2>3. work'[w] = m /\ \A v \in Caller : v # w => work'[v] = work[v] BY <1>1, <1>3, <2>1
  <2>4. QED BY <1>2, <2>2, <2>3, SameUploads DEF QuietBy, Answered
<1>4. CASE work' = [work EXCEPT ![w] = Idle]
  BY <1>2, <1>4, SameUploads DEF QuietBy, Answered
<1>5. QED BY <1>3, <1>4 DEF AcceptUpload, Goto, Return

\* A caller takes the next step of a commit.
LEMMA CommitIsQuiet ==
    ASSUME FileIndInv, AckParts, NEW w \in Caller,
           CommitUpload(w) \/ CommitReturns(w) \/ RemoveStage(w)
    PROVE  QuietBy(w)
<1> USE FileTypes
<1>1. PICK k \in Work : k = work[w] /\ k # Idle
  BY DEF CommitUpload, CommitReturns, RemoveStage, At
<1>2. uploads' = uploads /\ acks' = acks BY DEF CommitUpload, CommitReturns, RemoveStage
<1>3. k.at \in {"commit", "pushing", "remove"} /\ (k.at \in {"commit", "pushing"} => k.ok)
  BY <1>1 DEF CommitUpload, CommitReturns, RemoveStage, At, AckParts
<1>4. PICK a \in {"pushing", "remove", "ack"}, b \in BOOLEAN :
        /\ work' = [work EXCEPT ![w] = [k EXCEPT !.at = a, !.ok = b]]
        /\ (b => k.ok) /\ (a = "pushing" => b)
  <2>1. k.ok \in BOOLEAN /\ k = [k EXCEPT !.ok = k.ok] BY DEF Work
  <2>2. CASE CommitUpload(w)
    <3>1. k.at = "commit" BY <1>1, <2>2 DEF CommitUpload, At
    <3>2. CASE work' = [work EXCEPT ![w].at = "pushing"]
      <4>1. work' = [work EXCEPT ![w] = [k EXCEPT !.at = "pushing"]] BY <1>1, <3>2
      <4>2. [k EXCEPT !.at = "pushing"] = [k EXCEPT !.at = "pushing", !.ok = k.ok]
        BY k \in Work DEF Work
      <4>3. QED BY <1>3, <2>1, <3>1, <4>1, <4>2
    <3>3. CASE work' = [work EXCEPT ![w].at = "remove", ![w].ok = FALSE]
      <4>1. work' = [work EXCEPT ![w] = [k EXCEPT !.at = "remove", !.ok = FALSE]] BY <1>1, <3>3
      <4>2. QED BY <4>1
    <3>4. QED BY <2>2, <3>2, <3>3 DEF CommitUpload, Goto
  <2>3. CASE CommitReturns(w)
    <3>1. k.at = "pushing" BY <1>1, <2>3 DEF CommitReturns, At
    <3>2. PICK ok \in BOOLEAN : work' = [work EXCEPT ![w].at = "remove", ![w].ok = ok]
      BY <2>3 DEF CommitReturns
    <3>3. work' = [work EXCEPT ![w] = [k EXCEPT !.at = "remove", !.ok = ok]] BY <1>1, <3>2
    <3>4. QED BY <1>3, <3>1, <3>3
  <2>4. CASE RemoveStage(w)
    <3>1. work' = [work EXCEPT ![w] = [k EXCEPT !.at = "ack"]] BY <1>1, <2>4 DEF RemoveStage, Goto
    <3>2. [k EXCEPT !.at = "ack"] = [k EXCEPT !.at = "ack", !.ok = k.ok] BY k \in Work DEF Work
    <3>3. QED BY <2>1, <3>1, <3>2
  <2>5. QED BY <2>2, <2>3, <2>4
<1>5. PICK m : m = [k EXCEPT !.at = a, !.ok = b] OBVIOUS
<1>6. m \in Work /\ m.at = a /\ m.ok = b /\ m.up = k.up /\ m.uploaded = k.uploaded /\ m.data = k.data
  BY ONLY k \in Work, a \in {"pushing", "remove", "ack"}, b \in BOOLEAN, <1>5 DEF Work
<1>7. work'[w] = m /\ \A v \in Caller : v # w => work'[v] = work[v] BY <1>4, <1>5
<1>8. Answered(m) => Answered(k) BY <1>1, <1>3, <1>4, <1>6 DEF Answered
<1>9. QED BY <1>1, <1>2, <1>4, <1>6, <1>7, <1>8, SameUploads DEF QuietBy

\* Chunk: data makes progress that no other chunk has made.
LEMMA ChunkAnswers ==
    ASSUME FileIndInv, FileIndInv', AckParts,
           NEW w \in Caller, NEW c \in Client, NEW n \in Nat, NEW fits \in BOOLEAN,
           ChunkInto(w, c, n, fits), acks' = acks
    PROVE  AckParts'
<1> USE FileTypes
<1>1. CASE Turns(w, Idle) /\ uploads' = uploads
  <2>1. QuietBy(w) BY <1>1, TurnsFacts, SameUploads DEF QuietBy, Answered
  <2>2. QED BY <2>1, QuietKeeps
<1>2. CASE \E u, up, k : Chunked(w, c, n, u, up, k)
  <2>1. PICK u, up, k : Chunked(w, c, n, u, up, k) BY <1>2
  <2>2. /\ u \in DOMAIN uploads /\ up \in Upload
        /\ uploads' = [uploads EXCEPT ![u] = up] /\ Turns(w, k) /\ k \in Work /\ k.up = u
        /\ uploads[u].uploaded <= up.uploaded /\ (k.data <=> n > 0)
        /\ k.uploaded = up.uploaded /\ (k.ok => up.uploaded = uploads[u].uploaded + n)
        /\ k.at \in {"ack", "commit", "remove"} /\ (k.at = "commit" => k.ok)
    BY <2>1 DEF Chunked
  <2>3. /\ DOMAIN uploads' = DOMAIN uploads /\ uploads'[u] = up
        /\ \A x \in DOMAIN uploads : x # u => uploads'[x] = uploads[x]
    BY <2>2, ReplaceElement
  <2>4. \A x \in DOMAIN uploads : uploads[x].uploaded \in Nat BY DEF Upload
  <2>5. UploadsGrow BY <2>2, <2>3, <2>4 DEF UploadsGrow
  <2>6. /\ work'[w] = k /\ \A v \in Caller : v # w => work'[v] = work[v] BY <2>2, TurnsFacts
  <2>7. \A x, y : y \in Nat /\ Within(x, y) => WithinNext(x, y) BY <2>5, GrowFacts
  <2>8. WithinNext(u, k.uploaded)
    <3>1. up.uploaded \in Nat BY <2>2 DEF Upload
    <3>2. QED BY <2>2, <2>3, <3>1 DEF WithinNext
  <2>9. \A y \in Nat : k.data /\ k.ok /\ Within(u, y) => y # k.uploaded
    BY <2>2, <2>4 DEF Within
  <2>10. \A v \in Caller : v # w /\ Answered(work'[v]) =>
            /\ Answered(work[v]) /\ work'[v] = work[v] /\ work[v].uploaded \in Nat
            /\ Within(work[v].up, work[v].uploaded)
    BY <2>6, WorkUploaded DEF AckParts
  <2>11. \A v \in Caller : Answered(work'[v]) => WithinNext(work'[v].up, work'[v].uploaded)
    BY <2>2, <2>6, <2>7, <2>8, <2>10
  <2>12. \A a \in acks' : a.data /\ a.ok =>
            a.uploaded \in Nat /\ Within(a.up, a.uploaded) /\ WithinNext(a.up, a.uploaded)
    BY <2>7 DEF AckParts, Ack
  <2>13. ASSUME NEW v \in Caller, NEW x \in Caller, v # x, Answered(work'[v]), Answered(work'[x]),
                work'[v].up = work'[x].up
         PROVE  work'[v].uploaded # work'[x].uploaded
    <3>1. CASE v = w BY <2>2, <2>6, <2>9, <2>10, <2>13, <3>1 DEF Answered
    <3>2. CASE x = w BY <2>2, <2>6, <2>9, <2>10, <2>13, <3>2 DEF Answered
    <3>3. CASE v # w /\ x # w BY <2>10, <2>13, <3>3 DEF AckParts
    <3>4. QED BY <3>1, <3>2, <3>3
  <2>14. ASSUME NEW v \in Caller, NEW a \in acks', Answered(work'[v]), a.data, a.ok, a.up = work'[v].up
         PROVE  a.uploaded # work'[v].uploaded
    <3>1. CASE v = w BY <2>2, <2>6, <2>9, <2>12, <2>14, <3>1 DEF Answered
    <3>2. CASE v # w BY <2>10, <2>14, <3>2 DEF AckParts
    <3>3. QED BY <3>1, <3>2
  <2>15. \A v \in Caller : work'[v] # Idle /\ work'[v].at \in {"commit", "pushing"} => work'[v].ok
    BY <2>2, <2>6 DEF AckParts, At
  <2>16. acks' \subseteq Ack BY DEF AckParts
  <2>17. QED
    BY <2>11, <2>12, <2>13, <2>14, <2>15, <2>16 DEF AckParts, Within, WithinNext, At
<1>3. QED BY <1>1, <1>2, ChunkIntoCases

\* The answer of caller w is sent.
LEMMA SendingKeeps ==
    ASSUME FileIndInv, AckParts, NEW w \in Caller, Acknowledge(w)
    PROVE  AckParts'
<1> USE FileTypes
<1>1. PICK k \in Work : k = work[w] /\ k # Idle /\ k.at = "ack" BY DEF Acknowledge, At
<1>2. PICK b : b = [up |-> k.up, data |-> k.data, uploaded |-> k.uploaded, finished |-> k.finished,
                    ok |-> k.ok]
  OBVIOUS
<1>3. b \in Ack /\ b.up = k.up /\ b.data = k.data /\ b.uploaded = k.uploaded /\ b.ok = k.ok
  BY <1>2, FileFields DEF Ack
<1>4. acks' = acks \cup {b} /\ uploads' = uploads BY <1>1, <1>2 DEF Acknowledge, Progress
<1>5. work'[w] = Idle /\ \A v \in Caller : v # w => work'[v] = work[v]
  BY DEF Acknowledge, Return
<1>6. k.data /\ k.ok => Answered(work[w]) BY <1>1 DEF Answered
<1>7. acks' \subseteq Ack BY <1>3, <1>4 DEF AckParts
<1>8. \A a \in acks' : a.data /\ a.ok => Within(a.up, a.uploaded) BY <1>1, <1>3, <1>4, <1>6 DEF AckParts
<1>9. ASSUME NEW v \in Caller, NEW a \in acks', Answered(work'[v]), a.data, a.ok, a.up = work'[v].up
      PROVE  a.uploaded # work'[v].uploaded
  <2>1. v # w /\ work'[v] = work[v] BY <1>5, <1>9 DEF Answered
  <2>2. CASE a = b BY <1>1, <1>3, <1>6, <1>9, <2>1, <2>2 DEF AckParts
  <2>3. CASE a \in acks BY <1>9, <2>1, <2>3 DEF AckParts
  <2>4. QED BY <1>4, <2>2, <2>3
<1>10. \A v \in Caller : Answered(work'[v]) => v # w /\ work'[v] = work[v] BY <1>5 DEF Answered
<1>11. \A v \in Caller : Answered(work'[v]) => Within(work'[v].up, work'[v].uploaded)
  BY <1>10 DEF AckParts
<1>12. \A v, x \in Caller :
         v # x /\ Answered(work'[v]) /\ Answered(work'[x]) /\ work'[v].up = work'[x].up =>
           work'[v].uploaded # work'[x].uploaded
  BY <1>10 DEF AckParts
<1>13. \A v \in Caller : work'[v] # Idle /\ work'[v].at \in {"commit", "pushing"} => work'[v].ok
  BY <1>5 DEF AckParts, At
<1>14. QED
  BY <1>4, <1>7, <1>8, <1>9, <1>11, <1>12, <1>13 DEF AckParts, Within, At

\* Every step keeps the answers distinct.
LEMMA AnswersStep ==
    ASSUME FileIndInv, FileIndInv', AckParts, [FileNext]_fileVars
    PROVE  AckParts'
<1>1. ASSUME NEW w \in Caller, EmptyFile(w) PROVE AckParts'
  <2>1. work[w].sid \in DOMAIN object BY <1>1 DEF EmptyFile, At, FileIndInv, FileRefs
  <2>2. PICK c \in Client : c = object[work[w].sid].owner BY <2>1, FileTypes, FileFields
  <2>3. ChunkInto(w, c, 0, TRUE) /\ acks' = acks BY <1>1, <2>2 DEF EmptyFile
  <2>4. 0 \in Nat /\ TRUE \in BOOLEAN OBVIOUS
  <2>5. QED BY <2>3, <2>4, ChunkAnswers
<1>2. ASSUME NEW w \in Caller, Inside(w) \/ Close(w) PROVE AckParts'
  <2>1. CASE Close(w)
    <3>1. work[w] = Idle /\ UNCHANGED <<work, uploads, acks>> BY <2>1 DEF Close
    <3>2. QED BY <3>1, IdleIsQuiet, QuietKeeps
  <2>2. CASE CommitUpload(w) \/ CommitReturns(w) \/ RemoveStage(w) BY <2>2, CommitIsQuiet, QuietKeeps
  <2>3. CASE AcceptUpload(w) BY <2>3, AcceptIsQuiet, QuietKeeps
  <2>4. QED BY <1>1, <1>2, <2>1, <2>2, <2>3, SendingKeeps DEF Inside
<1>3. ASSUME NEW w \in Caller, NEW c \in Client,
             \/ Open(w, c) \/ CloseClient(w, c) \/ StartInstall(w, c)
             \/ (\E p \in Path : Delete(w, c, p)) \/ (\E s \in Size : StartDownload(w, c, s))
      PROVE  AckParts'
  <2>1. work[w] = Idle /\ UNCHANGED <<work, uploads, acks>>
    BY <1>3 DEF Open, CloseClient, StartInstall, Delete, StartDownload, Takes
  <2>2. QED BY <2>1, IdleIsQuiet, QuietKeeps
<1>4. ASSUME NEW w \in Caller, NEW c \in Client, NEW p \in Path, NEW s \in Size, NEW i \in BOOLEAN,
             NEW f \in BOOLEAN, StartUpload(w, c, p, s, i, f)
      PROVE  AckParts'
  BY <1>4, StagingIsQuiet, QuietKeeps
<1>5. ASSUME NEW w \in Caller, NEW c \in Client, NEW n \in ChunkSize, NEW fits \in BOOLEAN,
             Chunk(w, c, n, fits)
      PROVE  AckParts'
  <2>1. ChunkInto(w, c, n, fits) /\ n \in Nat /\ acks' = acks BY <1>5, FileAssumption DEF Chunk
  <2>2. QED BY <2>1, ChunkAnswers
<1>6. ASSUME UNCHANGED <<work, uploads, acks>> PROVE AckParts' BY <1>6 DEF AckParts, Within, At
<1>7. (\E j \in DOMAIN jobs : DownloadChunk(j) \/ DownloadEnds(j) \/ InstallEnds(j))
      \/ (\E c \in Client : BrowserLeaves(c)) \/ UNCHANGED fileVars => UNCHANGED <<work, uploads, acks>>
  BY DEF DownloadChunk, DownloadEnds, InstallEnds, BrowserLeaves, fileVars
<1>8. QED BY <1>2, <1>3, <1>4, <1>5, <1>6, <1>7 DEF FileNext

\* The inductive invariant of the acknowledgements.
AckIndInv == FileIndInv /\ AckParts

LEMMA AckIndStep == AckIndInv /\ [FileNext]_fileVars => AckIndInv'
BY FileStep, AnswersStep DEF AckIndInv

\* Only Acknowledge lets a caller go that has an answer to send.
LEMMA AnswersAreSent ==
    ASSUME FileIndInv, [FileNext]_fileVars, NEW w \in Caller, At(w, "ack"), work'[w] = Idle
    PROVE  Acknowledge(w)
<1> USE FileTypes
<1>1. work[w] # Idle /\ work[w].at = "ack" BY DEF At
<1>2. ASSUME NEW v \in Caller, Inside(v) \/ Close(v) PROVE Acknowledge(w)
  <2>1. CASE Acknowledge(v) BY <1>1, <2>1 DEF Acknowledge, Return
  <2>2. CASE Close(v) BY <1>1, <2>2 DEF Close
  <2>3. CASE AcceptUpload(v) BY <1>1, <2>3 DEF AcceptUpload, At, Goto, Return
  <2>4. CASE EmptyFile(v)
    <3>1. v # w BY <1>1, <2>4 DEF EmptyFile, At
    <3>2. work'[w] = work[w] BY <2>4, <3>1 DEF EmptyFile, ChunkInto, Return
    <3>3. QED BY <1>1, <3>2
  <2>5. CASE CommitUpload(v) BY <1>1, <2>5 DEF CommitUpload, At, Goto
  <2>6. CASE CommitReturns(v) BY <1>1, <2>6 DEF CommitReturns, At
  <2>7. CASE RemoveStage(v) BY <1>1, <2>7 DEF RemoveStage, At, Goto
  <2>8. QED BY <1>2, <2>1, <2>2, <2>3, <2>4, <2>5, <2>6, <2>7 DEF Inside
<1>3. ASSUME NEW v \in Caller, NEW c \in Client,
             \/ Open(v, c) \/ CloseClient(v, c) \/ StartInstall(v, c)
             \/ (\E p \in Path : Delete(v, c, p)) \/ (\E s \in Size : StartDownload(v, c, s))
             \/ (\E p \in Path, s \in Size, i, f \in BOOLEAN : StartUpload(v, c, p, s, i, f))
      PROVE  work'[w] = work[w]
  BY <1>1, <1>3 DEF Open, CloseClient, StartInstall, Delete, StartDownload, StartUpload, Takes
<1>4. ASSUME NEW v \in Caller, NEW c \in Client, NEW n \in ChunkSize, NEW fits \in BOOLEAN,
             Chunk(v, c, n, fits)
      PROVE  work'[w] = work[w]
  <2>1. v # w /\ ChunkInto(v, c, n, fits) BY <1>1, <1>4 DEF Chunk, Takes
  <2>2. QED BY <2>1 DEF ChunkInto, Return
<1>5. (\E j \in DOMAIN jobs : DownloadChunk(j) \/ DownloadEnds(j) \/ InstallEnds(j))
      \/ (\E c \in Client : BrowserLeaves(c)) \/ UNCHANGED fileVars => work'[w] = work[w]
  BY DEF DownloadChunk, DownloadEnds, InstallEnds, BrowserLeaves, fileVars
<1>6. QED BY <1>1, <1>2, <1>3, <1>4, <1>5 DEF FileNext

\* Chunks with data of one upload acknowledge different progress, however many
\* goroutines call Chunk and however their calls and commits interleave.
THEOREM ChunksAcknowledgeApart == FileSpec => AcksAreDistinct
<1> DEFINE A == \A w \in Caller :
                  At(w, "ack") /\ work[w].data /\ work[w].ok /\ work'[w] = Idle
                    => Reported(acks') # Reported(acks)
<1>1. FileInit => AckIndInv
  <2>1. FileInit => AckParts BY DEF FileInit, AckParts, Answered, At
  <2>2. QED BY <2>1, FileStarts DEF AckIndInv
<1>2. AckIndInv /\ [FileNext]_fileVars => [A]_fileVars
  <2> SUFFICES ASSUME AckIndInv, [FileNext]_fileVars, NEW w \in Caller,
                      At(w, "ack"), work[w].data, work[w].ok, work'[w] = Idle
               PROVE  Reported(acks') # Reported(acks)
    OBVIOUS
  <2>1. Acknowledge(w) BY AnswersAreSent DEF AckIndInv
  <2>2. PICK b : b = [up |-> work[w].up, data |-> work[w].data, uploaded |-> work[w].uploaded,
                      finished |-> work[w].finished, ok |-> work[w].ok]
    OBVIOUS
  <2>3. b \in acks' /\ b.data /\ b.ok /\ b.up = work[w].up /\ b.uploaded = work[w].uploaded
    BY <2>1, <2>2 DEF Acknowledge, Progress
  <2>4. <<b.up, b.uploaded>> \in Reported(acks') BY <2>3 DEF Reported
  <2>5. Answered(work[w]) BY DEF Answered, At
  <2>6. \A a \in acks : a.data /\ a.ok /\ a.up = b.up => a.uploaded # b.uploaded
    BY <2>3, <2>5 DEF AckIndInv, AckParts
  <2>7. <<b.up, b.uploaded>> \notin Reported(acks) BY <2>6 DEF Reported
  <2>8. QED BY <2>4, <2>7
<1>3. QED BY <1>1, <1>2, AckIndStep, PTL DEF FileSpec, AcksAreDistinct
=============================================================================
