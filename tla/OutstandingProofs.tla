------------------------- MODULE OutstandingProofs -------------------------
(***************************************************************************)
(* Safety of the outstanding set, for every word size, capacity, cap and   *)
(* number of waking threads.                                               *)
(***************************************************************************)
EXTENDS Outstanding, TLAPS

(* What the guard holds between two stages: nothing outside a harvest, no  *)
(* bits where the next word is chosen, and no words behind the cursor once *)
(* the rotation has come round to them.                                    *)
HandsAgree ==
  /\ at \in {"register", "turn", "asleep", "gone", "start"} => cur = {} /\ def = {}
  /\ at = "next" => cur = {}
  /\ step = Summaries => dsum = {}

Told == woken \/ \E n \in Notifiers : waking[n].at \in {"announce", "ring"}

(* From its registration on the owner's waker is in the bell or was used,  *)
(* and marks made since a harvest that found nothing have a ring to come,  *)
(* or had it.                                                              *)
QuietIsTold ==
  /\ at \notin {"register", "gone"} => bell \/ woken
  /\ at = "asleep" => ~more
  /\ at \in {"turn", "asleep"} /\ ~more /\ marked # {} => Told

OutstandingInv ==
  /\ TypeOK
  /\ HandsAgree
  /\ NoMarkStranded
  /\ SignalIsKept
  /\ QuietIsTold

-----------------------------------------------------------------------------
(* What a slot, a word and a summary are, in numbers.                      *)

(* The quotient of two counts is a count.                                  *)
LEMMA DivNat ==
  ASSUME NEW a \in Nat, NEW b \in Nat \ {0}
  PROVE  a \div b \in Nat
  OBVIOUS

(* The index of a word is below the number of words (ReadySet::new).       *)
LEMMA DivBelowCeil ==
  ASSUME NEW a \in Nat, NEW c \in Nat, NEW b \in Nat \ {0}, a < c
  PROVE  a \div b <= CeilDiv(c, b) - 1
  BY DEF CeilDiv

(* The sizes of a set: words and summary words are counted in Nat, and     *)
(* every slot has its word.                                                *)
LEMMA Sizes ==
  ASSUME shape \in Shapes
  PROVE  /\ Capacity \in Nat \ {0}
         /\ NWords \in Nat
         /\ Summaries \in Nat
         /\ \A s \in Slots : Word(s) \in 0 .. NWords - 1
<1>1. Capacity \in Nat \ {0} /\ WordBits \in Nat \ {0}
  BY OutstandingConstants DEF Capacity, WordBits
<1>2. NWords \in Nat
  BY <1>1, DivNat DEF NWords, CeilDiv
<1>3. Summaries \in Nat
  BY <1>1, <1>2, DivNat DEF Summaries, CeilDiv
<1>4. ASSUME NEW s \in Slots PROVE Word(s) \in 0 .. NWords - 1
  <2>1. s \in Nat /\ s < Capacity
    BY <1>1 DEF Slots
  <2>2. s \div WordBits \in Nat /\ s \div WordBits <= CeilDiv(Capacity, WordBits) - 1
    BY <1>1, <2>1, DivNat, DivBelowCeil
  <2>3. QED
    BY <1>2, <2>2 DEF Word, NWords
<1>5. QED
  BY <1>1, <1>2, <1>3, <1>4

(* A set keeps its sizes.                                                  *)
LEMMA SizesFixed ==
  ASSUME shape' = shape
  PROVE  Summaries' = Summaries /\ NWords' = NWords /\ Slots' = Slots
  BY DEF Summaries, NWords, Slots, Capacity, WordBits

(* What is announced with a set of slots is a word of the set.             *)
LEMMA AnnouncesTyped ==
  ASSUME TypeOK, NEW S \in SUBSET Slots
  PROVE  Announces(S) \subseteq 0 .. NWords - 1
<1>1. \A s \in S : Word(s) \in 0 .. NWords - 1
  BY Sizes DEF TypeOK
<1>2. QED
  BY <1>1 DEF Announces, TypeOK

-----------------------------------------------------------------------------
(* Types, and what the guard holds.                                        *)

(* A waking thread keeps both.                                             *)
LEMMA TypeNotify ==
  ASSUME TypeOK, HandsAgree, NEW n \in Notifiers,
         Notify(n) \/ \E s \in armed : NotifyBegins(n, s)
  PROVE  TypeOK' /\ HandsAgree'
<1> USE DEF TypeOK, HandsAgree, slab, ready, guard, wakes, To
<1>0. /\ Summaries' = Summaries /\ NWords' = NWords /\ Slots' = Slots
      /\ 0 \in Slots /\ \A s \in Slots : Word(s) \in 0 .. NWords - 1
  <2>1. shape' = shape
    BY DEF Notify, NotifyBegins, Mark, Announce, Ring
  <2>2. 0 \in Slots
    BY Sizes DEF Slots
  <2>3. QED
    BY <2>1, <2>2, Sizes, SizesFixed
<1>1. ASSUME NEW s \in armed, NotifyBegins(n, s) PROVE TypeOK' /\ HandsAgree'
  BY <1>0, <1>1 DEF NotifyBegins
<1>2. CASE Mark(n)
  BY <1>0, <1>2 DEF Mark, Idle
<1>3. CASE Announce(n)
  BY <1>0, <1>3 DEF Announce
<1>4. CASE Ring(n)
  BY <1>0, <1>4 DEF Ring, Rung, Idle
<1>5. QED
  BY <1>1, <1>2, <1>3, <1>4 DEF Notify

(* The owner keeps both between harvests.                                  *)
LEMMA TypeOwner ==
  ASSUME TypeOK, HandsAgree, Register \/ Push \/ Sleep \/ Awake \/ DropSet
  PROVE  TypeOK' /\ HandsAgree'
<1> USE DEF TypeOK, HandsAgree, slab, ready, guard, wakes, Stages
<1>0. /\ Summaries' = Summaries /\ NWords' = NWords /\ Slots' = Slots /\ shape' = shape
  <2>1. shape' = shape
    BY DEF Register, Push, Sleep, Awake, DropSet
  <2>2. QED
    BY <2>1, SizesFixed
<1>1. CASE Push
  <2>1. PICK s \in Slots \ occupied :
          /\ occupied' = occupied \cup {s}
          /\ marked' = marked \cup {s}
          /\ announced' = Announces({s})
          /\ signalled' = signalled \cup {s}
    BY <1>1 DEF Push
  <2>2. announced' \subseteq 0 .. NWords - 1
    BY <2>1, AnnouncesTyped
  <2>3. QED
    BY <1>0, <1>1, <2>1, <2>2 DEF Push
<1>2. CASE Register \/ Sleep \/ Awake \/ DropSet
  BY <1>0, <1>2 DEF Register, Sleep, Awake, DropSet
<1>3. QED
  BY <1>1, <1>2

(* A harvest keeps both: it takes bits and words, and puts back only what  *)
(* it took.                                                                *)
LEMMA TypeTakes ==
  ASSUME TypeOK, HandsAgree,
         \/ HarvestOneWord \/ HarvestBegins \/ TakeStart \/ TakeWord
         \/ TakeSummary \/ Wrap \/ TakeDeferred \/ HarvestEnds \/ PollNothing
  PROVE  TypeOK' /\ HandsAgree'
<1> USE DEF TypeOK, HandsAgree, slab, ready, guard, wakes, Stages
<1>0. /\ Summaries \in Nat /\ Summaries' = Summaries /\ NWords' = NWords
      /\ shape' = shape /\ Slots' = Slots
  <2>1. shape' = shape
    BY DEF HarvestOneWord, HarvestBegins, TakeStart, TakeWord, TakeSummary, Wrap,
       TakeDeferred, HarvestEnds, HasReady, PollNothing
  <2>2. QED
    BY <2>1, Sizes, SizesFixed
<1>1. CASE HarvestOneWord
  BY <1>0, <1>1, OutstandingConstants DEF HarvestOneWord, Behind
<1>2. CASE HarvestBegins
  <2>1. /\ announced' \subseteq announced
        /\ sum' \subseteq announced /\ dsum' \subseteq announced
    BY <1>2 DEF HarvestBegins, Words
  <2>2. /\ step' \in 0 .. Summaries /\ step' # Summaries /\ polled' \in 0 .. Cap
        /\ at' \in {"start", "next"}
    BY <1>0, <1>2, OutstandingConstants DEF HarvestBegins
  <2>3. cur' = {} /\ def' = {}
    BY <1>2 DEF HarvestBegins
  <2>4. QED
    BY <1>0, <1>2, <2>1, <2>2, <2>3 DEF HarvestBegins
<1>3. CASE TakeStart
  BY <1>0, <1>3 DEF TakeStart, Bits, Behind
<1>4. CASE TakeWord
  BY <1>0, <1>4 DEF TakeWord, Bits
<1>5. CASE TakeSummary
  <2>1. sum' \subseteq announced /\ announced' \subseteq announced
    BY <1>5 DEF TakeSummary, Words
  <2>2. step' \in 0 .. Summaries /\ step' # Summaries
    BY <1>0, <1>5 DEF TakeSummary
  <2>3. QED
    BY <1>0, <1>5, <2>1, <2>2 DEF TakeSummary
<1>6. CASE Wrap
  BY <1>0, <1>6 DEF Wrap
<1>7. CASE TakeDeferred
  BY <1>0, <1>7 DEF TakeDeferred
<1>8. CASE HarvestEnds
  <2>1. dsum = {} /\ step' \in 0 .. Summaries /\ polled' \in 0 .. Cap
    BY <1>0, <1>8, OutstandingConstants DEF HarvestEnds, HasReady
  <2>2. more' \in BOOLEAN
    BY <1>8 DEF HarvestEnds, HasReady
  <2>3. QED
    BY <1>0, <1>8, <2>1, <2>2 DEF HarvestEnds, HasReady
<1>9. CASE PollNothing
  BY <1>0, <1>9 DEF PollNothing
<1>10. QED
  BY <1>1, <1>2, <1>3, <1>4, <1>5, <1>6, <1>7, <1>8, <1>9

(* So does a poll, however it ends.                                        *)
LEMMA TypePolls ==
  ASSUME TypeOK, HandsAgree,
         \/ Truncate
         \/ \E s \in cur : PollStale(s) \/ PollPending(s) \/ PollReady(s)
         \/ \E s \in cur, finished \in BOOLEAN : PollPanics(s, finished)
  PROVE  TypeOK' /\ HandsAgree'
<1> USE DEF TypeOK, HandsAgree, slab, ready, guard, wakes, Stages
<1>0. /\ Summaries \in Nat /\ Summaries' = Summaries /\ NWords' = NWords
      /\ shape' = shape /\ Capacity \in Nat \ {0} /\ Slots' = Slots
  <2>1. shape' = shape
    BY DEF Truncate, PollStale, PollPending, PollReady, PollPanics
  <2>2. QED
    BY <2>1, Sizes, SizesFixed
<1>1. ASSUME Restored
      PROVE  /\ marked' \subseteq Slots /\ announced' \subseteq 0 .. NWords - 1
             /\ step' \in 0 .. Summaries
             /\ cur' = {} /\ def' = {} /\ sum' = {} /\ dsum' = {}
  <2>1. Announces(cur \cup def) \subseteq 0 .. NWords - 1
    BY AnnouncesTyped
  <2>2. marked' \subseteq Slots /\ announced' \subseteq 0 .. NWords - 1
    BY <1>1, <2>1 DEF Restored
  <2>3. step' = 0 /\ cur' = {} /\ def' = {} /\ sum' = {} /\ dsum' = {}
    BY <1>1 DEF Restored
  <2>4. 0 \in 0 .. Summaries
    BY <1>0
  <2>5. QED
    BY <2>2, <2>3, <2>4
<1>2. CASE Truncate
  BY <1>0, <1>1, <1>2, OutstandingConstants DEF Truncate
<1>3. ASSUME NEW s \in cur, PollStale(s) \/ PollPending(s) \/ PollReady(s)
      PROVE  TypeOK' /\ HandsAgree'
  <2>1. After(s) \in Slots
    BY <1>0 DEF After, Slots
  <2>2. CASE PollStale(s)
    BY <1>0, <2>1, <2>2 DEF PollStale, Polls, Visited
  <2>3. CASE PollPending(s)
    BY <1>0, <2>1, <2>3, OutstandingConstants DEF PollPending, Polled, Polls, Visited
  <2>4. CASE PollReady(s)
    BY <1>0, <2>1, <2>4, OutstandingConstants DEF PollReady, Polled, Polls, Visited
  <2>5. QED
    BY <1>3, <2>2, <2>3, <2>4
<1>4. ASSUME NEW s \in cur, NEW finished \in BOOLEAN, PollPanics(s, finished)
      PROVE  TypeOK' /\ HandsAgree'
  <2>1. /\ occupied' \subseteq Slots /\ signalled' \subseteq occupied'
        /\ panics' \in 0 .. MaxPanics
    BY <1>4, OutstandingConstants DEF PollPanics
  <2>2. bell' \in BOOLEAN /\ woken' \in BOOLEAN /\ closed' \in BOOLEAN
    BY <1>4 DEF PollPanics, Rung
  <2>3. QED
    BY <1>0, <1>1, <1>4, <2>1, <2>2, OutstandingConstants DEF PollPanics
<1>5. QED
  BY <1>2, <1>3, <1>4

(* Every step keeps the types and what the guard holds.                    *)
LEMMA TypeStep == TypeOK /\ HandsAgree /\ [Next]_vars => TypeOK' /\ HandsAgree'
<1> SUFFICES ASSUME TypeOK, HandsAgree, [Next]_vars PROVE TypeOK' /\ HandsAgree'
  OBVIOUS
<1>1. CASE UNCHANGED vars
  BY <1>1, SizesFixed DEF TypeOK, HandsAgree, vars, slab, ready, guard, wakes
<1>2. CASE Next
  BY <1>2, TypeNotify, TypeOwner, TypeTakes, TypePolls DEF Next, Harvest
<1>3. QED
  BY <1>1, <1>2

-----------------------------------------------------------------------------
(* Marks can be found.                                                     *)

(* Restoring strands no bit: a word that was empty is announced, a word    *)
(* that was not is as findable as before.                                  *)
LEMMA RestoredFindable ==
  ASSUME NoMarkStranded, Restored, UNCHANGED <<shape, waking>>
  PROVE  NoMarkStranded'
<1> SUFFICES ASSUME Summaries > 0, NEW s \in marked'
             PROVE  Word(s) \in announced' \/ Announcing(Word(s))
  BY DEF NoMarkStranded, Summaries, NWords, Capacity, WordBits, Word, Announcing
<1>1. announced' = Announces(cur \cup def) \cup sum \cup dsum
  BY DEF Restored
<1>2. CASE Bits(Word(s)) = {}
  <2>1. s \in cur \cup def
    BY <1>2 DEF Restored, Bits
  <2>2. Word(s) \in Announces(cur \cup def)
    BY <1>2, <2>1 DEF Announces
  <2>3. QED
    BY <1>1, <2>2
<1>3. CASE Bits(Word(s)) # {}
  <2>1. PICK t \in marked : Word(t) = Word(s)
    BY <1>3 DEF Bits
  <2>2. Word(s) \in announced \cup sum \cup dsum \/ Announcing(Word(s))
    BY <2>1 DEF NoMarkStranded
  <2>3. announced \subseteq Announces(cur \cup def)
    BY DEF Announces
  <2>4. QED
    BY <1>1, <2>2, <2>3
<1>4. QED
  BY <1>2, <1>3

(* Every step keeps NoMarkStranded.  Only the owner takes, and it takes    *)
(* the announcement before the bits: what is marked in between announces   *)
(* itself again if it finds the word empty.                                *)
LEMMA StrandedStep ==
  TypeOK /\ HandsAgree /\ NoMarkStranded /\ [Next]_vars => NoMarkStranded'
<1> SUFFICES ASSUME TypeOK, HandsAgree, NoMarkStranded, [Next]_vars
             PROVE  NoMarkStranded'
  OBVIOUS
<1> USE DEF slab, ready, guard, wakes
<1>0. shape' = shape
  BY DEF Next, vars, Register, Push, Sleep, Awake, DropSet, Harvest, HarvestOneWord,
     HarvestBegins, TakeStart, TakeWord, TakeSummary, Wrap, TakeDeferred,
     HarvestEnds, HasReady, Truncate, PollNothing, PollStale, PollPending, PollReady,
     PollPanics, Notify, NotifyBegins, Mark, Announce, Ring
<1>1. /\ Summaries' = Summaries
      /\ \A s : Word(s)' = Word(s)
  BY <1>0, SizesFixed DEF Word, WordBits
<1>2. SUFFICES ASSUME Summaries > 0, NEW s \in marked'
               PROVE  \/ Word(s) \in announced' \cup sum' \cup dsum'
                      \/ \E n \in Notifiers : /\ waking'[n].at = "announce"
                                              /\ Word(waking'[n].slot) = Word(s)
  BY <1>1 DEF NoMarkStranded, Announcing, Word, WordBits
<1>3. s \in marked => \/ Word(s) \in announced \cup sum \cup dsum
                      \/ Announcing(Word(s))
  BY <1>2 DEF NoMarkStranded
<1> DEFINE Found == Word(s) \in announced' \cup sum' \cup dsum'
           Coming == \E n \in Notifiers : /\ waking'[n].at = "announce"
                                          /\ Word(waking'[n].slot) = Word(s)
<1>4. CASE UNCHANGED <<marked, announced, sum, dsum, waking>>
  BY <1>3, <1>4 DEF Announcing
<1>5. CASE HarvestBegins \/ TakeSummary \/ Wrap
  <2>1. marked' = marked /\ waking' = waking
    BY <1>5 DEF HarvestBegins, TakeSummary, Wrap
  <2>2. announced \cup sum \cup dsum \subseteq announced' \cup sum' \cup dsum'
    BY <1>5 DEF HarvestBegins, TakeSummary, Wrap, Words, TypeOK
  <2>3. QED
    BY <1>3, <2>1, <2>2 DEF Announcing
<1>6. CASE HarvestOneWord
  BY <1>2, <1>6 DEF HarvestOneWord
<1>7. CASE TakeStart \/ TakeWord
  <2>1. PICK w : /\ marked' = marked \ Bits(w)
                 /\ sum' = sum \ {w}
                 /\ UNCHANGED <<announced, dsum, waking>>
    BY <1>7 DEF TakeStart, TakeWord
  <2>2. s \in marked /\ Word(s) # w
    BY <1>2, <2>1 DEF Bits
  <2>3. QED
    BY <1>3, <2>1, <2>2 DEF Announcing
<1>8. CASE Push
  <2>1. PICK t \in Slots : marked' = marked \cup {t} /\ announced' = Announces({t})
    BY <1>8 DEF Push
  <2>2. announced \subseteq announced' /\ UNCHANGED <<sum, dsum, waking>>
    BY <1>8, <2>1 DEF Push, Announces
  <2>3. CASE s \in marked
    BY <1>3, <2>2, <2>3 DEF Announcing
  <2>4. CASE s = t /\ Bits(Word(s)) = {}
    BY <1>2, <2>1, <2>4 DEF Announces
  <2>5. CASE s = t /\ Bits(Word(s)) # {}
    <3>1. PICK u \in marked : Word(u) = Word(s)
      BY <2>5 DEF Bits
    <3>2. Word(s) \in announced \cup sum \cup dsum \/ Announcing(Word(s))
      BY <1>2, <3>1 DEF NoMarkStranded
    <3>3. QED
      BY <2>2, <3>2 DEF Announcing
  <2>6. QED
    BY <1>2, <2>1, <2>3, <2>4, <2>5
<1>9. ASSUME NEW n \in Notifiers, NEW t \in armed, NotifyBegins(n, t)
      PROVE  Found \/ Coming
  <2>1. /\ UNCHANGED <<marked, announced, sum, dsum>>
        /\ \A m \in Notifiers : waking[m].at = "announce" => waking'[m] = waking[m]
    BY <1>9 DEF NotifyBegins, To, Idle, TypeOK
  <2>2. QED
    BY <1>2, <1>3, <2>1 DEF Announcing
<1>10. ASSUME NEW n \in Notifiers, Mark(n)
       PROVE  Found \/ Coming
  <2> DEFINE t == waking[n].slot
  <2>1. /\ UNCHANGED <<announced, sum, dsum>>
        /\ marked' = marked \cup {t}
        /\ \A m \in Notifiers : waking[m].at = "announce" => waking'[m] = waking[m]
    BY <1>10 DEF Mark, To, Idle, TypeOK
  <2>2. CASE s \in marked
    BY <1>3, <2>1, <2>2 DEF Announcing
  <2>3. CASE s = t /\ Bits(Word(s)) = {}
    <3>1. waking'[n].at = "announce" /\ waking'[n].slot = t
      BY <1>2, <1>10, <2>3 DEF Mark, To, TypeOK
    <3>2. QED
      BY <2>3, <3>1
  <2>4. CASE s = t /\ Bits(Word(s)) # {}
    <3>1. PICK u \in marked : Word(u) = Word(s)
      BY <2>4 DEF Bits
    <3>2. Word(s) \in announced \cup sum \cup dsum \/ Announcing(Word(s))
      BY <1>2, <3>1 DEF NoMarkStranded
    <3>3. QED
      BY <2>1, <3>2 DEF Announcing
  <2>5. QED
    BY <1>2, <2>1, <2>2, <2>3, <2>4
<1>11. ASSUME NEW n \in Notifiers, Announce(n)
       PROVE  Found \/ Coming
  <2>1. /\ UNCHANGED <<marked, sum, dsum>>
        /\ announced' = announced \cup {Word(waking[n].slot)}
        /\ \A m \in Notifiers \ {n} : waking'[m] = waking[m]
    BY <1>11 DEF Announce, To, TypeOK
  <2>2. QED
    BY <1>2, <1>3, <2>1 DEF Announcing
<1>12. ASSUME NEW n \in Notifiers, Ring(n)
       PROVE  Found \/ Coming
  <2>1. /\ UNCHANGED <<marked, announced, sum, dsum>>
        /\ \A m \in Notifiers : waking[m].at = "announce" => waking'[m] = waking[m]
    BY <1>12 DEF Ring, TypeOK
  <2>2. QED
    BY <1>2, <1>3, <2>1 DEF Announcing
<1>13. CASE Restored /\ UNCHANGED waking
  <2>1. NoMarkStranded'
    BY <1>0, <1>13, RestoredFindable
  <2>2. QED
    BY <1>1, <1>2, <2>1 DEF NoMarkStranded, Announcing, Word, WordBits
<1>14. CASE UNCHANGED vars \/ Register \/ Sleep \/ Awake \/ DropSet
  BY <1>4, <1>14 DEF vars, Register, Sleep, Awake, DropSet
<1>15. CASE Harvest
  <2>1. CASE TakeDeferred \/ HarvestEnds \/ PollNothing
    BY <1>4, <2>1 DEF TakeDeferred, HarvestEnds, HasReady, PollNothing
  <2>2. ASSUME NEW t \in cur, PollStale(t) \/ PollPending(t) \/ PollReady(t)
        PROVE  Found \/ Coming
    BY <1>4, <2>2 DEF PollStale, PollPending, PollReady
  <2>3. CASE Truncate \/ \E t \in cur, finished \in BOOLEAN : PollPanics(t, finished)
    BY <1>13, <2>3 DEF Truncate, PollPanics
  <2>4. QED
    BY <1>5, <1>6, <1>7, <1>15, <2>1, <2>2, <2>3 DEF Harvest
<1>16. QED
  BY <1>8, <1>9, <1>10, <1>11, <1>12, <1>14, <1>15 DEF Next, Notify

-----------------------------------------------------------------------------
(* A signal is kept.                                                       *)

(* Every step keeps SignalIsKept.  A bit leaves the ready words only into  *)
(* the hands of the harvest, and those only by being polled or put back.   *)
LEMMA SignalStep ==
  TypeOK /\ HandsAgree /\ SignalIsKept /\ [Next]_vars => SignalIsKept'
<1> SUFFICES ASSUME TypeOK, HandsAgree, SignalIsKept, [Next]_vars
             PROVE  SignalIsKept'
  OBVIOUS
<1> USE DEF slab, ready, guard, wakes
<1> SUFFICES ASSUME at' # "gone", NEW s \in signalled'
             PROVE  \/ s \in marked' \cup cur' \cup def'
                    \/ \E n \in Notifiers : waking'[n] = [at |-> "mark", slot |-> s]
  BY DEF SignalIsKept
<1> DEFINE Kept == s \in marked' \cup cur' \cup def'
           Coming == \E n \in Notifiers : waking'[n] = [at |-> "mark", slot |-> s]
<1>1. at # "gone" /\ s \in signalled =>
        \/ s \in marked \cup cur \cup def
        \/ \E n \in Notifiers : waking[n] = [at |-> "mark", slot |-> s]
  BY DEF SignalIsKept
<1>2. CASE UNCHANGED vars \/ Register \/ Sleep \/ Awake \/ DropSet
  BY <1>1, <1>2 DEF vars, Register, Sleep, Awake, DropSet
<1>3. CASE Push
  BY <1>1, <1>3 DEF Push
<1>4. ASSUME NEW n \in Notifiers, NEW t \in armed, NotifyBegins(n, t)
      PROVE  Kept \/ Coming
  <2>1. /\ UNCHANGED <<at, marked, cur, def>>
        /\ waking'[n] = [at |-> "mark", slot |-> t]
        /\ \A m \in Notifiers : waking[m].at = "mark" => waking'[m] = waking[m]
    BY <1>4 DEF NotifyBegins, To, Idle, TypeOK
  <2>2. s \in signalled \/ s = t
    BY <1>4 DEF NotifyBegins
  <2>3. QED
    BY <1>1, <2>1, <2>2
<1>5. ASSUME NEW n \in Notifiers, Mark(n)
      PROVE  Kept \/ Coming
  <2>1. /\ UNCHANGED <<at, cur, def, signalled>>
        /\ marked' = marked \cup {waking[n].slot}
        /\ \A m \in Notifiers \ {n} : waking'[m] = waking[m]
    BY <1>5 DEF Mark, To, Idle, TypeOK
  <2>2. QED
    BY <1>1, <2>1
<1>6. ASSUME NEW n \in Notifiers, Announce(n) \/ Ring(n)
      PROVE  Kept \/ Coming
  <2>1. /\ UNCHANGED <<at, marked, cur, def, signalled>>
        /\ \A m \in Notifiers : waking[m].at = "mark" => waking'[m] = waking[m]
    BY <1>6 DEF Announce, Ring, To, TypeOK
  <2>2. QED
    BY <1>1, <2>1
<1>7. CASE HarvestOneWord \/ TakeStart \/ TakeWord \/ TakeDeferred
  <2>1. /\ marked \cup cur \cup def \subseteq marked' \cup cur' \cup def'
        /\ at # "gone" /\ UNCHANGED <<waking, signalled>>
    BY <1>7 DEF HarvestOneWord, TakeStart, TakeWord, TakeDeferred, HandsAgree
  <2>2. QED
    BY <1>1, <2>1
<1>8. CASE HarvestBegins \/ TakeSummary \/ Wrap \/ HarvestEnds \/ PollNothing
  <2>1. at # "gone" /\ UNCHANGED <<marked, cur, def, waking, signalled>>
    BY <1>8 DEF HarvestBegins, TakeSummary, Wrap, HarvestEnds, HasReady, PollNothing
  <2>2. QED
    BY <1>1, <2>1
<1>9. ASSUME NEW t \in cur, PollStale(t) \/ PollPending(t) \/ PollReady(t)
      PROVE  Kept \/ Coming
  <2>1. /\ at # "gone" /\ cur' = cur \ {t}
        /\ UNCHANGED <<marked, def, waking>>
    BY <1>9 DEF PollStale, PollPending, PollReady, Polled, Polls, Visited
  <2>2. s \in signalled /\ s # t
    BY <1>9 DEF PollStale, PollPending, PollReady, Polled, TypeOK
  <2>3. QED
    BY <1>1, <2>1, <2>2
<1>10. CASE Truncate \/ \E t \in cur, finished \in BOOLEAN : PollPanics(t, finished)
  <2>1. /\ at # "gone" /\ marked' = marked \cup cur \cup def
        /\ s \in signalled /\ UNCHANGED waking
    BY <1>10 DEF Truncate, PollPanics, Polls, Restored
  <2>2. QED
    BY <1>1, <2>1
<1>11. QED
  BY <1>2, <1>3, <1>4, <1>5, <1>6, <1>7, <1>8, <1>9, <1>10 DEF Next, Notify, Harvest

-----------------------------------------------------------------------------
(* The owner is told.                                                      *)

(* Every step keeps QuietIsTold.  A mark in a word that was empty goes on  *)
(* to announce and ring, one in a word that was not follows another that   *)
(* does; and a ring finds the owner's waker, or comes after one that did.  *)
LEMMA QuietStep ==
  TypeOK /\ HandsAgree /\ NoMarkStranded /\ QuietIsTold /\ [Next]_vars => QuietIsTold'
<1> SUFFICES ASSUME TypeOK, HandsAgree, NoMarkStranded, QuietIsTold, [Next]_vars
             PROVE  QuietIsTold'
  OBVIOUS
<1> USE DEF slab, ready, guard, wakes, QuietIsTold, Told
<1>1. CASE UNCHANGED vars \/ Register \/ Sleep \/ Awake \/ DropSet
  BY <1>1 DEF vars, Register, Sleep, Awake, DropSet
<1>2. CASE Push
  BY <1>2 DEF Push
<1>3. ASSUME NEW n \in Notifiers, NEW t \in armed, NotifyBegins(n, t)
      PROVE  QuietIsTold'
  <2>1. /\ UNCHANGED <<at, more, marked, bell, woken>>
        /\ \A m \in Notifiers : waking[m].at \in {"announce", "ring"} =>
                                  waking'[m] = waking[m]
    BY <1>3 DEF NotifyBegins, To, Idle, TypeOK
  <2>2. QED
    BY <2>1
<1>4. ASSUME NEW n \in Notifiers, Mark(n)
      PROVE  QuietIsTold'
  <2>1. /\ UNCHANGED <<at, more, bell, woken>>
        /\ \A m \in Notifiers : waking[m].at \in {"announce", "ring"} =>
                                  waking'[m] = waking[m]
    BY <1>4 DEF Mark, To, Idle, TypeOK
  <2>2. marked # {} \/ waking'[n].at \in {"announce", "ring"}
    BY <1>4 DEF Mark, To, TypeOK
  <2>3. QED
    BY <2>1, <2>2
<1>5. ASSUME NEW n \in Notifiers, Announce(n)
      PROVE  QuietIsTold'
  <2>1. UNCHANGED <<at, more, bell, woken, marked>> /\ waking'[n].at = "ring"
    BY <1>5 DEF Announce, To, TypeOK
  <2>2. QED
    BY <2>1
<1>6. ASSUME NEW n \in Notifiers, Ring(n)
      PROVE  QuietIsTold'
  <2>1. UNCHANGED <<at, more>>
    BY <1>6 DEF Ring
  <2>2. at \notin {"register", "gone"} => woken'
    BY <1>6 DEF Ring, Rung, TypeOK
  <2>3. QED
    BY <2>1, <2>2
<1>7. CASE HarvestEnds
  <2>1. at = "next" /\ sum = {} /\ dsum = {}
    BY <1>7 DEF HarvestEnds, HasReady, HandsAgree
  <2>2. UNCHANGED <<marked, bell, woken, waking>> /\ at' = "turn"
    BY <1>7 DEF HarvestEnds, HasReady
  <2>3. ASSUME ~more', marked # {} PROVE Told
    <3>1. Summaries > 0 /\ announced = {}
      BY <1>7, <2>3, Sizes DEF HarvestEnds, HasReady, TypeOK
    <3>2. QED
      BY <2>1, <2>3, <3>1 DEF NoMarkStranded, Announcing
  <2>4. QED
    BY <2>1, <2>2, <2>3
<1>8. CASE \/ HarvestOneWord \/ HarvestBegins \/ TakeStart \/ TakeWord \/ TakeSummary
           \/ Wrap \/ TakeDeferred \/ PollNothing
           \/ \E t \in cur : PollStale(t) \/ PollPending(t) \/ PollReady(t)
  <2>1. /\ at \notin {"register", "gone"} /\ UNCHANGED <<bell, woken>>
        /\ at' \in {"start", "next", "poll"}
    BY <1>8 DEF HarvestOneWord, HarvestBegins, TakeStart, TakeWord, TakeSummary,
       Wrap, TakeDeferred, PollNothing, PollStale, PollPending, PollReady, Polled,
       Polls, Visited
  <2>2. QED
    BY <2>1
<1>9. CASE Truncate
  BY <1>9 DEF Truncate
<1>10. ASSUME NEW t \in cur, NEW finished \in BOOLEAN, PollPanics(t, finished)
       PROVE  QuietIsTold'
  <2>1. at = "poll" /\ at' = "turn"
    BY <1>10 DEF PollPanics, Polls
  <2>2. woken'
    BY <1>10, <2>1 DEF PollPanics, Rung, TypeOK
  <2>3. QED
    BY <2>1, <2>2
<1>11. QED
  BY <1>1, <1>2, <1>3, <1>4, <1>5, <1>6, <1>7, <1>8, <1>9, <1>10 DEF Next, Notify, Harvest

-----------------------------------------------------------------------------
(* The theorems.                                                           *)

(* The invariant holds in every state of every behaviour.                  *)
THEOREM OutstandingCorrect == Spec => []OutstandingInv
<1>1. Init => OutstandingInv
  <2> SUFFICES ASSUME Init PROVE OutstandingInv
    OBVIOUS
  <2>1. 0 \in Slots /\ Summaries \in Nat
    BY Sizes DEF Init, Slots
  <2>2. TypeOK /\ HandsAgree
    <3>1. waking \in [Notifiers -> [at : {"idle", "mark", "announce", "ring"}, slot : Slots]]
      BY <2>1 DEF Init, Idle
    <3>2. step \in 0 .. Summaries /\ polled \in 0 .. Cap /\ panics \in 0 .. MaxPanics
      BY <2>1, OutstandingConstants DEF Init
    <3>3. QED
      BY <2>1, <3>1, <3>2 DEF Init, TypeOK, HandsAgree, Stages
  <2>3. NoMarkStranded /\ SignalIsKept /\ QuietIsTold
    BY DEF Init, NoMarkStranded, SignalIsKept, QuietIsTold
  <2>4. QED
    BY <2>2, <2>3 DEF OutstandingInv
<1>2. OutstandingInv /\ [Next]_vars => OutstandingInv'
  BY TypeStep, StrandedStep, SignalStep, QuietStep DEF OutstandingInv
<1>3. QED
  BY <1>1, <1>2, PTL DEF Spec

(* Wakes that race a harvest, a truncated harvest or an unwind never leave *)
(* a ready bit in a word that no announcement leads to (ReadySet::mark,    *)
(* take_word and RestoreGuard), for any number of words and wakers.        *)
THEOREM MarksAreFound == Spec => []NoMarkStranded
BY OutstandingCorrect, PTL DEF OutstandingInv

(* A future that was pushed or woken keeps its bit, or a waker about to    *)
(* set it, until it is polled (Inner::harvest, RestoreGuard::restore).     *)
THEOREM SignalsAreKept == Spec => []SignalIsKept
BY OutstandingCorrect, PTL DEF OutstandingInv

(* The owner does not sleep on a ready future without a ring on the way    *)
(* and its waker there to be found (Shared::notify against register).      *)
THEOREM SleepersAreTold == Spec => []NoSleepOnReady
<1>1. OutstandingInv => NoSleepOnReady
  BY DEF OutstandingInv, QuietIsTold, Told, NoSleepOnReady
<1>2. QED
  BY <1>1, OutstandingCorrect, PTL

=============================================================================
