--------------------------- MODULE WatchDeckProofs ---------------------------
(***************************************************************************)
(* The safety of WatchDeck, for any files, habits and bounds: its types,   *)
(* that its decks agree, that only files that are there are due, that the  *)
(* worker may break off its sweep, that an open writer is left alone, and  *)
(* that a file left alone gets ready.                                      *)
(*                                                                         *)
(* Each of the last four holds once all events are in, so its invariant    *)
(* follows a fact through the events on their way.  They are one list      *)
(* (pending: the event in hand and those in the queue), to which the users *)
(* append and from which Record takes the first, and the invariant says    *)
(* which event of it carries the fact, or that the decks do:               *)
(*   GoneFilesLeave        of a file that is gone, what makes the handler  *)
(*                         forget it;                                      *)
(*   NewestAreLast         of a polling observer, the order of the ages;   *)
(*   OpensAreKnown         of a writer, its open;                          *)
(*   ConclusionsAreComing  of a file left alone, what makes it complete,   *)
(*                         and how many readers are known after each event.*)
(***************************************************************************)
EXTENDS WatchDeck, FiniteSetTheorems, SequenceTheorems, TLAPS

Decks == [deck : Histories, modDeck : Histories, before : SUBSET (Files \X Files)]

\* What the worker and the handler may be given.
DeckOK(d) == d \in Decks /\ Agree(d)

IInv == TypeOK /\ DecksAgree

-----------------------------------------------------------------------------
(* Histories.                                                              *)

\* The bounds the assumption names.
LEMMA Bounds == AssumeClosed \in Nat \ {0} /\ MaxSize \in Nat /\ MaxStops \in Nat
BY WatchDeckAssumption, Zenon DEF WatchDeckAssumption

LEMMA RetractedType ==
  ASSUME NEW h \in Seq(Operation)
  PROVE  Retracted(h) \in Seq(Operation)
<1>1. CASE \E k \in DOMAIN h : LatestOpen(h, k)
  <2> DEFINE k == CHOOSE i \in DOMAIN h : LatestOpen(h, i)
  <2>1. k \in 1 .. Len(h)
    BY <1>1
  <2>2. SubSeq(h, 1, k - 1) \in Seq(Operation) /\ SubSeq(h, k + 1, Len(h)) \in Seq(Operation)
    <3>1. /\ \A i \in 1 .. k - 1 : h[i] \in Operation
          /\ \A i \in k + 1 .. Len(h) : h[i] \in Operation
      <4> HIDE DEF k
      <4> QED BY <2>1
    <3> QED BY <2>1, <3>1, SubSeqProperties
  <2> QED BY <1>1, <2>2 DEF Retracted, RemoveAt
<1>2. CASE ~ \E k \in DOMAIN h : LatestOpen(h, k)
  BY <1>2 DEF Retracted
<1> QED BY <1>1, <1>2

\* An event is appended to a history or takes the place of its last one.
LEMMA ReplaceType ==
  ASSUME NEW h \in Seq(Operation), h # <<>>, NEW o \in Operation
  PROVE  Replace(h, o) \in Seq(Operation) /\ Replace(h, o) # <<>>
BY DEF Replace

LEMMA ExtendedType ==
  ASSUME NEW h \in Seq(Operation), h # <<>>, NEW o \in Operation
  PROVE  Extended(h, o) \in Seq(Operation) /\ Extended(h, o) # <<>>
BY AppendProperties, ReplaceType DEF Extended

LEMMA StagedType ==
  ASSUME NEW h \in Seq(Operation), h # <<>>, NEW o \in Operation
  PROVE  Staged(h, o) \in Seq(Operation)
BY AppendProperties, ReplaceType DEF Staged

-----------------------------------------------------------------------------
(* The decks.                                                              *)

\* Decks that differ from d in the files of S only, and of those have none.
Without(d, S, e) ==
  /\ e \in Decks
  /\ \A f \in Files : /\ e.deck[f] = IF f \in S THEN <<>> ELSE d.deck[f]
                      /\ e.modDeck[f] \in {<<>>, d.modDeck[f]}
  /\ e.before = {p \in d.before : p[1] \notin S /\ p[2] \notin S}

LEMMA WithoutOK ==
  ASSUME NEW d, DeckOK(d), NEW S, NEW e, Without(d, S, e)
  PROVE  DeckOK(e) /\ Tracked(e) = Tracked(d) \ S
<1>1. Tracked(e) = Tracked(d) \ S
  BY DEF Without, Tracked
<1>2. \A f \in Files : e.deck[f] = <<>> \/ e.modDeck[f] = <<>>
  BY DEF DeckOK, Agree, Without
<1>3. e.before \subseteq d.before /\ \A p \in e.before : p[1] \notin S /\ p[2] \notin S
  BY DEF Without
<1>4. \A f, g \in Tracked(e) : <<f, g>> \in e.before <=> <<f, g>> \in d.before
  BY <1>1 DEF Without
<1>5. \A p, q \in e.before : p[2] = q[1] => <<p[1], q[2]>> \in e.before
  BY <1>3 DEF Without, DeckOK, Agree
<1> QED BY <1>1, <1>2, <1>3, <1>4, <1>5 DEF DeckOK, Agree, Without

\* EXCEPT on decks, part by part.
LEMMA SetDeck ==
  ASSUME NEW d \in Decks, NEW f \in Files, NEW h
  PROVE  [d EXCEPT !.deck[f] = h]
           = [deck |-> [d.deck EXCEPT ![f] = h], modDeck |-> d.modDeck, before |-> d.before]
BY DEF Decks

LEMMA SetModDeck ==
  ASSUME NEW d \in Decks, NEW f \in Files, NEW h
  PROVE  [d EXCEPT !.modDeck[f] = h]
           = [deck |-> d.deck, modDeck |-> [d.modDeck EXCEPT ![f] = h], before |-> d.before]
BY DEF Decks

LEMMA SetBefore ==
  ASSUME NEW d \in Decks, NEW R
  PROVE  [d EXCEPT !.before = R] = [deck |-> d.deck, modDeck |-> d.modDeck, before |-> R]
BY DEF Decks

LEMMA RemainingOK ==
  ASSUME NEW d, DeckOK(d), NEW S
  PROVE  /\ DeckOK(Remaining(d, S)) /\ Tracked(Remaining(d, S)) = Tracked(d) \ S
         /\ Remaining(d, S).modDeck = d.modDeck
<1> DEFINE e == Remaining(d, S)
           D == [f \in Files |-> IF f \in S THEN <<>> ELSE d.deck[f]]
           R == {p \in d.before : p[1] \notin S /\ p[2] \notin S}
<1>1. e = [[d EXCEPT !.deck = D] EXCEPT !.before = R]
  BY DEF Remaining
<1>2. [d EXCEPT !.deck = D] = [deck |-> D, modDeck |-> d.modDeck, before |-> d.before]
  BY DEF DeckOK, Decks
<1>3. e = [deck |-> D, modDeck |-> d.modDeck, before |-> R]
  BY <1>1, <1>2
<1>4. D \in Histories
  BY DEF DeckOK, Decks, Histories
<1>5. R \in SUBSET (Files \X Files)
  BY DEF DeckOK, Decks
<1>6. Without(d, S, e)
  <2> HIDE DEF e
  <2> QED BY <1>3, <1>4, <1>5 DEF DeckOK, Decks, Without
<1>7. e.modDeck = d.modDeck
  <2> HIDE DEF D, R
  <2> QED BY <1>3
<1> QED BY <1>6, <1>7, WithoutOK

LEMMA PopOK ==
  ASSUME NEW d, DeckOK(d), NEW S
  PROVE  /\ DeckOK(Pop(d, S)) /\ Tracked(Pop(d, S)) = Tracked(d) \ S
<1> DEFINE e == Remaining(d, S)
           D == [f \in Files |-> IF f \in S THEN <<>> ELSE d.modDeck[f]]
<1>1. DeckOK(e) /\ Tracked(e) = Tracked(d) \ S
  BY RemainingOK
<1> DEFINE r == [deck |-> e.deck, modDeck |-> D, before |-> e.before]
<1>2. Pop(d, S) = r
  <2> HIDE DEF e
  <2>1. [e EXCEPT !.modDeck = D] = r
    BY <1>1 DEF DeckOK, Decks
  <2> QED BY <2>1 DEF Pop, e
<1>3. D \in Histories
  BY DEF DeckOK, Decks, Histories
<1>4. e.modDeck = d.modDeck
  BY RemainingOK
<1>5. Without(e, {}, r)
  <2> HIDE DEF e
  <2> QED BY <1>1, <1>3, <1>4 DEF DeckOK, Decks, Without
<1> QED BY <1>1, <1>2, <1>5, WithoutOK

\* Decks that track what d tracks in the same order.
LEMMA SameOrder ==
  ASSUME NEW d, DeckOK(d), NEW e \in Decks, e.before = d.before,
         \A f \in Files : e.deck[f] = <<>> <=> d.deck[f] = <<>>,
         \A f \in Files : e.deck[f] = <<>> \/ e.modDeck[f] = <<>>
  PROVE  DeckOK(e)
<1>1. Tracked(e) = Tracked(d)
  BY DEF Tracked
<1> QED BY <1>1 DEF DeckOK, Agree

\* The decks d, with a history for f in the main one, agree once f has its
\* place.
LEMMA PlacedOK ==
  ASSUME NEW d, DeckOK(d), NEW f \in Files, NEW e \in Decks, e.before = d.before,
         e.deck[f] # <<>>, e.modDeck[f] = <<>>,
         \A g \in Files \ {f} : e.deck[g] = d.deck[g] /\ e.modDeck[g] = d.modDeck[g]
  PROVE  DeckOK(Place(e, f))
<1> DEFINE rest == Tracked(e) \ {f}
           old == {p \in e.before : f \notin {p[1], p[2]}}
           new == IF Last(e.deck[f]).op = "closed" THEN {f} \X rest ELSE rest \X {f}
           r == [deck |-> e.deck, modDeck |-> e.modDeck, before |-> old \cup new]
<1>1. Place(e, f) = r
  <2>1. Place(e, f) = [e EXCEPT !.before = old \cup new]
    BY DEF Place
  <2> HIDE DEF old, new
  <2> QED BY <2>1, SetBefore
<1>2. rest = Tracked(d) \ {f} /\ f \in Tracked(e) /\ rest \subseteq Files
  BY DEF Tracked
<1>3. r \in Decks /\ Tracked(r) = rest \cup {f}
  BY <1>2 DEF Decks, Tracked
<1>4. \A g \in Files : r.deck[g] = <<>> \/ r.modDeck[g] = <<>>
  BY DEF DeckOK, Agree
<1>5. \A p \in old : p \in rest \X rest /\ p[1] # p[2]
  BY <1>2 DEF DeckOK, Agree, Decks
<1>6. \A g, h \in rest : g # h => (<<g, h>> \in old <=> <<h, g>> \notin old)
  BY <1>2 DEF DeckOK, Agree
<1>7. \A p, q \in old : p[2] = q[1] => <<p[1], q[2]>> \in old
  BY DEF DeckOK, Agree
<1>8. new = {f} \X rest \/ new = rest \X {f}
  OBVIOUS
<1>9. Agree(r)
  <2> HIDE DEF rest, old, new
  <2> DEFINE B == old \cup new
  <2>1. \A p \in B : p[1] \in rest \cup {f} /\ p[2] \in rest \cup {f} /\ p[1] # p[2]
    BY <1>5, <1>8 DEF rest
  <2>2. \A g, h \in rest \cup {f} : g # h => (<<g, h>> \in B <=> <<h, g>> \notin B)
    BY <1>5, <1>6, <1>8 DEF rest
  <2>3. \A p, q \in B : p[2] = q[1] => <<p[1], q[2]>> \in B
    BY <1>5, <1>7, <1>8 DEF rest
  <2> QED BY <1>3, <1>4, <2>1, <2>2, <2>3 DEF Agree
<1> QED BY <1>1, <1>3, <1>9 DEF DeckOK

LEMMA RecordedOK ==
  ASSUME NEW d, DeckOK(d), NEW f \in Files, NEW o \in Operation
  PROVE  DeckOK(Recorded(d, f, o))
<1>1. /\ d \in Decks /\ d.deck \in Histories /\ d.modDeck \in Histories
      /\ d.deck[f] \in Seq(Operation) /\ d.modDeck[f] \in Seq(Operation)
      /\ \A g \in Files : d.deck[g] = <<>> \/ d.modDeck[g] = <<>>
  BY DEF DeckOK, Decks, Histories, Agree
<1>2. CASE o.op = "deleted"
  BY <1>2, PopOK DEF Recorded
<1>3. CASE o.op # "deleted" /\ f \in Tracked(d)
  <2> DEFINE h == Extended(d.deck[f], o)
             e == [d EXCEPT !.deck[f] = h]
  <2>1. d.deck[f] # <<>> /\ d.modDeck[f] = <<>>
    BY <1>1, <1>3 DEF Tracked
  <2>2. h \in Seq(Operation) /\ h # <<>>
    BY <1>1, <2>1, ExtendedType
  <2>3. e = [deck |-> [d.deck EXCEPT ![f] = h], modDeck |-> d.modDeck, before |-> d.before]
    BY <1>1, SetDeck
  <2>4. e \in Decks
    <3> HIDE DEF h, e
    <3> QED BY <1>1, <2>2, <2>3 DEF Decks, Histories
  <2>5. /\ e.before = d.before /\ e.deck[f] = h /\ e.modDeck = d.modDeck
        /\ \A g \in Files \ {f} : e.deck[g] = d.deck[g]
    <3> HIDE DEF h, e
    <3> QED BY <1>1, <2>3 DEF Histories
  <2>6. DeckOK(e)
    <3> HIDE DEF h, e
    <3> QED BY <1>1, <2>1, <2>2, <2>4, <2>5, SameOrder
  <2>7. DeckOK(Place(e, f))
    <3> HIDE DEF h, e
    <3> QED BY <2>1, <2>2, <2>4, <2>5, PlacedOK
  <2>8. Recorded(d, f, o) \in {d, e, Place(e, f)}
    BY <1>3 DEF Recorded
  <2> QED BY <2>6, <2>7, <2>8
<1>4. CASE o.op # "deleted" /\ f \notin Tracked(d) /\ d.modDeck[f] # <<>> /\ Promotes(d.modDeck[f], o)
  <2> DEFINE h == Append(d.modDeck[f], o)
             e == Promoted(d, f, o)
  <2>1. h \in Seq(Operation) /\ h # <<>>
    BY <1>1, AppendProperties
  <2>2. e = [deck |-> [d.deck EXCEPT ![f] = h], modDeck |-> [d.modDeck EXCEPT ![f] = <<>>],
             before |-> d.before]
    <3> HIDE DEF h
    <3>1. e = [[d EXCEPT !.deck[f] = h] EXCEPT !.modDeck[f] = <<>>]
      BY DEF Promoted, h
    <3>2. [d EXCEPT !.deck[f] = h]
            = [deck |-> [d.deck EXCEPT ![f] = h], modDeck |-> d.modDeck, before |-> d.before]
      BY <1>1, SetDeck
    <3> QED BY <3>1, <3>2
  <2>3. e \in Decks
    <3> HIDE DEF h, e
    <3> QED BY <1>1, <2>1, <2>2 DEF Decks, Histories
  <2>4. /\ e.before = d.before /\ e.deck[f] = h /\ e.modDeck[f] = <<>>
        /\ \A g \in Files \ {f} : e.deck[g] = d.deck[g] /\ e.modDeck[g] = d.modDeck[g]
    <3> HIDE DEF h, e
    <3> QED BY <1>1, <2>2 DEF Histories
  <2>5. Recorded(d, f, o) = Place(e, f)
    BY <1>4 DEF Recorded
  <2> HIDE DEF h, e
  <2> QED BY <2>1, <2>3, <2>4, <2>5, PlacedOK
<1>5. CASE /\ o.op # "deleted" /\ f \notin Tracked(d)
           /\ \/ d.modDeck[f] # <<>> /\ ~ Promotes(d.modDeck[f], o)
              \/ d.modDeck[f] = <<>> /\ o.op \in {"opened", "modified"}
  <2> DEFINE h == IF d.modDeck[f] = <<>> THEN <<o>> ELSE Staged(d.modDeck[f], o)
             e == [d EXCEPT !.modDeck[f] = h]
  <2>1. h \in Seq(Operation)
    BY <1>1, StagedType
  <2>2. e = [deck |-> d.deck, modDeck |-> [d.modDeck EXCEPT ![f] = h], before |-> d.before]
    BY <1>1, SetModDeck
  <2>3. Recorded(d, f, o) = e
    BY <1>5 DEF Recorded
  <2>4. e \in Decks
    <3> HIDE DEF h, e
    <3> QED BY <1>1, <2>1, <2>2 DEF Decks, Histories
  <2>5. /\ e.before = d.before /\ e.deck = d.deck
        /\ \A g \in Files : e.deck[g] = <<>> \/ e.modDeck[g] = <<>>
    <3> HIDE DEF h, e
    <3> QED BY <1>1, <1>5, <2>2 DEF Histories, Tracked
  <2> HIDE DEF h, e
  <2> QED BY <2>3, <2>4, <2>5, SameOrder
<1>6. CASE /\ o.op \notin {"deleted", "opened", "modified"}
           /\ f \notin Tracked(d) /\ d.modDeck[f] = <<>>
  <2> DEFINE e == [d EXCEPT !.deck[f] = <<o>>]
  <2>1. e = [deck |-> [d.deck EXCEPT ![f] = <<o>>], modDeck |-> d.modDeck, before |-> d.before]
    BY <1>1, SetDeck
  <2>2. e \in Decks
    <3> HIDE DEF e
    <3> QED BY <1>1, <2>1 DEF Decks, Histories
  <2>3. /\ e.before = d.before /\ e.deck[f] = <<o>> /\ <<o>> # <<>> /\ e.modDeck = d.modDeck
        /\ \A g \in Files \ {f} : e.deck[g] = d.deck[g]
    <3> HIDE DEF e
    <3> QED BY <1>1, <2>1 DEF Histories
  <2>4. Recorded(d, f, o) = Place(e, f)
    BY <1>6 DEF Recorded
  <2> HIDE DEF e
  <2> QED BY <1>6, <2>2, <2>3, <2>4, PlacedOK
<1> QED BY <1>2, <1>3, <1>4, <1>5, <1>6

LEMMA ReadEndedOK ==
  ASSUME NEW d, DeckOK(d), NEW f \in Files
  PROVE  DeckOK(ReadEnded(d, f))
<1>1. /\ d \in Decks /\ d.deck \in Histories /\ d.modDeck \in Histories
      /\ d.deck[f] \in Seq(Operation) /\ d.modDeck[f] \in Seq(Operation)
      /\ \A g \in Files : d.deck[g] = <<>> \/ d.modDeck[g] = <<>>
  BY DEF DeckOK, Decks, Histories, Agree
<1>2. CASE f \notin Tracked(d)
  <2> DEFINE h == Retracted(d.modDeck[f])
             e == [d EXCEPT !.modDeck[f] = h]
  <2>1. h \in Seq(Operation)
    BY <1>1, RetractedType
  <2>2. e = [deck |-> d.deck, modDeck |-> [d.modDeck EXCEPT ![f] = h], before |-> d.before]
    BY <1>1, SetModDeck
  <2>3. ReadEnded(d, f) = e
    BY <1>2 DEF ReadEnded
  <2>4. e \in Decks
    <3> HIDE DEF h, e
    <3> QED BY <1>1, <2>1, <2>2 DEF Decks, Histories
  <2>5. /\ e.before = d.before /\ e.deck = d.deck
        /\ \A g \in Files : e.deck[g] = <<>> \/ e.modDeck[g] = <<>>
    <3> HIDE DEF h, e
    <3> QED BY <1>1, <1>2, <2>2 DEF Histories, Tracked
  <2> HIDE DEF h, e
  <2> QED BY <2>3, <2>4, <2>5, SameOrder
<1>3. CASE f \in Tracked(d) /\ Retracted(d.deck[f]) = <<>>
  BY <1>3, RemainingOK DEF ReadEnded
<1>4. CASE f \in Tracked(d) /\ Retracted(d.deck[f]) # <<>>
  <2> DEFINE h == Retracted(d.deck[f])
             e == [d EXCEPT !.deck[f] = h]
  <2>1. h \in Seq(Operation) /\ h # <<>>
    BY <1>1, <1>4, RetractedType
  <2>2. e = [deck |-> [d.deck EXCEPT ![f] = h], modDeck |-> d.modDeck, before |-> d.before]
    BY <1>1, SetDeck
  <2>3. ReadEnded(d, f) = e
    BY <1>4 DEF ReadEnded
  <2>4. e \in Decks
    <3> HIDE DEF h, e
    <3> QED BY <1>1, <2>1, <2>2 DEF Decks, Histories
  <2>5. /\ e.before = d.before /\ e.modDeck = d.modDeck
        /\ \A g \in Files : e.deck[g] = <<>> <=> d.deck[g] = <<>>
    <3> HIDE DEF h, e
    <3> QED BY <1>1, <1>4, <2>1, <2>2 DEF Histories, Tracked
  <2> HIDE DEF h, e
  <2> QED BY <1>1, <2>3, <2>4, <2>5, SameOrder
<1> QED BY <1>2, <1>3, <1>4

LEMMA OlderType ==
  ASSUME NEW o \in Operation
  PROVE  Older(o) \in Operation
<1> DEFINE a == IF o.age < AssumeClosed THEN o.age + 1 ELSE o.age
<1>1. o.age \in 0 .. AssumeClosed /\ AssumeClosed \in Nat
  BY Bounds DEF Operation
<1>2. a \in 0 .. AssumeClosed
  BY <1>1
<1>3. Older(o) = [o EXCEPT !.age = a]
  BY DEF Older
<1> HIDE DEF a
<1> QED BY <1>2, <1>3 DEF Operation

LEMMA OlderAllType ==
  ASSUME NEW hs \in Histories
  PROVE  /\ OlderAll(hs) \in Histories
         /\ \A f \in Files : OlderAll(hs)[f] = <<>> <=> hs[f] = <<>>
<1>1. ASSUME NEW f \in Files
      PROVE  /\ OlderAll(hs)[f] \in Seq(Operation)
             /\ OlderAll(hs)[f] = <<>> <=> hs[f] = <<>>
  <2>1. hs[f] \in Seq(Operation)
    BY DEF Histories
  <2>2. OlderAll(hs)[f] = [i \in 1 .. Len(hs[f]) |-> Older(hs[f][i])]
    BY <2>1 DEF OlderAll
  <2>3. \A i \in 1 .. Len(hs[f]) : Older(hs[f][i]) \in Operation
    BY <2>1, OlderType
  <2>4. OlderAll(hs)[f] \in Seq(Operation) /\ Len(OlderAll(hs)[f]) = Len(hs[f])
    BY <2>1, <2>2, <2>3
  <2> QED BY <2>1, <2>4
<1> QED BY <1>1 DEF OlderAll, Histories

LEMMA OlderOK ==
  ASSUME NEW d, DeckOK(d)
  PROVE  DeckOK([d EXCEPT !.deck = OlderAll(@), !.modDeck = OlderAll(@)])
<1> DEFINE D == OlderAll(d.deck)
           M == OlderAll(d.modDeck)
           e == [d EXCEPT !.deck = OlderAll(@), !.modDeck = OlderAll(@)]
<1>1. d \in Decks /\ d.deck \in Histories /\ d.modDeck \in Histories
  BY DEF DeckOK, Decks
<1>2. e = [[d EXCEPT !.deck = D] EXCEPT !.modDeck = M]
  OBVIOUS
<1>3. [d EXCEPT !.deck = D] = [deck |-> D, modDeck |-> d.modDeck, before |-> d.before]
  BY <1>1 DEF Decks
<1>4. e = [deck |-> D, modDeck |-> M, before |-> d.before]
  <2> HIDE DEF D, M, e
  <2> QED BY <1>2, <1>3
<1>5. /\ D \in Histories /\ M \in Histories
      /\ \A f \in Files : /\ D[f] = <<>> <=> d.deck[f] = <<>>
                          /\ M[f] = <<>> <=> d.modDeck[f] = <<>>
  BY <1>1, OlderAllType
<1>6. e \in Decks
  <2> HIDE DEF D, M, e
  <2> QED BY <1>1, <1>4, <1>5 DEF Decks
<1>7. /\ e.before = d.before
      /\ \A f \in Files : e.deck[f] = <<>> <=> d.deck[f] = <<>>
      /\ \A f \in Files : e.deck[f] = <<>> \/ e.modDeck[f] = <<>>
  <2> HIDE DEF D, M, e
  <2> QED BY <1>4, <1>5 DEF DeckOK, Agree
<1> HIDE DEF e
<1>8. DeckOK(e)
  BY <1>6, <1>7, SameOrder
<1> QED BY <1>8 DEF e

LEMMA EmptyOK == DeckOK(Empty)
BY DEF DeckOK, Agree, Decks, Histories, Empty, Tracked

-----------------------------------------------------------------------------
(* The queue.                                                              *)

LEMMA EvType ==
  ASSUME NEW op \in Kinds, NEW f \in Files
  PROVE  Ev(op, f) \in Event
BY DEF Ev, Event

LEMMA EnqueueType ==
  ASSUME NEW q \in Seq(Event), NEW e \in Event
  PROVE  Enqueue(q, e) \in Seq(Event)
BY AppendProperties DEF Enqueue

\* What a new process makes of the files that are there are events.
LEMMA TouchedType ==
  ASSUME NEW s \in Seq(Files)
  PROVE  Touched(s) \in Seq(Event)
<1>1. CASE polling
  <2>1. Touched(s) = [i \in 1 .. Len(s) |-> Ev("modified", s[i])]
    BY <1>1 DEF Touched
  <2>2. \A i \in 1 .. Len(s) : Ev("modified", s[i]) \in Event
    BY EvType DEF Kinds
  <2> QED BY <2>1, <2>2
<1>2. CASE ~ polling
  <2> DEFINE T(i) == Ev(Touches[((i - 1) % 3) + 1], s[((i - 1) \div 3) + 1])
  <2>1. ASSUME NEW i \in 1 .. 3 * Len(s) PROVE T(i) \in Event
    <3>1. ((i - 1) % 3) + 1 \in 1 .. 3 /\ ((i - 1) \div 3) + 1 \in 1 .. Len(s)
      OBVIOUS
    <3>2. Touches[((i - 1) % 3) + 1] \in Kinds
      BY <3>1 DEF Touches, Kinds
    <3> QED BY <3>1, <3>2, EvType
  <2>2. Touched(s) = [i \in 1 .. 3 * Len(s) |-> T(i)]
    BY <1>2 DEF Touched
  <2> HIDE DEF T
  <2> QED BY <2>1, <2>2
<1> QED BY <1>1, <1>2

-----------------------------------------------------------------------------
(* The steps: the users touch neither the decks nor the event in hand, the *)
(* watcher does not touch the files.                                       *)

UserStep == \E f \in Files : Users(f) \/ Closes(f)

LEMMA UserQueue ==
  ASSUME TypeOK, UserStep
  PROVE  queue' \in Seq(Event) /\ UNCHANGED <<handling, decks, stops>>
<1> PICK f \in Files : Users(f) \/ Closes(f)
  BY DEF UserStep
<1>1. queue \in Seq(Event)
  BY DEF TypeOK
<1>2. \A op \in Kinds : Enqueue(queue, Ev(op, f)) \in Seq(Event)
  BY <1>1, EvType, EnqueueType
<1>3. CASE Create(f)
  <2>1. Enqueue(Enqueue(queue, Ev("created", f)), Ev("opened", f)) \in Seq(Event)
    BY <1>2, EvType, EnqueueType DEF Kinds
  <2> QED BY <1>3, <2>1 DEF Create
<1>4. CASE OpenWrite(f)
  BY <1>2, <1>4 DEF OpenWrite, Kinds
<1>5. CASE Write(f)
  BY <1>2, <1>5 DEF Write, Kinds
<1>6. CASE OpenRead(f)
  BY <1>2, <1>6 DEF OpenRead, Kinds
<1>7. CASE MoveIn(f)
  BY <1>2, <1>7 DEF MoveIn, Kinds
<1>8. CASE Touch(f)
  BY <1>2, <1>8 DEF Touch, Kinds
<1>9. CASE Delete(f)
  BY <1>2, <1>9 DEF Delete, Kinds
<1>10. ASSUME NEW g \in Files, Rename(f, g)
       PROVE  queue' \in Seq(Event) /\ UNCHANGED <<handling, decks, stops>>
  <2>1. [op |-> "moved", file |-> g, from |-> f] \in Event
    BY DEF Event, Kinds
  <2> QED BY <1>1, <1>10, <2>1, EnqueueType DEF Rename
<1>11. CASE CloseWrite(f)
  BY <1>2, <1>11 DEF CloseWrite, Kinds
<1>12. CASE CloseRead(f)
  BY <1>2, <1>12 DEF CloseRead, Kinds
<1> QED BY <1>3, <1>4, <1>5, <1>6, <1>7, <1>8, <1>9, <1>10, <1>11, <1>12 DEF Users, Closes

\* What TypeOK says of the files.
FilesOK ==
  /\ polling \in PollingModes /\ habits \in Manners
  /\ exists \subseteq Files /\ writer \subseteq exists /\ fresh \subseteq exists
  /\ size \in [Files -> 0 .. MaxSize]
  /\ readers \in [Files -> Nat] /\ strays \in [Files -> Nat]
  /\ ops \in Nat

LEMMA UserFiles ==
  ASSUME FilesOK, UserStep
  PROVE  FilesOK'
<1> PICK f \in Files : Users(f) \/ Closes(f)
  BY DEF UserStep
<1> USE DEF FilesOK
<1>a. 0 \in 0 .. MaxSize
  BY Bounds
<1>1. CASE Create(f)
  BY <1>1 DEF Create, Use
<1>2. CASE OpenWrite(f)
  BY <1>2 DEF OpenWrite, Use
<1>3. CASE Write(f)
  BY <1>3 DEF Write, Use
<1>4. CASE OpenRead(f)
  BY <1>4 DEF OpenRead, Use
<1>5. CASE MoveIn(f)
  BY <1>5 DEF MoveIn, Use
<1>6. CASE Touch(f)
  BY <1>6 DEF Touch, Use, userVars
<1>7. CASE Delete(f)
  BY <1>a, <1>7 DEF Delete, Use
<1>8. ASSUME NEW g \in Files, Rename(f, g) PROVE FilesOK'
  <2>1. exists' \subseteq Files /\ writer' \subseteq exists' /\ fresh' \subseteq exists'
    BY <1>8 DEF Rename
  <2>2. size' \in [Files -> 0 .. MaxSize]
    BY <1>a, <1>8 DEF Rename
  <2>3. readers' \in [Files -> Nat] /\ strays' \in [Files -> Nat]
    <3>1. readers' = [readers EXCEPT ![f] = 0, ![g] = readers[f]]
      BY <1>8 DEF Rename
    <3>2. strays' = [strays EXCEPT ![g] = @ + readers[g]]
      BY <1>8 DEF Rename
    <3> QED BY <3>1, <3>2
  <2>4. ops' \in Nat
    <3>1. ops' = ops + 1
      BY <1>8 DEF Rename, Use
    <3> QED BY <3>1
  <2>5. polling' = polling /\ habits' = habits
    BY <1>8 DEF Rename
  <2> QED BY <2>1, <2>2, <2>3, <2>4, <2>5
<1>9. CASE CloseWrite(f)
  BY <1>9 DEF CloseWrite
<1>10. CASE CloseRead(f)
  BY <1>10 DEF CloseRead
<1> QED BY <1>1, <1>2, <1>3, <1>4, <1>5, <1>6, <1>7, <1>8, <1>9, <1>10 DEF Users, Closes

\* A process that starts knows of nothing but the files it touches.
LEMMA StartOverOK ==
  ASSUME TypeOK, StartOver
  PROVE  queue' \in Seq(Event) /\ handling' = NoEvent /\ decks' = Empty
<1>1. CASE TouchExisting
  <2>1. PICK s \in SetToSeqs(exists) : queue' = Touched(s)
    BY <1>1 DEF StartOver
  <2>2. IsFiniteSet(exists)
    BY FS_Subset, WatchDeckAssumption DEF TypeOK
  <2>3. Cardinality(exists) \in Nat
    BY <2>2, FS_CardinalityType
  <2>4. s \in [1 .. Cardinality(exists) -> exists]
    BY <2>1 DEF SetToSeqs
  <2>5. s \in Seq(Files)
    BY <2>3, <2>4 DEF TypeOK
  <2> QED BY <2>1, <2>5, TouchedType DEF StartOver
<1>2. CASE ~ TouchExisting
  BY <1>2 DEF StartOver
<1> QED BY <1>1, <1>2

LEMMA StampOK ==
  ASSUME TypeOK, Stamp
  PROVE  queue' \in Seq(Event) /\ handling' \in [event : Event, as : Operation]
<1> DEFINE e == Head(queue)
<1>1. e \in Event /\ queue' \in Seq(Event)
  BY DEF TypeOK, Stamp
<1>2. SizeOf(e.file) \in 0 .. MaxSize
  BY <1>1, Bounds DEF SizeOf, Event, TypeOK
<1>3. 0 \in 0 .. AssumeClosed
  BY Bounds
<1>4. [op |-> e.op, size |-> SizeOf(e.file), age |-> 0] \in Operation
  BY <1>1, <1>2, <1>3 DEF Event, Operation
<1> QED BY <1>1, <1>4 DEF Stamp

LEMMA RecordOK ==
  ASSUME IInv, Record
  PROVE  DeckOK(decks')
<1>1. DeckOK(decks)
  BY DEF IInv, TypeOK, DecksAgree, DeckOK, Decks
<1>2. handling.event \in Event /\ handling.as \in Operation
  BY DEF IInv, TypeOK, Record
<1>3. handling.event.file \in Files
  BY <1>2 DEF Event
<1>4. DeckOK(Pop(decks, Source(handling.event)))
  BY <1>1, PopOK
<1> QED BY <1>1, <1>2, <1>3, <1>4, ReadEndedOK, RecordedOK DEF Record

LEMMA OtherSteps ==
  ASSUME IInv, Sweep \/ Restart \/ Tick \/ \E f \in Files : ProcessorFails(f)
  PROVE  DeckOK(decks') /\ fresh' \subseteq fresh /\ stops' \in Nat /\ queue' \in Seq(Event)
         /\ handling' \in {NoEvent} \cup [event : Event, as : Operation]
         /\ UNCHANGED <<polling, habits, exists, size, writer, readers, strays, ops>>
<1>1. DeckOK(decks) /\ TypeOK
  BY DEF IInv, TypeOK, DecksAgree, DeckOK, Decks
<1>2. CASE Sweep
  BY <1>1, <1>2, RemainingOK DEF Sweep, TypeOK, userVars
<1>3. CASE Restart
  BY <1>1, <1>3, StartOverOK, EmptyOK DEF Restart, TypeOK, userVars
<1>4. ASSUME NEW f \in Files, ProcessorFails(f)
      PROVE  DeckOK(decks') /\ fresh' \subseteq fresh /\ stops' \in Nat /\ queue' \in Seq(Event)
             /\ handling' \in {NoEvent} \cup [event : Event, as : Operation]
             /\ UNCHANGED <<polling, habits, exists, size, writer, readers, strays, ops>>
  <2> DEFINE handed == {g \in Due(decks) : g = f \/ <<g, f>> \in decks.before}
  <2>1. /\ stops' \in Nat /\ fresh' \subseteq fresh
        /\ UNCHANGED <<polling, habits, exists, size, writer, readers, strays, ops>>
    BY <1>1, <1>4 DEF ProcessorFails, TypeOK, userVars
  <2>2. StartOver \/ (decks' = Remaining(decks, handed) /\ UNCHANGED <<queue, handling>>)
    BY <1>4 DEF ProcessorFails
  <2> HIDE DEF handed
  <2>3. CASE StartOver
    BY <1>1, <2>1, <2>3, StartOverOK, EmptyOK
  <2>4. CASE decks' = Remaining(decks, handed) /\ UNCHANGED <<queue, handling>>
    <3>1. DeckOK(decks')
      BY <1>1, <2>4, RemainingOK
    <3> QED BY <1>1, <2>1, <2>4, <3>1 DEF TypeOK
  <2> QED BY <2>2, <2>3, <2>4
<1>5. CASE Tick
  <2>1. DeckOK(decks')
    BY <1>1, <1>5, OlderOK DEF Tick
  <2>2. handling' \in {NoEvent} \cup [event : Event, as : Operation]
    BY <1>1, <1>5, OlderType DEF Tick, TypeOK
  <2> QED BY <1>1, <1>5, <2>1, <2>2 DEF Tick, TypeOK, userVars
<1> QED BY <1>2, <1>3, <1>4, <1>5

-----------------------------------------------------------------------------
(* The invariant.                                                          *)

LEMMA Parting == IInv <=> /\ FilesOK /\ DeckOK(decks) /\ stops \in Nat /\ queue \in Seq(Event)
                          /\ handling \in {NoEvent} \cup [event : Event, as : Operation]
BY DEF IInv, TypeOK, DecksAgree, DeckOK, Decks, FilesOK

LEMMA PartingNext ==
  ASSUME FilesOK', DeckOK(decks'), stops' \in Nat, queue' \in Seq(Event),
         handling' \in {NoEvent} \cup [event : Event, as : Operation]
  PROVE  IInv'
BY DEF IInv, TypeOK, DecksAgree, DeckOK, Decks, FilesOK

LEMMA InitInv == Init => IInv
<1> SUFFICES ASSUME Init PROVE IInv
  OBVIOUS
<1>1. FilesOK
  BY Bounds DEF Init, FilesOK
<1>2. DeckOK(decks)
  BY EmptyOK DEF Init
<1>3. /\ stops \in Nat /\ queue \in Seq(Event)
      /\ handling \in {NoEvent} \cup [event : Event, as : Operation]
  BY DEF Init
<1> QED BY <1>1, <1>2, <1>3, Parting

LEMMA NextInv == IInv /\ [Next]_vars => IInv'
<1> SUFFICES ASSUME IInv, [Next]_vars PROVE IInv'
  OBVIOUS
<1>1. /\ TypeOK /\ FilesOK /\ DeckOK(decks) /\ stops \in Nat /\ queue \in Seq(Event)
      /\ handling \in {NoEvent} \cup [event : Event, as : Operation]
  BY Parting DEF IInv
<1> DEFINE Others == /\ DeckOK(decks') /\ stops' \in Nat /\ queue' \in Seq(Event)
                     /\ handling' \in {NoEvent} \cup [event : Event, as : Operation]
<1>2. CASE UserStep
  <2>1. FilesOK'
    BY <1>1, <1>2, UserFiles
  <2>2. Others
    BY <1>1, <1>2, UserQueue
  <2> QED BY <2>1, <2>2, PartingNext
<1>3. CASE Stamp
  <2>1. FilesOK' /\ UNCHANGED <<decks, stops>>
    BY <1>1, <1>3 DEF Stamp, FilesOK, userVars
  <2>2. Others
    BY <1>1, <1>3, <2>1, StampOK
  <2> QED BY <2>1, <2>2, PartingNext
<1>4. CASE Record
  <2>1. FilesOK' /\ UNCHANGED <<queue, stops>> /\ handling' = NoEvent
    BY <1>1, <1>4 DEF Record, FilesOK, userVars
  <2>2. Others
    BY <1>1, <1>4, <2>1, RecordOK
  <2> QED BY <2>1, <2>2, PartingNext
<1>5. CASE Sweep \/ Restart \/ Tick \/ \E f \in Files : ProcessorFails(f)
  <2>1. /\ Others /\ fresh' \subseteq fresh
        /\ UNCHANGED <<polling, habits, exists, size, writer, readers, strays, ops>>
    BY <1>5, OtherSteps
  <2>2. FilesOK'
    BY <1>1, <2>1 DEF FilesOK
  <2> QED BY <2>1, <2>2, PartingNext
<1>6. CASE UNCHANGED vars
  BY <1>6 DEF vars, userVars, IInv, TypeOK, DecksAgree, Agree, Tracked
<1> QED BY <1>2, <1>3, <1>4, <1>5, <1>6 DEF Next, Watcher, UserStep

-----------------------------------------------------------------------------
(* The theorems.                                                           *)

(* What every step of the users, the handler and the worker preserves: the *)
(* types of the state, and two decks that agree.                           *)
THEOREM Invariance == Spec => []IInv
BY InitInv, NextInv, PTL DEF Spec

(* The state has its types in every reachable state.                       *)
THEOREM TypeCorrect == Spec => []TypeOK
<1>1. IInv => TypeOK
  BY DEF IInv
<1> QED BY <1>1, Invariance, PTL

(* However the events are interleaved with the sweeps, the failures and    *)
(* the restarts, no file is in both decks and the main deck stays in one   *)
(* order of the files in it (on_any_event, cancel_read_open, the worker).  *)
THEOREM DecksAlwaysAgree == Spec => []DecksAgree
<1>1. IInv => DecksAgree
  BY DEF IInv
<1> QED BY <1>1, Invariance, PTL

-----------------------------------------------------------------------------
(* What each operation makes of the parts of the decks.                    *)

\* What Remaining, Pop and Place make of the parts of the decks.
LEMMA RemainingIs ==
  ASSUME NEW d, DeckOK(d), NEW S
  PROVE  /\ \A f \in Files : /\ Remaining(d, S).deck[f] = IF f \in S THEN <<>> ELSE d.deck[f]
                             /\ Remaining(d, S).modDeck[f] = d.modDeck[f]
         /\ Remaining(d, S).before \subseteq d.before
<1> DEFINE D == [f \in Files |-> IF f \in S THEN <<>> ELSE d.deck[f]]
           R == {p \in d.before : p[1] \notin S /\ p[2] \notin S}
<1>1. Remaining(d, S) = [[d EXCEPT !.deck = D] EXCEPT !.before = R]
  BY DEF Remaining
<1>2. R \subseteq d.before /\ \A f \in Files : D[f] = IF f \in S THEN <<>> ELSE d.deck[f]
  OBVIOUS
<1> HIDE DEF D, R
<1>3. [d EXCEPT !.deck = D] = [deck |-> D, modDeck |-> d.modDeck, before |-> d.before]
  BY DEF DeckOK, Decks
<1>4. Remaining(d, S) = [deck |-> D, modDeck |-> d.modDeck, before |-> R]
  BY <1>1, <1>3
<1> QED BY <1>2, <1>4

LEMMA PopIs ==
  ASSUME NEW d, DeckOK(d), NEW S
  PROVE  /\ \A f \in Files : /\ Pop(d, S).deck[f] = IF f \in S THEN <<>> ELSE d.deck[f]
                             /\ Pop(d, S).modDeck[f] = IF f \in S THEN <<>> ELSE d.modDeck[f]
         /\ Pop(d, S).before \subseteq d.before
<1> DEFINE e == Remaining(d, S)
           D == [f \in Files |-> IF f \in S THEN <<>> ELSE d.modDeck[f]]
<1>1. Pop(d, S) = [e EXCEPT !.modDeck = D]
  BY DEF Pop
<1>2. \A f \in Files : D[f] = IF f \in S THEN <<>> ELSE d.modDeck[f]
  OBVIOUS
<1>3. e \in Decks
  BY RemainingOK DEF DeckOK
<1> HIDE DEF D, e
<1>4. Pop(d, S) = [deck |-> e.deck, modDeck |-> D, before |-> e.before]
  BY <1>1, <1>3 DEF Decks
<1>5. Pop(d, S).deck = e.deck /\ Pop(d, S).modDeck = D /\ Pop(d, S).before = e.before
  BY <1>4
<1> QED BY <1>2, <1>5, RemainingIs DEF e

LEMMA PlaceIs ==
  ASSUME NEW d \in Decks, NEW f \in Files
  PROVE  /\ Place(d, f).deck = d.deck /\ Place(d, f).modDeck = d.modDeck
         /\ Last(d.deck[f]).op # "closed" =>
              \A p \in Place(d, f).before : p[2] = f \/ (p[1] # f /\ p \in d.before)
<1> DEFINE rest == Tracked(d) \ {f}
           R == {p \in d.before : f \notin {p[1], p[2]}}
                \cup (IF Last(d.deck[f]).op = "closed" THEN {f} \X rest ELSE rest \X {f})
<1>1. Place(d, f) = [d EXCEPT !.before = R]
  BY DEF Place
<1>2. Last(d.deck[f]).op # "closed" => \A p \in R : p[2] = f \/ (p[1] # f /\ p \in d.before)
  OBVIOUS
<1> HIDE DEF R
<1>3. Place(d, f) = [deck |-> d.deck, modDeck |-> d.modDeck, before |-> R]
  BY <1>1, SetBefore
<1> QED BY <1>2, <1>3

\* What recording o makes of the histories of f.
Effect(d, f, o, e) ==
  /\ \A g \in Files \ {f} : e.deck[g] = d.deck[g] /\ e.modDeck[g] = d.modDeck[g]
  /\ CASE o.op = "deleted" -> e.deck[f] = <<>> /\ e.modDeck[f] = <<>>
       [] o.op # "deleted" /\ d.deck[f] # <<>> ->
            /\ e.deck[f] = IF AttributesOnly(d.deck[f], o) THEN d.deck[f] ELSE Extended(d.deck[f], o)
            /\ e.modDeck[f] = <<>>
       [] o.op # "deleted" /\ d.deck[f] = <<>> /\ d.modDeck[f] # <<>> /\ Promotes(d.modDeck[f], o) ->
            e.deck[f] = Append(d.modDeck[f], o) /\ e.modDeck[f] = <<>>
       [] o.op # "deleted" /\ d.deck[f] = <<>> /\ d.modDeck[f] # <<>> /\ ~Promotes(d.modDeck[f], o) ->
            e.deck[f] = <<>> /\ e.modDeck[f] = Staged(d.modDeck[f], o)
       [] o.op \in {"opened", "modified"} /\ d.deck[f] = <<>> /\ d.modDeck[f] = <<>> ->
            e.deck[f] = <<>> /\ e.modDeck[f] = <<o>>
       [] OTHER -> e.deck[f] = <<o>> /\ e.modDeck[f] = <<>>

\* It puts f at the end of the main deck, unless o is an open or f was closed.
Order(d, f, o, e) ==
  o.op # "opened" /\ (e.deck[f] # <<>> => Last(e.deck[f]).op # "closed") =>
    \/ e.before \subseteq d.before /\ e.deck[f] \in {<<>>, d.deck[f]}
    \/ /\ e.deck[f] # <<>> /\ Last(e.deck[f]).age <= o.age
       /\ \A p \in e.before : p[2] = f \/ (p[1] # f /\ p \in d.before)

LEMMA ExtendedLast ==
  ASSUME NEW h \in Seq(Operation), h # <<>>, NEW o \in Operation
  PROVE  /\ Last(Extended(h, o)).op = o.op
         /\ o.op # "closed" => Last(Extended(h, o)).age <= o.age
<1>a. Len(h) \in Nat \ {0} /\ Last(h) = h[Len(h)] /\ Last(h) \in Operation
  BY DEF Last
<1>b. \A p \in Operation : p.age \in Nat
  BY Bounds DEF Operation
<1>1. /\ Len(h) \in Nat \ {0} /\ Last(h) = h[Len(h)] /\ Last(h) \in Operation
      /\ o.age \in Nat /\ Last(h).age \in Nat
  BY <1>a, <1>b
<1>2. Last(Append(h, o)) = o
  BY <1>1 DEF Last
<1>3. Last(Replace(h, o)) = o
  BY <1>1 DEF Last, Replace
<1>4. CASE Extended(h, o) \in {Append(h, o), Replace(h, o)}
  <2>1. Last(Extended(h, o)) = o
    BY <1>2, <1>3, <1>4, Zenon
  <2> QED BY <1>1, <2>1
<1>5. CASE Extended(h, o) \notin {Append(h, o), Replace(h, o)}
  <2>1. /\ Extended(h, o) = h /\ Last(h).op = o.op
        /\ o.op # "closed" => ~(o.age < Last(h).age)
    <3> DEFINE a == Append(h, o)
               r == Replace(h, o)
               l == Last(h)
    <3>1. Extended(h, o) = IF l.op # o.op \/ o.op = "opened" THEN a
                           ELSE IF (o.op # "closed" /\ o.age < l.age) \/ o.size # l.size THEN r
                           ELSE h
      BY DEF Extended
    <3>2. Extended(h, o) # a /\ Extended(h, o) # r
      BY <1>5
    <3> HIDE DEF a, r, l
    <3> QED BY <3>1, <3>2 DEF l
  <2> QED BY <1>1, <2>1
<1> QED BY <1>4, <1>5

LEMMA RecordedIs ==
  ASSUME NEW d, DeckOK(d), NEW f \in Files, NEW o \in Operation
  PROVE  Effect(d, f, o, Recorded(d, f, o)) /\ Order(d, f, o, Recorded(d, f, o))
<1>1. /\ d \in Decks /\ d.deck \in Histories /\ d.modDeck \in Histories
      /\ d.deck[f] \in Seq(Operation) /\ d.modDeck[f] \in Seq(Operation)
      /\ \A g \in Files : d.deck[g] = <<>> \/ d.modDeck[g] = <<>>
  BY DEF DeckOK, Decks, Histories, Agree
<1>2. CASE o.op = "deleted"
  <2>1. Recorded(d, f, o) = Pop(d, {f})
    BY <1>2 DEF Recorded
  <2> QED BY <1>2, <2>1, PopIs DEF Effect, Order
<1>3. CASE o.op # "deleted" /\ f \in Tracked(d)
  <2> DEFINE h == Extended(d.deck[f], o)
             e == [d EXCEPT !.deck[f] = h]
  <2>1. d.deck[f] # <<>> /\ d.modDeck[f] = <<>>
    BY <1>1, <1>3 DEF Tracked
  <2>2. h \in Seq(Operation) /\ h # <<>>
    BY <1>1, <2>1, ExtendedType
  <2>3. e = [deck |-> [d.deck EXCEPT ![f] = h], modDeck |-> d.modDeck, before |-> d.before]
    BY <1>1, SetDeck
  <2>4. e \in Decks
    <3> HIDE DEF h, e
    <3> QED BY <1>1, <2>2, <2>3 DEF Decks, Histories
  <2>5. /\ e.before = d.before /\ e.deck[f] = h /\ e.modDeck = d.modDeck
        /\ \A g \in Files \ {f} : e.deck[g] = d.deck[g]
    <3> HIDE DEF h, e
    <3> QED BY <1>1, <2>3 DEF Histories
  <2>6. Recorded(d, f, o) = IF AttributesOnly(d.deck[f], o) THEN d
                            ELSE IF o.op = "opened" THEN e ELSE Place(e, f)
    BY <1>3 DEF Recorded
  <2>7. Last(h).op = o.op /\ (o.op # "closed" => Last(h).age <= o.age)
    BY <1>1, <2>1, ExtendedLast
  <2>8. /\ Place(e, f).deck = e.deck /\ Place(e, f).modDeck = e.modDeck
        /\ Last(e.deck[f]).op # "closed" =>
             \A p \in Place(e, f).before : p[2] = f \/ (p[1] # f /\ p \in e.before)
    <3> HIDE DEF e
    <3> QED BY <2>4, PlaceIs
  <2>9. /\ Recorded(d, f, o).deck[f] = IF AttributesOnly(d.deck[f], o) THEN d.deck[f] ELSE h
        /\ Recorded(d, f, o).modDeck = d.modDeck
        /\ \A g \in Files \ {f} : Recorded(d, f, o).deck[g] = d.deck[g]
    <3> HIDE DEF h, e
    <3> QED BY <2>5, <2>6, <2>8
  <2>10. Effect(d, f, o, Recorded(d, f, o))
    BY <1>3, <2>1, <2>9 DEF Effect
  <2>11. Order(d, f, o, Recorded(d, f, o))
    <3> HIDE DEF h, e
    <3> QED BY <2>2, <2>5, <2>6, <2>7, <2>8, <2>9 DEF Order
  <2> QED BY <2>10, <2>11
<1>4. CASE o.op # "deleted" /\ f \notin Tracked(d) /\ d.modDeck[f] # <<>> /\ Promotes(d.modDeck[f], o)
  <2> DEFINE h == Append(d.modDeck[f], o)
             e == Promoted(d, f, o)
  <2>1. h \in Seq(Operation) /\ h # <<>> /\ Last(h) = o
    BY <1>1, AppendProperties DEF Last
  <2>2. e = [deck |-> [d.deck EXCEPT ![f] = h], modDeck |-> [d.modDeck EXCEPT ![f] = <<>>],
             before |-> d.before]
    <3> HIDE DEF h
    <3>1. e = [[d EXCEPT !.deck[f] = h] EXCEPT !.modDeck[f] = <<>>]
      BY DEF Promoted, h
    <3>2. [d EXCEPT !.deck[f] = h]
            = [deck |-> [d.deck EXCEPT ![f] = h], modDeck |-> d.modDeck, before |-> d.before]
      BY <1>1, SetDeck
    <3> QED BY <3>1, <3>2
  <2>3. e \in Decks
    <3> HIDE DEF h, e
    <3> QED BY <1>1, <2>1, <2>2 DEF Decks, Histories
  <2>4. /\ e.before = d.before /\ e.deck[f] = h /\ e.modDeck[f] = <<>>
        /\ \A g \in Files \ {f} : e.deck[g] = d.deck[g] /\ e.modDeck[g] = d.modDeck[g]
    <3> HIDE DEF h, e
    <3> QED BY <1>1, <2>2 DEF Histories
  <2>5. Recorded(d, f, o) = Place(e, f)
    BY <1>4 DEF Recorded
  <2>6. d.deck[f] = <<>> /\ o.age <= o.age
    BY <1>4, Bounds DEF Tracked, Operation
  <2>7. Effect(d, f, o, Place(e, f))
    <3> HIDE DEF e
    <3> QED BY <1>4, <2>3, <2>4, <2>6, PlaceIs DEF Effect
  <2>8. Order(d, f, o, Place(e, f))
    <3> HIDE DEF h, e
    <3> QED BY <2>1, <2>3, <2>4, <2>6, PlaceIs DEF Order
  <2> QED BY <2>5, <2>7, <2>8
<1>5. CASE /\ o.op # "deleted" /\ f \notin Tracked(d)
           /\ \/ d.modDeck[f] # <<>> /\ ~ Promotes(d.modDeck[f], o)
              \/ d.modDeck[f] = <<>> /\ o.op \in {"opened", "modified"}
  <2> DEFINE h == IF d.modDeck[f] = <<>> THEN <<o>> ELSE Staged(d.modDeck[f], o)
             e == [d EXCEPT !.modDeck[f] = h]
  <2>1. e = [deck |-> d.deck, modDeck |-> [d.modDeck EXCEPT ![f] = h], before |-> d.before]
    BY <1>1, SetModDeck
  <2>2. Recorded(d, f, o) = e
    BY <1>5 DEF Recorded
  <2>3. /\ e.before = d.before /\ e.deck = d.deck /\ e.modDeck[f] = h /\ d.deck[f] = <<>>
        /\ \A g \in Files \ {f} : e.modDeck[g] = d.modDeck[g]
    <3> HIDE DEF h, e
    <3> QED BY <1>1, <1>5, <2>1 DEF Histories, Tracked
  <2>4. Effect(d, f, o, e)
    <3> HIDE DEF e
    <3> QED BY <1>5, <2>3 DEF Effect
  <2>5. Order(d, f, o, e)
    <3> HIDE DEF e, h
    <3> QED BY <2>3 DEF Order
  <2> QED BY <2>2, <2>4, <2>5
<1>6. CASE /\ o.op \notin {"deleted", "opened", "modified"}
           /\ f \notin Tracked(d) /\ d.modDeck[f] = <<>>
  <2> DEFINE e == [d EXCEPT !.deck[f] = <<o>>]
  <2>1. e = [deck |-> [d.deck EXCEPT ![f] = <<o>>], modDeck |-> d.modDeck, before |-> d.before]
    BY <1>1, SetDeck
  <2>2. e \in Decks
    <3> HIDE DEF e
    <3> QED BY <1>1, <2>1 DEF Decks, Histories
  <2>3. /\ e.before = d.before /\ e.deck[f] = <<o>> /\ e.modDeck = d.modDeck
        /\ \A g \in Files \ {f} : e.deck[g] = d.deck[g]
    <3> HIDE DEF e
    <3> QED BY <1>1, <2>1 DEF Histories
  <2>4. Recorded(d, f, o) = Place(e, f)
    BY <1>6 DEF Recorded
  <2>5. d.deck[f] = <<>> /\ o.age <= o.age /\ <<o>> # <<>> /\ Last(<<o>>) = o
    BY <1>6, Bounds DEF Tracked, Operation, Last
  <2> HIDE DEF e
  <2>6. Effect(d, f, o, Place(e, f))
    BY <1>6, <2>2, <2>3, <2>5, PlaceIs DEF Effect
  <2>7. Order(d, f, o, Place(e, f))
    BY <2>2, <2>3, <2>5, PlaceIs DEF Order
  <2> QED BY <2>4, <2>6, <2>7
<1> QED BY <1>2, <1>3, <1>4, <1>5, <1>6

LEMMA RetractedNone == Retracted(<<>>) = <<>>
BY DEF Retracted, LatestOpen

LEMMA ReadEndedIs ==
  ASSUME NEW d, DeckOK(d), NEW f \in Files
  PROVE  /\ \A g \in Files \ {f} : /\ ReadEnded(d, f).deck[g] = d.deck[g]
                                   /\ ReadEnded(d, f).modDeck[g] = d.modDeck[g]
         /\ ReadEnded(d, f).deck[f] = Retracted(d.deck[f])
         /\ ReadEnded(d, f).modDeck[f] = Retracted(d.modDeck[f])
<1>1. /\ d \in Decks /\ d.deck \in Histories /\ d.modDeck \in Histories
      /\ d.deck[f] = <<>> \/ d.modDeck[f] = <<>>
  BY DEF DeckOK, Decks, Agree
<1>2. CASE f \notin Tracked(d)
  <2> DEFINE h == Retracted(d.modDeck[f])
  <2>1. ReadEnded(d, f) = [deck |-> d.deck, modDeck |-> [d.modDeck EXCEPT ![f] = h],
                           before |-> d.before]
    BY <1>1, <1>2, SetModDeck DEF ReadEnded
  <2>2. d.deck[f] = <<>>
    BY <1>2 DEF Tracked
  <2> HIDE DEF h
  <2>3. /\ ReadEnded(d, f).deck = d.deck /\ ReadEnded(d, f).modDeck[f] = h
        /\ \A g \in Files \ {f} : ReadEnded(d, f).modDeck[g] = d.modDeck[g]
    BY <1>1, <2>1 DEF Histories
  <2> QED BY <2>2, <2>3, RetractedNone DEF h
<1>3. CASE f \in Tracked(d) /\ Retracted(d.deck[f]) = <<>>
  <2>1. d.modDeck[f] = <<>> /\ ReadEnded(d, f) = Remaining(d, {f})
    BY <1>1, <1>3 DEF Tracked, ReadEnded
  <2> QED BY <1>3, <2>1, RemainingIs, RetractedNone
<1>4. CASE f \in Tracked(d) /\ Retracted(d.deck[f]) # <<>>
  <2> DEFINE h == Retracted(d.deck[f])
  <2>1. ReadEnded(d, f) = [deck |-> [d.deck EXCEPT ![f] = h], modDeck |-> d.modDeck,
                           before |-> d.before]
    BY <1>1, <1>4, SetDeck DEF ReadEnded
  <2>2. d.modDeck[f] = <<>>
    BY <1>1, <1>4 DEF Tracked
  <2> HIDE DEF h
  <2>3. /\ ReadEnded(d, f).modDeck = d.modDeck /\ ReadEnded(d, f).deck[f] = h
        /\ \A g \in Files \ {f} : ReadEnded(d, f).deck[g] = d.deck[g]
    BY <1>1, <2>1 DEF Histories
  <2> QED BY <2>2, <2>3, RetractedNone DEF h
<1> QED BY <1>2, <1>3, <1>4

-----------------------------------------------------------------------------
(* What is still to be recorded: the event in hand and those in the queue. *)

Pending(q, h) == IF h = NoEvent THEN q ELSE <<h.event>> \o q

InHand == {NoEvent} \cup [event : Event, as : Operation]

LEMMA InHandIs ==
  /\ \A h \in InHand : h # NoEvent => h.event \in Event /\ h.as \in Operation
  /\ \A h \in [event : Event, as : Operation] : h # NoEvent
<1>1. \A h \in [event : Event, as : Operation] : h # NoEvent
  BY DEF NoEvent
<1> QED BY <1>1 DEF InHand

LEMMA PendingIs ==
  ASSUME NEW q \in Seq(Event), NEW h \in InHand
  PROVE  /\ Pending(q, h) \in Seq(Event)
         /\ h = NoEvent => Pending(q, h) = q
         /\ h # NoEvent => /\ Len(Pending(q, h)) = Len(q) + 1
                           /\ Pending(q, h)[1] = h.event
                           /\ \A i \in 1 .. Len(q) : Pending(q, h)[i + 1] = q[i]
<1>1. CASE h = NoEvent
  BY <1>1 DEF Pending
<1>2. CASE h # NoEvent
  <2>1. h.event \in Event
    BY <1>2, InHandIs
  <2> DEFINE e == h.event
  <2>2. Pending(q, h) = <<e>> \o q
    BY <1>2 DEF Pending
  <2> HIDE DEF e
  <2>3. e \in Event
    BY <2>1 DEF e
  <2>4. <<e>> \o q \in Seq(Event) /\ Len(<<e>> \o q) = Len(q) + 1
    BY <2>3
  <2>5. (<<e>> \o q)[1] = e
    BY <2>3
  <2>6. \A i \in 1 .. Len(q) : (<<e>> \o q)[i + 1] = q[i]
    BY <2>3
  <2> QED BY <1>2, <2>2, <2>4, <2>5, <2>6 DEF e
<1> QED BY <1>1, <1>2

\* The list r is p, or p with e at its end.
Grown(p, r, e) ==
  \/ r = p
  \/ /\ Len(r) = Len(p) + 1 /\ r[Len(r)] = e
     /\ \A i \in 1 .. Len(p) : r[i] = p[i]

LEMMA EnqueueGrows ==
  ASSUME NEW q \in Seq(Event), NEW h \in InHand, NEW e \in Event
  PROVE  LET p == Pending(q, h)
             r == Pending(Enqueue(q, e), h)
         IN  /\ r \in Seq(Event) /\ Grown(p, r, e)
             /\ e.op \in Announced => Len(r) > 0 /\ r[Len(r)] = e
             /\ e.op \in Announced /\ ~Coalesce => Len(r) = Len(p) + 1
             /\ e.op \notin Announced => r = p
<1> DEFINE p == Pending(q, h)
           r == Pending(Enqueue(q, e), h)
<1>1. Enqueue(q, e) \in Seq(Event)
  BY EnqueueType
<1>2. p \in Seq(Event) /\ r \in Seq(Event)
  BY <1>1, PendingIs
<1>3. CASE Enqueue(q, e) = q
  <2>1. r = p
    BY <1>3
  <2>2. e.op \in Announced => Coalesce /\ q # <<>> /\ Last(q) = e
    <3>1. ASSUME e.op \in Announced, ~(Coalesce /\ q # <<>> /\ Last(q) = e) PROVE FALSE
      <4>1. Enqueue(q, e) = Append(q, e)
        BY <3>1 DEF Enqueue
      <4> QED BY <1>3, <4>1
    <3> QED BY <3>1
  <2>3. q # <<>> /\ Last(q) = e => Len(p) > 0 /\ p[Len(p)] = e
    <3> SUFFICES ASSUME q # <<>>, Last(q) = e PROVE Len(p) > 0 /\ p[Len(p)] = e
      OBVIOUS
    <3>1. Len(q) \in Nat \ {0} /\ q[Len(q)] = e
      BY DEF Last
    <3>2. CASE h = NoEvent
      <4>1. p = q
        BY <3>2, PendingIs
      <4> QED BY <3>1, <4>1
    <3>3. CASE h # NoEvent
      <4>1. Len(p) = Len(q) + 1 /\ \A i \in 1 .. Len(q) : p[i + 1] = q[i]
        BY <3>3, PendingIs
      <4> HIDE DEF p
      <4> QED BY <3>1, <4>1
    <3> QED BY <3>2, <3>3
  <2> HIDE DEF p, r
  <2> QED BY <1>2, <2>1, <2>2, <2>3 DEF Grown, p, r
<1>4. CASE Enqueue(q, e) # q
  <2> DEFINE s == Enqueue(q, e)
  <2>1. s = Append(q, e) /\ e.op \in Announced
    BY <1>4 DEF Enqueue
  <2>2. s \in Seq(Event) /\ Len(s) = Len(q) + 1 /\ s[Len(s)] = e /\ \A i \in 1 .. Len(q) : s[i] = q[i]
    BY <2>1, AppendProperties
  <2> HIDE DEF s
  <2>3. CASE h = NoEvent
    <3>1. p = q /\ r = s
      BY <2>2, <2>3, PendingIs DEF s
    <3> QED BY <2>1, <2>2, <3>1 DEF Grown
  <2>4. CASE h # NoEvent
    <3>1. /\ Len(p) = Len(q) + 1 /\ p[1] = h.event
          /\ \A i \in 1 .. Len(q) : p[i + 1] = q[i]
      BY <2>4, PendingIs
    <3>2. /\ Len(r) = Len(s) + 1 /\ r[1] = h.event
          /\ \A i \in 1 .. Len(s) : r[i + 1] = s[i]
      BY <2>2, <2>4, PendingIs DEF s
    <3> HIDE DEF p, r
    <3>3. Len(q) \in Nat
      OBVIOUS
    <3>4. Len(r) = Len(p) + 1 /\ r[Len(r)] = e
      BY <2>2, <3>1, <3>2, <3>3
    <3>5. ASSUME NEW i \in 1 .. Len(p) PROVE r[i] = p[i]
      <4>1. CASE i = 1
        BY <3>1, <3>2, <4>1
      <4>2. CASE i # 1
        <5>1. i - 1 \in 1 .. Len(q) /\ i - 1 \in 1 .. Len(s) /\ (i - 1) + 1 = i
          BY <2>2, <3>1, <3>3, <4>2
        <5>2. r[(i - 1) + 1] = s[i - 1] /\ p[(i - 1) + 1] = q[i - 1] /\ s[i - 1] = q[i - 1]
          BY <2>2, <3>1, <3>2, <5>1
        <5> QED BY <5>1, <5>2
      <4> QED BY <4>1, <4>2
    <3> QED BY <1>2, <2>1, <3>1, <3>3, <3>4, <3>5 DEF Grown, p, r
  <2> QED BY <2>3, <2>4
<1> QED BY <1>3, <1>4

-----------------------------------------------------------------------------
(* What the decks hold, and the events that make them forget it.           *)

pending == Pending(queue, handling)

\* An event is stamped for what it is.
Stamped == handling # NoEvent => handling.as.op = handling.event.op

\* The events that make the handler know a file, and those that make it
\* forget one.
Adds(e, f) == e.file = f /\ e.op \notin {"deleted", "closed_no_write"}
Removes(e, f) ==
  \/ e.op = "deleted" /\ e.file = f
  \/ e.op = "moved" /\ e.from = f /\ e.file # f

Held(d) == {f \in Files : d.deck[f] # <<>> \/ d.modDeck[f] # <<>>}

\* The first n events of p leave no trace of f in the decks d.
Leaves(p, d, n, f) ==
  /\ \A k \in 1 .. n : Adds(p[k], f) => \E j \in k + 1 .. n : Removes(p[j], f)
  /\ f \in Held(d) => \E j \in 1 .. n : Removes(p[j], f)

\* A file that is gone will be forgotten.
GoneFilesLeave == \A f \in Files \ exists : Leaves(pending, decks, Len(pending), f)

LEMMA LeavesPrefix ==
  ASSUME NEW p, NEW r, NEW d, NEW n, NEW f, Leaves(p, d, n, f), \A i \in 1 .. n : r[i] = p[i],
         n \in Nat
  PROVE  Leaves(r, d, n, f)
BY DEF Leaves

LEMMA LeavesGrown ==
  ASSUME NEW p \in Seq(Event), NEW r \in Seq(Event), NEW d, NEW f, NEW e,
         Grown(p, r, e), ~Adds(e, f), Leaves(p, d, Len(p), f)
  PROVE  Leaves(r, d, Len(r), f)
<1>1. CASE r = p
  BY <1>1
<1>2. CASE /\ Len(r) = Len(p) + 1 /\ r[Len(r)] = e
           /\ \A i \in 1 .. Len(p) : r[i] = p[i]
  <2> DEFINE n == Len(p)
  <2>1. n \in Nat /\ Len(r) = n + 1
    BY <1>2
  <2>2. Leaves(r, d, n, f)
    BY <1>2, <2>1, LeavesPrefix
  <2> HIDE DEF n
  <2>3. ASSUME NEW k \in 1 .. n + 1, Adds(r[k], f) PROVE \E j \in k + 1 .. n + 1 : Removes(r[j], f)
    <3>1. k \in 1 .. n
      BY <1>2, <2>1, <2>3
    <3>2. PICK j \in k + 1 .. n : Removes(r[j], f)
      BY <2>2, <2>3, <3>1 DEF Leaves
    <3> QED BY <2>1, <3>2
  <2>4. ASSUME f \in Held(d) PROVE \E j \in 1 .. n + 1 : Removes(r[j], f)
    <3>1. PICK j \in 1 .. n : Removes(r[j], f)
      BY <2>2, <2>4 DEF Leaves
    <3> QED BY <2>1, <3>1
  <2> QED BY <2>1, <2>3, <2>4 DEF Leaves
<1> QED BY <1>1, <1>2 DEF Grown

LEMMA LeavesRemoved ==
  ASSUME NEW r \in Seq(Event), NEW d, NEW f, Len(r) > 0, Removes(r[Len(r)], f)
  PROVE  Leaves(r, d, Len(r), f)
<1>1. ~Adds(r[Len(r)], f) /\ Len(r) \in Nat
  BY DEF Adds, Removes
<1> QED BY <1>1 DEF Leaves

\* What Record does: the first pending event goes into the decks.
LEMMA RecordIs ==
  ASSUME IInv, Stamped, Record
  PROVE  LET e == handling.event
             o == handling.as
             d == Pop(decks, Source(e))
         IN  /\ e \in Event /\ e.file \in Files /\ o \in Operation /\ o.op = e.op
             /\ DeckOK(decks) /\ DeckOK(d)
             /\ handling # NoEvent /\ handling' = NoEvent /\ queue' = queue
             /\ pending \in Seq(Event) /\ pending' = queue
             /\ Len(pending) = Len(pending') + 1 /\ pending[1] = e
             /\ \A i \in 1 .. Len(pending') : pending[i + 1] = pending'[i]
             /\ e.op = "closed_no_write" => decks' = ReadEnded(decks, e.file)
             /\ e.op # "closed_no_write" => decks' = Recorded(d, e.file, o)
<1>1. DeckOK(decks) /\ queue \in Seq(Event) /\ handling \in InHand
  BY Parting DEF InHand
<1>2. handling # NoEvent /\ handling' = NoEvent /\ queue' = queue
  BY DEF Record
<1>3. handling.event \in Event /\ handling.as \in Operation /\ handling.as.op = handling.event.op
  BY <1>1, <1>2, InHandIs DEF Stamped
<1>4. handling.event.file \in Files /\ DeckOK(Pop(decks, Source(handling.event)))
  BY <1>1, <1>3, PopOK DEF Event
<1>5. pending' = queue
  BY <1>2 DEF pending, Pending
<1>6. /\ pending \in Seq(Event) /\ Len(pending) = Len(queue) + 1 /\ pending[1] = handling.event
      /\ \A i \in 1 .. Len(queue) : pending[i + 1] = queue[i]
  BY <1>1, <1>2, PendingIs DEF pending
<1>7. /\ handling.event.op = "closed_no_write" => decks' = ReadEnded(decks, handling.event.file)
      /\ handling.event.op # "closed_no_write" =>
           decks' = Recorded(Pop(decks, Source(handling.event)), handling.event.file, handling.as)
  BY DEF Record
<1> QED BY <1>1, <1>2, <1>3, <1>4, <1>5, <1>6, <1>7

\* What becomes of the histories of the other files.
LEMMA RecordOthers ==
  ASSUME IInv, Stamped, Record, NEW g \in Files, g # handling.event.file
  PROVE  LET gone == handling.event.op = "moved" /\ handling.event.from = g
         IN  /\ decks'.deck[g] = IF gone THEN <<>> ELSE decks.deck[g]
             /\ decks'.modDeck[g] = IF gone THEN <<>> ELSE decks.modDeck[g]
<1> DEFINE e == handling.event
           d == Pop(decks, Source(e))
<1>1. /\ e \in Event /\ e.file \in Files /\ handling.as \in Operation /\ DeckOK(decks) /\ DeckOK(d)
      /\ e.op = "closed_no_write" => decks' = ReadEnded(decks, e.file)
      /\ e.op # "closed_no_write" => decks' = Recorded(d, e.file, handling.as)
  BY RecordIs
<1>2. CASE e.op = "closed_no_write"
  BY <1>1, <1>2, ReadEndedIs
<1>3. CASE e.op # "closed_no_write"
  <2>1. decks'.deck[g] = d.deck[g] /\ decks'.modDeck[g] = d.modDeck[g]
    <3> HIDE DEF d, e
    <3>1. Effect(d, e.file, handling.as, decks')
      BY <1>1, <1>3, RecordedIs
    <3> QED BY <3>1 DEF Effect, e
  <2>2. /\ d.deck[g] = IF g \in Source(e) THEN <<>> ELSE decks.deck[g]
        /\ d.modDeck[g] = IF g \in Source(e) THEN <<>> ELSE decks.modDeck[g]
    BY <1>1, PopIs
  <2>3. g \in Source(e) <=> e.op = "moved" /\ e.from = g
    BY DEF Source
  <2> QED BY <2>1, <2>2, <2>3
<1> QED BY <1>2, <1>3

LEMMA RecordHolds ==
  ASSUME IInv, Stamped, Record, NEW f \in Files
  PROVE  f \in Held(decks') => \/ Adds(handling.event, f)
                               \/ f \in Held(decks) /\ ~Removes(handling.event, f)
<1> DEFINE e == handling.event
           d == Pop(decks, Source(e))
<1>1. /\ e \in Event /\ e.file \in Files /\ handling.as \in Operation /\ handling.as.op = e.op
      /\ DeckOK(decks) /\ DeckOK(d)
      /\ e.op = "closed_no_write" => decks' = ReadEnded(decks, e.file)
      /\ e.op # "closed_no_write" => decks' = Recorded(d, e.file, handling.as)
  BY RecordIs
<1>2. CASE f # e.file
  BY <1>2, RecordOthers DEF Held, Removes
<1>3. CASE f = e.file /\ e.op = "deleted"
  <2>1. Effect(d, f, handling.as, decks')
    BY <1>1, <1>3, RecordedIs
  <2>2. decks'.deck[f] = <<>> /\ decks'.modDeck[f] = <<>>
    BY <1>1, <1>3, <2>1 DEF Effect
  <2> QED BY <2>2 DEF Held
<1>4. CASE f = e.file /\ e.op = "closed_no_write"
  <2>1. /\ decks'.deck[f] = Retracted(decks.deck[f])
        /\ decks'.modDeck[f] = Retracted(decks.modDeck[f])
    BY <1>1, <1>4, ReadEndedIs
  <2> QED BY <1>4, <2>1, RetractedNone DEF Held, Removes
<1>5. CASE f = e.file /\ e.op \notin {"deleted", "closed_no_write"}
  BY <1>5 DEF Adds
<1> QED BY <1>2, <1>3, <1>4, <1>5

\* Recording the first of n events leaves n - 1 of them.
LEMMA LeavesRecord ==
  ASSUME IInv, Stamped, Record, NEW f \in Files, NEW n \in 1 .. Len(pending),
         Leaves(pending, decks, n, f)
  PROVE  Leaves(pending', decks', n - 1, f)
<1>1. /\ Len(pending) \in Nat /\ Len(pending) = Len(pending') + 1 /\ pending[1] = handling.event
      /\ \A i \in 1 .. Len(pending') : pending[i + 1] = pending'[i]
  BY RecordIs
<1> DEFINE p == pending
           r == pending'
<1>2. \A j \in 2 .. n : j - 1 \in 1 .. n - 1 /\ r[j - 1] = p[j]
  <2> HIDE DEF p, r
  <2> QED BY <1>1 DEF p, r
<1>3. \A k \in 1 .. n - 1 : k + 1 \in 2 .. n /\ r[k] = p[k + 1]
  <2> HIDE DEF p, r
  <2> QED BY <1>1 DEF p, r
<1>4. n \in Nat /\ p[1] = handling.event
  BY <1>1
<1> HIDE DEF p, r
<1>5. ASSUME NEW k \in 1 .. n - 1, Adds(r[k], f) PROVE \E j \in k + 1 .. n - 1 : Removes(r[j], f)
  <2>1. PICK j \in (k + 1) + 1 .. n : Removes(p[j], f)
    BY <1>3, <1>4, <1>5 DEF Leaves, p
  <2> QED BY <1>2, <1>4, <2>1
<1>6. ASSUME f \in Held(decks') PROVE \E j \in 1 .. n - 1 : Removes(r[j], f)
  <2>1. CASE Adds(p[1], f)
    <3>1. PICK j \in 1 + 1 .. n : Removes(p[j], f)
      BY <1>4, <2>1 DEF Leaves, p
    <3> QED BY <1>2, <1>4, <3>1
  <2>2. CASE f \in Held(decks) /\ ~Removes(p[1], f)
    <3>1. PICK j \in 1 .. n : Removes(p[j], f)
      BY <2>2 DEF Leaves, p
    <3>2. j \in 2 .. n
      BY <1>4, <2>2, <3>1
    <3> QED BY <1>2, <3>1, <3>2
  <2> QED BY <1>4, <1>6, <2>1, <2>2, RecordHolds
<1> QED BY <1>5, <1>6 DEF Leaves, r

-----------------------------------------------------------------------------
(* What the steps make of the events on their way.                         *)

LEMMA HandlingOK == TypeOK => queue \in Seq(Event) /\ handling \in InHand /\ pending \in Seq(Event)
BY PendingIs DEF TypeOK, InHand, pending

LEMMA Said ==
  ASSUME TypeOK, NEW e \in Event, queue' = Enqueue(queue, e), handling' = handling
  PROVE  /\ pending \in Seq(Event) /\ pending' \in Seq(Event) /\ Grown(pending, pending', e)
         /\ e.op \in Announced => Len(pending') > 0 /\ pending'[Len(pending')] = e
         /\ e.op \in Announced /\ ~Coalesce => Len(pending') = Len(pending) + 1
         /\ e.op \notin Announced => pending' = pending
<1>1. pending' = Pending(Enqueue(queue, e), handling)
  BY DEF pending
<1> QED BY <1>1, HandlingOK, EnqueueGrows DEF pending

LEMMA AlwaysAnnounced == {"created", "modified", "moved", "deleted"} \subseteq Announced
BY DEF Announced, Kinds

LEMMA StampKeepsPending ==
  ASSUME TypeOK, Stamp
  PROVE  pending' = pending /\ handling' # NoEvent /\ handling'.event = pending[1]
         /\ handling'.as = [op |-> pending[1].op, size |-> SizeOf(pending[1].file), age |-> 0]
         /\ queue # <<>> /\ pending = queue /\ pending \in Seq(Event)
<1> DEFINE e == Head(queue)
           a == [op |-> e.op, size |-> SizeOf(e.file), age |-> 0]
<1>1. queue \in Seq(Event) /\ queue # <<>> /\ handling = NoEvent /\ queue' = Tail(queue)
      /\ handling' = [event |-> e, as |-> a]
  BY DEF TypeOK, Stamp
<1>2. pending = queue /\ e = queue[1]
  BY <1>1 DEF pending, Pending
<1>3. handling' # NoEvent /\ handling'.event = e /\ handling'.as = a
  <2> HIDE DEF e, a
  <2> QED BY <1>1 DEF NoEvent
<1>4. pending' = <<e>> \o Tail(queue)
  <2> HIDE DEF a
  <2> QED BY <1>1, <1>3 DEF pending, Pending
<1>5. <<e>> \o Tail(queue) = queue
  <2>1. \A q \in Seq(Event) : q # <<>> => <<Head(q)>> \o Tail(q) = q
    OBVIOUS
  <2> QED BY <1>1, <2>1
<1> QED BY <1>1, <1>2, <1>3, <1>4, <1>5

\* The steps that leave the pending events alone, time passing included.
LEMMA TickIs ==
  ASSUME TypeOK, Tick
  PROVE  /\ pending' = pending /\ (handling' = NoEvent <=> handling = NoEvent)
         /\ handling # NoEvent => handling'.event = handling.event /\ handling'.as = Older(handling.as)
         /\ DeckOK(decks) => decks' = [deck |-> OlderAll(decks.deck), modDeck |-> OlderAll(decks.modDeck),
                                       before |-> decks.before]
<1>1. queue' = queue /\ handling \in InHand
  BY HandlingOK DEF Tick
<1>2. handling = NoEvent => handling' = NoEvent
  BY DEF Tick
<1>3. ASSUME handling # NoEvent
      PROVE  handling' # NoEvent /\ handling'.event = handling.event /\ handling'.as = Older(handling.as)
  <2>1. handling \in [event : Event, as : Operation]
    BY <1>1, <1>3 DEF InHand
  <2> DEFINE o == Older(handling.as)
  <2>2. handling' = [handling EXCEPT !.as = o]
    BY <1>3 DEF Tick
  <2> HIDE DEF o
  <2>3. handling' = [event |-> handling.event, as |-> o]
    BY <2>1, <2>2
  <2> QED BY <2>3 DEF NoEvent, o
<1>4. pending' = pending
  BY <1>1, <1>2, <1>3 DEF pending, Pending
<1>5. ASSUME DeckOK(decks)
      PROVE  decks' = [deck |-> OlderAll(decks.deck), modDeck |-> OlderAll(decks.modDeck),
                       before |-> decks.before]
  <2> DEFINE D == OlderAll(decks.deck)
             M == OlderAll(decks.modDeck)
  <2>1. decks' = [[decks EXCEPT !.deck = D] EXCEPT !.modDeck = M]
    BY DEF Tick
  <2> HIDE DEF D, M
  <2>2. decks' = [deck |-> D, modDeck |-> M, before |-> decks.before]
    BY <1>5, <2>1 DEF DeckOK, Decks
  <2> QED BY <2>2 DEF D, M
<1> QED BY <1>2, <1>3, <1>4, <1>5

\* A sweep, and the failure of a processor, take files out of the decks.
\* Otherwise the process starts over.
LEMMA SweepIs ==
  ASSUME IInv, Sweep \/ \E f \in Files : ProcessorFails(f)
  PROVE  \/ StartOver /\ stops' = stops + 1 /\ stops < MaxStops
         \/ \E S \in SUBSET Due(decks) :
              /\ decks' = Remaining(decks, S) /\ fresh' = fresh \ S
              /\ stops' \in {stops, stops + 1}
              /\ UNCHANGED <<queue, handling, pending>>
<1>1. CASE Sweep
  BY <1>1 DEF Sweep, pending
<1>2. ASSUME NEW f \in Files, ProcessorFails(f)
      PROVE  \/ StartOver /\ stops' = stops + 1 /\ stops < MaxStops
             \/ \E S \in SUBSET Due(decks) :
                  /\ decks' = Remaining(decks, S) /\ fresh' = fresh \ S
                  /\ stops' \in {stops, stops + 1}
                  /\ UNCHANGED <<queue, handling, pending>>
  <2> DEFINE handed == {g \in Due(decks) : g = f \/ <<g, f>> \in decks.before}
  <2>1. handed \in SUBSET Due(decks)
    OBVIOUS
  <2>2. \/ StartOver
        \/ /\ decks' = Remaining(decks, handed) /\ fresh' = fresh \ handed
           /\ UNCHANGED <<queue, handling>>
    BY <1>2 DEF ProcessorFails
  <2>3. stops' = stops + 1 /\ stops < MaxStops
    BY <1>2 DEF ProcessorFails
  <2> HIDE DEF handed
  <2> QED BY <2>1, <2>2, <2>3 DEF pending
<1> QED BY <1>1, <1>2

LEMMA StampedNext == IInv /\ Stamped /\ [Next]_vars => Stamped'
<1> SUFFICES ASSUME IInv, Stamped, [Next]_vars PROVE Stamped'
  OBVIOUS
<1>1. TypeOK
  BY DEF IInv
<1>2. CASE UserStep
  BY <1>1, <1>2, UserQueue DEF Stamped
<1>3. CASE Stamp
  BY <1>1, <1>3, StampKeepsPending DEF Stamped
<1>4. CASE Record
  BY <1>4 DEF Record, Stamped
<1>5. CASE Sweep \/ \E f \in Files : ProcessorFails(f)
  BY <1>5, SweepIs DEF StartOver, Stamped
<1>6. CASE Restart
  BY <1>6 DEF Restart, StartOver, Stamped
<1>7. CASE Tick
  <2>1. handling # NoEvent => Older(handling.as).op = handling.as.op
    BY <1>1, HandlingOK, InHandIs DEF Older, Operation
  <2> QED BY <1>1, <1>7, <2>1, TickIs DEF Stamped
<1>8. CASE UNCHANGED vars
  BY <1>8 DEF vars, Stamped
<1> QED BY <1>2, <1>3, <1>4, <1>5, <1>6, <1>7, <1>8 DEF Next, Watcher, UserStep

-----------------------------------------------------------------------------
(* A file that is gone will be forgotten.                                  *)

\* The pending events of a process that has started over are touches of
\* files that are there.
LEMMA TouchedFiles ==
  ASSUME NEW s \in Seq(Files)
  PROVE  /\ Touched(s) \in Seq(Event)
         /\ polling => Len(Touched(s)) = Len(s)
         /\ ~polling => Len(Touched(s)) = 3 * Len(s)
         /\ polling => \A i \in 1 .. Len(s) : Touched(s)[i] = Ev("modified", s[i])
         /\ ~polling => \A i \in 1 .. 3 * Len(s) :
              /\ ((i - 1) \div 3) + 1 \in 1 .. Len(s) /\ ((i - 1) % 3) + 1 \in 1 .. 3
              /\ Touched(s)[i] = Ev(Touches[((i - 1) % 3) + 1], s[((i - 1) \div 3) + 1])
<1>1. Touched(s) \in Seq(Event)
  BY TouchedType
<1>2. CASE polling
  BY <1>1, <1>2 DEF Touched
<1>3. CASE ~polling
  <2> DEFINE T(i) == Ev(Touches[((i - 1) % 3) + 1], s[((i - 1) \div 3) + 1])
  <2>1. Touched(s) = [i \in 1 .. 3 * Len(s) |-> T(i)]
    BY <1>3 DEF Touched
  <2>2. \A i \in 1 .. 3 * Len(s) : ((i - 1) \div 3) + 1 \in 1 .. Len(s) /\ ((i - 1) % 3) + 1 \in 1 .. 3
    OBVIOUS
  <2> HIDE DEF T
  <2>3. /\ Len(Touched(s)) = 3 * Len(s)
        /\ \A i \in 1 .. 3 * Len(s) : Touched(s)[i] = T(i)
    BY <2>1
  <2> QED BY <1>1, <1>3, <2>2, <2>3 DEF T
<1> QED BY <1>2, <1>3

LEMMA StartOverIs ==
  ASSUME TypeOK, StartOver
  PROVE  /\ decks' = Empty /\ handling' = NoEvent /\ pending' = queue' /\ pending' \in Seq(Event)
         /\ ~TouchExisting => queue' = <<>>
         /\ TouchExisting => \E s \in Seq(exists) :
              /\ queue' = Touched(s)
              /\ \A f \in exists : \E k \in 1 .. Len(s) : s[k] = f
              /\ \A i, j \in 1 .. Len(s) : i # j => s[i] # s[j]
<1>1. decks' = Empty /\ handling' = NoEvent /\ queue' \in Seq(Event)
  BY StartOverOK
<1>2. pending' = queue'
  BY <1>1 DEF pending, Pending
<1>3. ASSUME TouchExisting
      PROVE  \E s \in Seq(exists) : /\ queue' = Touched(s)
                                   /\ \A f \in exists : \E k \in 1 .. Len(s) : s[k] = f
                                   /\ \A i, j \in 1 .. Len(s) : i # j => s[i] # s[j]
  <2>1. PICK s \in SetToSeqs(exists) : queue' = Touched(s)
    BY <1>3 DEF StartOver
  <2>2. IsFiniteSet(exists)
    BY FS_Subset, WatchDeckAssumption DEF TypeOK
  <2> DEFINE n == Cardinality(exists)
  <2>3. n \in Nat
    BY <2>2, FS_CardinalityType
  <2>4. s \in [1 .. n -> exists] /\ \A i, j \in 1 .. n : i # j => s[i] # s[j]
    BY <2>1 DEF SetToSeqs
  <2>5. s \in Injection(1 .. n, exists)
    BY <2>4 DEF Injection, IsInjective
  <2>6. Cardinality(1 .. n) = n
    BY <2>3, FS_Interval
  <2>7. s \in Surjection(1 .. n, exists)
    BY <2>2, <2>5, <2>6, FS_Injection
  <2>8. s \in Seq(exists) /\ Len(s) = n
    BY <2>3, <2>4
  <2>9. \A f \in exists : \E k \in 1 .. n : s[k] = f
    BY <2>7 DEF Surjection
  <2> HIDE DEF n
  <2> QED BY <2>1, <2>4, <2>8, <2>9
<1>4. ~TouchExisting => queue' = <<>>
  BY DEF StartOver
<1> QED BY <1>1, <1>2, <1>3, <1>4

LEMMA GoneSaid ==
  ASSUME TypeOK, GoneFilesLeave, NEW e \in Event, queue' = Enqueue(queue, e),
         UNCHANGED <<handling, decks>>,
         \A g \in Files \ exists' : /\ ~Adds(e, g)
                                    /\ g \in exists => Removes(e, g) /\ e.op \in Announced
  PROVE  GoneFilesLeave'
<1> SUFFICES ASSUME NEW g \in Files \ exists'
             PROVE  Leaves(pending', decks', Len(pending'), g)
  BY DEF GoneFilesLeave
<1>1. /\ pending \in Seq(Event) /\ pending' \in Seq(Event) /\ Grown(pending, pending', e)
      /\ e.op \in Announced => Len(pending') > 0 /\ pending'[Len(pending')] = e
  BY Said
<1>2. CASE g \in exists
  BY <1>1, <1>2, LeavesRemoved
<1>3. CASE g \notin exists
  <2>1. Leaves(pending, decks, Len(pending), g)
    BY <1>3 DEF GoneFilesLeave
  <2> QED BY <1>1, <2>1, LeavesGrown
<1> QED BY <1>2, <1>3

LEMMA UserGone ==
  ASSUME TypeOK, GoneFilesLeave, UserStep
  PROVE  GoneFilesLeave'
<1> PICK f \in Files : Users(f) \/ Closes(f)
  BY DEF UserStep
<1> USE DEF Adds, Removes
<1>1. /\ \A op \in Kinds : Ev(op, f) \in Event /\ Ev(op, f).op = op /\ Ev(op, f).file = f
      /\ UNCHANGED <<handling, decks>>
  BY EvType, UserQueue DEF Ev, UserStep
<1>2. CASE Create(f)
  <2> DEFINE q == Enqueue(queue, Ev("created", f))
             p == Pending(q, handling)
  <2>1. queue \in Seq(Event) /\ handling \in InHand /\ q \in Seq(Event)
    BY <1>1, HandlingOK, EnqueueType DEF Kinds
  <2>2. p \in Seq(Event) /\ Grown(pending, p, Ev("created", f)) /\ pending \in Seq(Event)
    BY <1>1, <2>1, EnqueueGrows, PendingIs DEF Kinds, pending
  <2>3. pending' = Pending(Enqueue(q, Ev("opened", f)), handling)
    BY <1>1, <1>2 DEF Create, pending
  <2> HIDE DEF q
  <2>4. pending' \in Seq(Event) /\ Grown(p, pending', Ev("opened", f))
    BY <1>1, <2>1, <2>3, EnqueueGrows DEF Kinds
  <2> HIDE DEF p
  <2>5. ASSUME NEW g \in Files \ exists' PROVE Leaves(pending', decks', Len(pending'), g)
    <3>1. g \in Files \ exists /\ g # f
      BY <1>2 DEF Create
    <3>2. Leaves(pending, decks, Len(pending), g)
      BY <3>1 DEF GoneFilesLeave
    <3>3. ~Adds(Ev("created", f), g) /\ ~Adds(Ev("opened", f), g)
      BY <1>1, <3>1 DEF Kinds
    <3>4. Leaves(p, decks, Len(p), g)
      BY <2>2, <3>2, <3>3, LeavesGrown
    <3>5. Leaves(pending', decks, Len(pending'), g)
      BY <2>2, <2>4, <3>3, <3>4, LeavesGrown
    <3> QED BY <1>1, <3>5
  <2> QED BY <2>5 DEF GoneFilesLeave
<1>3. CASE OpenWrite(f)
  BY <1>1, <1>3, GoneSaid DEF OpenWrite, Kinds
<1>4. CASE Write(f)
  <2>1. f \in exists
    BY <1>4 DEF Write, TypeOK
  <2> QED BY <1>1, <1>4, <2>1, GoneSaid DEF Write, Kinds
<1>5. CASE OpenRead(f)
  BY <1>1, <1>5, GoneSaid DEF OpenRead, Kinds
<1>6. CASE MoveIn(f)
  BY <1>1, <1>6, GoneSaid DEF MoveIn, Kinds
<1>7. CASE Touch(f)
  BY <1>1, <1>7, GoneSaid DEF Touch, userVars, Kinds
<1>8. CASE Delete(f)
  BY <1>1, <1>8, GoneSaid, AlwaysAnnounced DEF Delete, Kinds
<1>9. ASSUME NEW g \in Files, Rename(f, g) PROVE GoneFilesLeave'
  <2> DEFINE e == [op |-> "moved", file |-> g, from |-> f]
  <2>1. e \in Event /\ e.op = "moved" /\ e.file = g /\ e.from = f
    BY DEF Event, Kinds
  <2>2. queue' = Enqueue(queue, e) /\ f # g /\ exists' = (exists \ {f}) \cup {g}
    BY <1>9 DEF Rename
  <2> HIDE DEF e
  <2> QED BY <1>1, <2>1, <2>2, GoneSaid, AlwaysAnnounced
<1>10. CASE CloseWrite(f)
  <2>1. f \in exists
    BY <1>10 DEF CloseWrite, TypeOK
  <2> QED BY <1>1, <1>10, <2>1, GoneSaid DEF CloseWrite, Kinds
<1>11. CASE CloseRead(f)
  BY <1>1, <1>11, GoneSaid DEF CloseRead, Kinds
<1> QED BY <1>2, <1>3, <1>4, <1>5, <1>6, <1>7, <1>8, <1>9, <1>10, <1>11 DEF Users, Closes

LEMMA StartOverGone ==
  ASSUME TypeOK, StartOver, exists' = exists
  PROVE  GoneFilesLeave'
<1>1. /\ decks' = Empty /\ pending' = queue' /\ pending' \in Seq(Event)
      /\ ~TouchExisting => queue' = <<>>
  BY StartOverIs
<1>2. Held(decks') = {}
  BY <1>1 DEF Held, Empty
<1> SUFFICES ASSUME NEW f \in Files \ exists PROVE \A k \in 1 .. Len(pending') : ~Adds(pending'[k], f)
  BY <1>2 DEF GoneFilesLeave, Leaves
<1>3. CASE TouchExisting
  <2>1. PICK s \in Seq(exists) : queue' = Touched(s)
    BY <1>3, StartOverIs
  <2>2. s \in Seq(Files) /\ \A i \in 1 .. Len(s) : s[i] # f
    BY DEF TypeOK
  <2>3. ASSUME NEW k \in 1 .. Len(pending') PROVE pending'[k].file # f
    <3> DEFINE t == Touched(s)
    <3>1. \A op : \A i \in 1 .. Len(s) : Ev(op, s[i]).file # f
      BY <2>2 DEF Ev
    <3>2. k \in 1 .. Len(t) /\ pending'[k] = t[k]
      BY <1>1, <2>1
    <3>3. /\ polling => Len(t) = Len(s) /\ \A i \in 1 .. Len(s) : t[i] = Ev("modified", s[i])
          /\ ~polling => /\ Len(t) = 3 * Len(s)
                         /\ \A i \in 1 .. 3 * Len(s) :
                              /\ ((i - 1) \div 3) + 1 \in 1 .. Len(s)
                              /\ t[i] = Ev(Touches[((i - 1) % 3) + 1], s[((i - 1) \div 3) + 1])
      BY <2>2, TouchedFiles
    <3> HIDE DEF t
    <3>4. CASE polling
      BY <3>1, <3>2, <3>3, <3>4
    <3>5. CASE ~polling
      <4> DEFINE m == ((k - 1) \div 3) + 1
                 n == ((k - 1) % 3) + 1
      <4>1. m \in 1 .. Len(s) /\ t[k] = Ev(Touches[n], s[m])
        BY <3>2, <3>3, <3>5
      <4> HIDE DEF m, n
      <4> QED BY <3>1, <3>2, <4>1
    <3> QED BY <3>4, <3>5
  <2> QED BY <2>3 DEF Adds
<1>4. CASE ~TouchExisting
  BY <1>1, <1>4
<1> QED BY <1>3, <1>4

LEMMA GoneNext == IInv /\ Stamped /\ GoneFilesLeave /\ [Next]_vars => GoneFilesLeave'
<1> SUFFICES ASSUME IInv, Stamped, GoneFilesLeave, [Next]_vars PROVE GoneFilesLeave'
  OBVIOUS
<1>1. TypeOK /\ DeckOK(decks)
  BY Parting DEF IInv
<1>2. CASE UserStep
  BY <1>1, <1>2, UserGone
<1>3. CASE Stamp
  BY <1>1, <1>3, StampKeepsPending DEF Stamp, userVars, GoneFilesLeave
<1>4. CASE Record
  <2>1. exists' = exists
    BY <1>4 DEF Record, userVars
  <2>2. Len(pending) \in Nat /\ Len(pending) = Len(pending') + 1 /\ Len(pending') \in Nat
    <3>1. pending \in Seq(Event) /\ Len(pending) = Len(pending') + 1 /\ pending' = queue
      BY <1>4, RecordIs
    <3> QED BY <1>1, <3>1 DEF TypeOK
  <2>3. \A f \in Files \ exists : Leaves(pending', decks', Len(pending) - 1, f)
    BY <1>4, <2>2, LeavesRecord DEF GoneFilesLeave
  <2>4. Len(pending) - 1 = Len(pending')
    BY <2>2
  <2> QED BY <2>1, <2>3, <2>4 DEF GoneFilesLeave
<1>5. CASE Sweep \/ \E f \in Files : ProcessorFails(f)
  <2>1. exists' = exists
    BY <1>5, OtherSteps
  <2>2. CASE StartOver
    BY <1>1, <2>1, <2>2, StartOverGone
  <2>3. CASE \E S \in SUBSET Due(decks) : decks' = Remaining(decks, S) /\ pending' = pending
    <3>1. Held(decks') \subseteq Held(decks)
      BY <1>1, <2>3, RemainingIs DEF Held
    <3> QED BY <2>1, <2>3, <3>1 DEF GoneFilesLeave, Leaves
  <2> QED BY <1>5, <2>2, <2>3, SweepIs
<1>6. CASE Restart
  BY <1>1, <1>6, StartOverGone DEF Restart, userVars
<1>7. CASE Tick
  <2>1. Held(decks') = Held(decks)
    <3>1. decks.deck \in Histories /\ decks.modDeck \in Histories
      BY <1>1 DEF DeckOK, Decks
    <3> QED BY <1>1, <1>7, <3>1, TickIs, OlderAllType DEF Held
  <2> QED BY <1>1, <1>7, <2>1, TickIs DEF Tick, userVars, GoneFilesLeave, Leaves
<1>8. CASE UNCHANGED vars
  BY <1>8 DEF vars, userVars, GoneFilesLeave, pending
<1> QED BY <1>2, <1>3, <1>4, <1>5, <1>6, <1>7, <1>8 DEF Next, Watcher, UserStep

(* An event is stamped for what it is, and of a file that is gone nothing  *)
(* stays behind in the decks: what makes the handler forget it is in hand  *)
(* or in the queue, behind all that could make the handler know it.        *)
THEOREM GoneInvariance == Spec => [](Stamped /\ GoneFilesLeave)
<1>1. Init => Stamped /\ GoneFilesLeave
  BY DEF Init, Stamped, GoneFilesLeave, Leaves, pending, Pending, Held, Empty
<1>2. IInv /\ Stamped /\ GoneFilesLeave /\ [Next]_vars => (Stamped /\ GoneFilesLeave)'
  BY StampedNext, GoneNext
<1> QED BY <1>1, <1>2, Invariance, PTL DEF Spec

(* Once all events are in, only files that are there are due: a file that  *)
(* was moved away or deleted is no longer known by its old name, however   *)
(* often it was created, moved and deleted, and whatever the process was   *)
(* doing then (on_any_event).                                              *)
THEOREM DueFilesAlwaysExist == Spec => []DueFilesExist
<1>1. IInv /\ GoneFilesLeave => DueFilesExist
  <2> SUFFICES ASSUME GoneFilesLeave, CaughtUp, NEW f \in Due(decks), f \notin exists PROVE FALSE
    BY DEF DueFilesExist
  <2>1. f \in Files /\ f \in Held(decks)
    BY DEF Due, Reached, Tracked, Held
  <2>2. pending = <<>>
    BY DEF CaughtUp, pending, Pending
  <2> QED BY <2>1, <2>2 DEF GoneFilesLeave, Leaves
<1> QED BY <1>1, Invariance, GoneInvariance, PTL

-----------------------------------------------------------------------------
(* A polling observer: the order of the main deck is that of the ages.     *)

\* What a polling observer reports.
PolledEvent == {e \in Event : e.op \in {"created", "modified", "moved", "deleted"}}

PolledEvents ==
  polling => queue \in Seq(PolledEvent) /\ (handling # NoEvent => handling.event \in PolledEvent)

\* The last event of a file is not newer than that of one before it in the
\* deck, and the event in hand is newer than both.
LastAge(d, f) == Last(d.deck[f]).age

NewestAreLast ==
  polling =>
    /\ \A f \in Tracked(decks) : /\ Last(decks.deck[f]).op # "closed"
                                 /\ handling # NoEvent => handling.as.age <= LastAge(decks, f)
    /\ \A p \in decks.before : LastAge(decks, p[2]) <= LastAge(decks, p[1])

LEMMA EnqueuePolled ==
  ASSUME polling, NEW q \in Seq(PolledEvent), NEW e \in Event
  PROVE  Enqueue(q, e) \in Seq(PolledEvent)
<1>1. e.op \in Announced => e \in PolledEvent
  BY DEF Announced, PolledEvent
<1> QED BY <1>1, AppendProperties DEF Enqueue

LEMMA UserPolled ==
  ASSUME TypeOK, PolledEvents, UserStep
  PROVE  PolledEvents'
<1> PICK f \in Files : Users(f) \/ Closes(f)
  BY DEF UserStep
<1> SUFFICES ASSUME polling' PROVE queue' \in Seq(PolledEvent) /\ polling' = polling
  BY UserQueue DEF PolledEvents, UserStep
<1> DEFINE Goal == queue' \in Seq(PolledEvent) /\ polling' = polling
<1>1. ASSUME polling
      PROVE  \A op \in Kinds : Enqueue(queue, Ev(op, f)) \in Seq(PolledEvent)
  BY <1>1, EvType, EnqueuePolled DEF PolledEvents
<1>2. CASE Create(f)
  <2> DEFINE q == Enqueue(queue, Ev("created", f))
  <2>1. polling' = polling /\ queue' = Enqueue(q, Ev("opened", f))
    BY <1>2 DEF Create
  <2>2. q \in Seq(PolledEvent) /\ Ev("opened", f) \in Event
    BY <1>1, <2>1, EvType DEF Kinds
  <2> HIDE DEF q
  <2> QED BY <2>1, <2>2, EnqueuePolled
<1>3. CASE OpenWrite(f)
  BY <1>1, <1>3 DEF OpenWrite, Kinds
<1>4. CASE Write(f)
  BY <1>1, <1>4 DEF Write, Kinds
<1>5. CASE OpenRead(f)
  BY <1>1, <1>5 DEF OpenRead, Kinds
<1>6. CASE MoveIn(f)
  BY <1>1, <1>6 DEF MoveIn, Kinds
<1>7. CASE Touch(f)
  BY <1>1, <1>7 DEF Touch, Kinds
<1>8. CASE Delete(f)
  BY <1>1, <1>8 DEF Delete, Kinds
<1>9. ASSUME NEW g \in Files, Rename(f, g) PROVE Goal
  <2>1. [op |-> "moved", file |-> g, from |-> f] \in Event
    BY DEF Event, Kinds
  <2>2. polling' = polling /\ queue' = Enqueue(queue, [op |-> "moved", file |-> g, from |-> f])
    BY <1>9 DEF Rename
  <2> QED BY <2>1, <2>2, EnqueuePolled DEF PolledEvents
<1>10. CASE CloseWrite(f)
  BY <1>1, <1>10 DEF CloseWrite, Kinds
<1>11. CASE CloseRead(f)
  BY <1>1, <1>11 DEF CloseRead, Kinds
<1> QED BY <1>2, <1>3, <1>4, <1>5, <1>6, <1>7, <1>8, <1>9, <1>10, <1>11 DEF Users, Closes

LEMMA StartOverPolled ==
  ASSUME TypeOK, StartOver, polling' = polling
  PROVE  PolledEvents' /\ NewestAreLast'
<1>1. /\ decks' = Empty /\ handling' = NoEvent
      /\ ~TouchExisting => queue' = <<>>
  BY StartOverIs
<1>2. NewestAreLast'
  <2>1. Tracked(decks') = {} /\ decks'.before = {}
    BY <1>1 DEF Empty, Tracked
  <2> QED BY <2>1 DEF NewestAreLast
<1>3. ASSUME polling PROVE queue' \in Seq(PolledEvent)
  <2>1. CASE TouchExisting
    <3>1. PICK s \in Seq(exists) : queue' = Touched(s)
      BY <2>1, StartOverIs
    <3>2. s \in Seq(Files)
      BY DEF TypeOK
    <3>3. \A g \in Files : Ev("modified", g) \in PolledEvent
      BY EvType DEF Ev, PolledEvent, Kinds
    <3>4. queue' \in Seq(Event) /\ Len(queue') = Len(s) /\ \A i \in 1 .. Len(s) : queue'[i] = Ev("modified", s[i])
      BY <1>3, <3>1, <3>2, TouchedFiles
    <3>5. \A i \in 1 .. Len(queue') : queue'[i] \in PolledEvent
      BY <3>2, <3>3, <3>4
    <3> QED BY <3>4, <3>5
  <2>2. CASE ~TouchExisting
    BY <1>1, <2>2
  <2> QED BY <2>1, <2>2
<1> QED BY <1>1, <1>2, <1>3 DEF PolledEvents

LEMMA PolledNext == IInv /\ PolledEvents /\ [Next]_vars => PolledEvents'
<1> SUFFICES ASSUME IInv, PolledEvents, [Next]_vars PROVE PolledEvents'
  OBVIOUS
<1>1. TypeOK
  BY DEF IInv
<1>2. CASE UserStep
  BY <1>1, <1>2, UserPolled
<1>3. CASE Stamp
  <2>1. /\ handling'.event = pending[1] /\ queue # <<>> /\ pending = queue
        /\ queue' = Tail(queue) /\ polling' = polling
    BY <1>1, <1>3, StampKeepsPending DEF Stamp
  <2>2. \A q \in Seq(PolledEvent) : q # <<>> => q[1] \in PolledEvent /\ Tail(q) \in Seq(PolledEvent)
    OBVIOUS
  <2> QED BY <2>1, <2>2 DEF PolledEvents
<1>4. CASE Record
  BY <1>4 DEF Record, PolledEvents
<1>5. CASE Sweep \/ \E f \in Files : ProcessorFails(f)
  <2>1. polling' = polling
    BY <1>5, OtherSteps
  <2> QED BY <1>1, <1>5, <2>1, SweepIs, StartOverPolled DEF PolledEvents
<1>6. CASE Restart
  BY <1>1, <1>6, StartOverPolled DEF Restart
<1>7. CASE Tick
  BY <1>1, <1>7, TickIs DEF Tick, PolledEvents
<1>8. CASE UNCHANGED vars
  BY <1>8 DEF vars, PolledEvents
<1> QED BY <1>2, <1>3, <1>4, <1>5, <1>6, <1>7, <1>8 DEF Next, Watcher, UserStep

LEMMA LastType ==
  ASSUME NEW h \in Seq(Operation), h # <<>>
  PROVE  Last(h) = h[Len(h)] /\ Len(h) \in 1 .. Len(h) /\ Last(h) \in Operation /\ Last(h).age \in Nat
<1>1. Last(h) = h[Len(h)] /\ Len(h) \in 1 .. Len(h) /\ Last(h) \in Operation
  BY DEF Last
<1>2. \A p \in Operation : p.age \in Nat
  BY Bounds DEF Operation
<1> QED BY <1>1, <1>2

LEMMA RecordedLast ==
  ASSUME NEW d, DeckOK(d), NEW f \in Files, NEW o \in Operation,
         Recorded(d, f, o).deck[f] # <<>>
  PROVE  Last(Recorded(d, f, o).deck[f]).op = o.op \/ Recorded(d, f, o).deck[f] = d.deck[f]
<1> DEFINE e == Recorded(d, f, o)
<1>1. /\ d.deck[f] \in Seq(Operation) /\ d.modDeck[f] \in Seq(Operation)
      /\ d.deck[f] = <<>> \/ d.modDeck[f] = <<>>
  BY DEF DeckOK, Decks, Histories, Agree
<1>2. Effect(d, f, o, e)
  BY RecordedIs
<1>3. e.deck[f] \in {<<>>, d.deck[f], <<o>>, Append(d.modDeck[f], o)}
      \/ (d.deck[f] # <<>> /\ e.deck[f] = Extended(d.deck[f], o))
  <2> HIDE DEF e
  <2> DEFINE a == Append(d.modDeck[f], o)
             x == Extended(d.deck[f], o)
             y == Staged(d.modDeck[f], o)
             P == Promotes(d.modDeck[f], o)
             A == AttributesOnly(d.deck[f], o)
  <2>1. CASE o.op = "deleted"
    BY <1>2, <2>1 DEF Effect
  <2>2. CASE o.op # "deleted" /\ d.deck[f] # <<>>
    <3>1. e.deck[f] = IF A THEN d.deck[f] ELSE x
      <4> HIDE DEF A, x
      <4> QED BY <1>2, <2>2 DEF Effect, A, x
    <3> QED BY <2>2, <3>1
  <2>3. CASE o.op # "deleted" /\ d.deck[f] = <<>> /\ d.modDeck[f] # <<>>
    <3>1. e.deck[f] = a \/ e.deck[f] = <<>>
      BY <1>2, <2>3 DEF Effect
    <3> QED BY <3>1
  <2>4. CASE o.op # "deleted" /\ d.deck[f] = <<>> /\ d.modDeck[f] = <<>>
    <3>1. e.deck[f] = <<o>> \/ e.deck[f] = <<>>
      BY <1>2, <2>4 DEF Effect
    <3> QED BY <3>1
  <2> QED BY <2>1, <2>2, <2>3, <2>4
<1>4. Last(<<o>>) = o /\ Last(Append(d.modDeck[f], o)) = o
  BY <1>1, AppendProperties DEF Last
<1>5. d.deck[f] # <<>> => Last(Extended(d.deck[f], o)).op = o.op
  BY <1>1, ExtendedLast
<1> HIDE DEF e
<1> QED BY <1>3, <1>4, <1>5, Zenon DEF e

LEMMA TrackedType ==
  ASSUME NEW d, DeckOK(d), NEW f \in Tracked(d)
  PROVE  f \in Files /\ d.deck[f] \in Seq(Operation) /\ d.deck[f] # <<>> /\ LastAge(d, f) \in Nat
BY LastType DEF DeckOK, Decks, Histories, Tracked, LastAge

LEMMA RecordNewest ==
  ASSUME IInv, Stamped, PolledEvents, NewestAreLast, Record
  PROVE  NewestAreLast'
<1> SUFFICES ASSUME polling'
             PROVE  /\ \A g \in Tracked(decks') : Last(decks'.deck[g]).op # "closed"
                    /\ \A p \in decks'.before : LastAge(decks', p[2]) <= LastAge(decks', p[1])
  BY RecordIs DEF NewestAreLast
<1> DEFINE e == handling.event
           o == handling.as
           f == e.file
           d == Pop(decks, Source(e))
<1>1. polling
  BY DEF Record
<1>2. /\ handling # NoEvent /\ e \in Event /\ f \in Files /\ o \in Operation /\ o.op = e.op
      /\ DeckOK(decks) /\ DeckOK(d) /\ e \in PolledEvent
  BY <1>1, RecordIs DEF PolledEvents
<1>3. o.op \in {"created", "modified", "moved", "deleted"} /\ o.age \in Nat
  BY <1>2, Bounds DEF PolledEvent, Operation
<1>4. decks' = Recorded(d, f, o) /\ DeckOK(decks')
  BY <1>2, <1>3, RecordIs, RecordedOK
<1>5. /\ d.before \subseteq decks.before
      /\ \A g \in Files : d.deck[g] \in {<<>>, decks.deck[g]}
  BY <1>2, PopIs
<1>6. \A g \in Tracked(d) : g \in Tracked(decks) /\ d.deck[g] = decks.deck[g]
  BY <1>5 DEF Tracked
<1>7. \A g \in Tracked(d) : Last(d.deck[g]).op # "closed" /\ o.age <= LastAge(d, g)
  BY <1>1, <1>2, <1>6 DEF NewestAreLast, LastAge
<1>8. \A p \in d.before : /\ p[1] \in Tracked(d) /\ p[2] \in Tracked(d)
                          /\ LastAge(d, p[2]) <= LastAge(d, p[1])
  <2>1. \A p \in d.before : p[1] \in Tracked(d) /\ p[2] \in Tracked(d)
    BY <1>2 DEF DeckOK, Agree
  <2> QED BY <1>1, <1>5, <1>6, <2>1 DEF NewestAreLast, LastAge
<1>9. /\ Effect(d, f, o, decks') /\ Order(d, f, o, decks')
      /\ decks'.deck[f] # <<>> => Last(decks'.deck[f]).op = o.op \/ decks'.deck[f] = d.deck[f]
  BY <1>2, <1>4, RecordedIs, RecordedLast
<1> HIDE DEF d, o, f, e
<1>10. \A g \in Files \ {f} : decks'.deck[g] = d.deck[g]
  BY <1>9 DEF Effect
<1>11. \A g \in Tracked(decks') : Last(decks'.deck[g]).op # "closed"
  <2>1. decks'.deck[f] # <<>> => Last(decks'.deck[f]).op # "closed"
    BY <1>2, <1>3, <1>7, <1>9 DEF Tracked
  <2> QED BY <1>7, <1>10, <2>1 DEF Tracked
<1>12. ASSUME NEW p \in decks'.before PROVE LastAge(decks', p[2]) <= LastAge(decks', p[1])
  <2>1. /\ p[1] \in Tracked(decks') /\ p[2] \in Tracked(decks') /\ p[1] # p[2]
        /\ p[1] \in Files /\ p[2] \in Files
    BY <1>4, <1>12 DEF DeckOK, Agree, Tracked
  <2>2. decks'.deck[f] # <<>> => Last(decks'.deck[f]).op # "closed"
    BY <1>2, <1>11 DEF Tracked
  <2>3. \/ decks'.before \subseteq d.before /\ decks'.deck[f] \in {<<>>, d.deck[f]}
        \/ /\ decks'.deck[f] # <<>> /\ Last(decks'.deck[f]).age <= o.age
           /\ \A q \in decks'.before : q[2] = f \/ (q[1] # f /\ q \in d.before)
    BY <1>3, <1>9, <2>2 DEF Order
  <2>4. CASE decks'.before \subseteq d.before /\ decks'.deck[f] \in {<<>>, d.deck[f]}
    <3>1. decks'.deck[p[1]] = d.deck[p[1]] /\ decks'.deck[p[2]] = d.deck[p[2]]
      BY <1>10, <2>1, <2>4 DEF Tracked
    <3> QED BY <1>8, <2>4, <3>1 DEF LastAge
  <2>5. CASE p[2] = f /\ Last(decks'.deck[f]).age <= o.age
    <3>1. decks'.deck[p[1]] = d.deck[p[1]] /\ p[1] \in Tracked(d)
      BY <1>10, <2>1, <2>5 DEF Tracked
    <3>2. o.age <= LastAge(d, p[1]) /\ LastAge(d, p[1]) \in Nat
      BY <1>2, <1>7, <3>1, TrackedType
    <3>3. LastAge(decks', p[2]) \in Nat /\ LastAge(decks', p[2]) <= o.age
      BY <1>4, <2>1, <2>5, TrackedType DEF LastAge
    <3>4. LastAge(decks', p[1]) = LastAge(d, p[1])
      BY <3>1 DEF LastAge
    <3> QED BY <1>3, <3>2, <3>3, <3>4
  <2>6. CASE p[2] # f /\ p[1] # f /\ p \in d.before
    <3>1. decks'.deck[p[1]] = d.deck[p[1]] /\ decks'.deck[p[2]] = d.deck[p[2]]
      BY <1>10, <2>1, <2>6
    <3> QED BY <1>8, <2>6, <3>1 DEF LastAge
  <2> QED BY <2>3, <2>4, <2>5, <2>6
<1> QED BY <1>11, <1>12

\* Time passes for all events alike.
LEMMA OlderIs ==
  /\ \A o \in Operation : Older(o).op = o.op /\ Older(o).size = o.size
  /\ \A o, p \in Operation : o.age <= p.age => Older(o).age <= Older(p).age
<1>1. ASSUME NEW o \in Operation
      PROVE  /\ Older(o).op = o.op /\ Older(o).size = o.size
             /\ Older(o).age = IF o.age < AssumeClosed THEN o.age + 1 ELSE o.age
  <2> DEFINE a == IF o.age < AssumeClosed THEN o.age + 1 ELSE o.age
  <2>1. Older(o) = [o EXCEPT !.age = a]
    BY DEF Older
  <2> HIDE DEF a
  <2>2. Older(o) = [op |-> o.op, size |-> o.size, age |-> a]
    BY <2>1 DEF Operation
  <2>3. Older(o).op = o.op /\ Older(o).size = o.size /\ Older(o).age = a
    BY <2>2
  <2> QED BY <2>3 DEF a
<1>2. AssumeClosed \in Nat /\ \A o \in Operation : o.age \in 0 .. AssumeClosed
  BY Bounds DEF Operation
<1>3. ASSUME NEW o \in Operation, NEW p \in Operation, o.age <= p.age
      PROVE  Older(o).age <= Older(p).age
  <2>1. \A a, b \in 0 .. AssumeClosed : a <= b =>
          (IF a < AssumeClosed THEN a + 1 ELSE a) <= (IF b < AssumeClosed THEN b + 1 ELSE b)
    BY <1>2
  <2> QED BY <1>1, <1>2, <1>3, <2>1
<1> QED BY <1>1, <1>3

LEMMA OlderLast ==
  ASSUME NEW hs \in Histories, NEW f \in Files, hs[f] # <<>>
  PROVE  Last(OlderAll(hs)[f]) = Older(Last(hs[f]))
<1>1. hs[f] \in Seq(Operation)
  BY DEF Histories
<1>2. OlderAll(hs)[f] = [i \in 1 .. Len(hs[f]) |-> Older(hs[f][i])]
  BY <1>1 DEF OlderAll
<1>3. Len(hs[f]) \in 1 .. Len(hs[f])
  BY <1>1
<1> DEFINE h == OlderAll(hs)[f]
<1>4. Len(h) = Len(hs[f]) /\ \A i \in 1 .. Len(hs[f]) : h[i] = Older(hs[f][i])
  BY <1>1, <1>2
<1> HIDE DEF h
<1> QED BY <1>3, <1>4 DEF Last, h

LEMMA TickNewest ==
  ASSUME IInv, NewestAreLast, Tick
  PROVE  NewestAreLast'
<1> SUFFICES ASSUME polling'
             PROVE  /\ \A f \in Tracked(decks') :
                         /\ Last(decks'.deck[f]).op # "closed"
                         /\ handling' # NoEvent => handling'.as.age <= LastAge(decks', f)
                    /\ \A p \in decks'.before : LastAge(decks', p[2]) <= LastAge(decks', p[1])
  BY DEF NewestAreLast
<1>1. polling /\ TypeOK /\ DeckOK(decks)
  BY Parting DEF Tick, IInv
<1>2. /\ decks'.deck = OlderAll(decks.deck) /\ decks'.before = decks.before
      /\ (handling' = NoEvent <=> handling = NoEvent)
      /\ handling # NoEvent => handling'.as = Older(handling.as)
  BY <1>1, TickIs
<1>3. decks.deck \in Histories
  BY <1>1 DEF DeckOK, Decks
<1>4. Tracked(decks') = Tracked(decks)
  BY <1>2, <1>3, OlderAllType DEF Tracked
<1>5. \A f \in Tracked(decks) : /\ f \in Files /\ Last(decks'.deck[f]) = Older(Last(decks.deck[f]))
                                /\ Last(decks.deck[f]) \in Operation
  <2> TAKE f \in Tracked(decks)
  <2>1. f \in Files /\ decks.deck[f] # <<>> /\ decks.deck[f] \in Seq(Operation)
    BY <1>1, TrackedType
  <2> QED BY <1>2, <1>3, <2>1, OlderLast, LastType
<1>6. \A p \in decks.before : p[1] \in Tracked(decks) /\ p[2] \in Tracked(decks)
  BY <1>1 DEF DeckOK, Agree
<1>7. handling # NoEvent => handling.as \in Operation
  BY <1>1, HandlingOK, InHandIs
<1>8. ASSUME NEW f \in Tracked(decks')
      PROVE  /\ Last(decks'.deck[f]).op # "closed"
             /\ handling' # NoEvent => handling'.as.age <= LastAge(decks', f)
  <2>1. f \in Tracked(decks) /\ Last(decks'.deck[f]) = Older(Last(decks.deck[f]))
        /\ Last(decks.deck[f]) \in Operation
    BY <1>4, <1>5
  <2>2. /\ Last(decks.deck[f]).op # "closed"
        /\ handling # NoEvent => handling.as.age <= Last(decks.deck[f]).age
    BY <1>1, <2>1 DEF NewestAreLast, LastAge
  <2> QED BY <1>2, <1>7, <2>1, <2>2, OlderIs DEF LastAge
<1>9. ASSUME NEW p \in decks'.before
      PROVE  LastAge(decks', p[2]) <= LastAge(decks', p[1])
  <2>1. /\ p \in decks.before /\ p[1] \in Tracked(decks) /\ p[2] \in Tracked(decks)
    BY <1>2, <1>6
  <2>2. Last(decks.deck[p[2]]).age <= Last(decks.deck[p[1]]).age
    BY <1>1, <2>1 DEF NewestAreLast, LastAge
  <2> QED BY <1>5, <2>1, <2>2, OlderIs DEF LastAge
<1> QED BY <1>8, <1>9

LEMMA NewestNext ==
  IInv /\ IInv' /\ Stamped /\ PolledEvents /\ NewestAreLast /\ [Next]_vars => NewestAreLast'
<1> SUFFICES ASSUME IInv, IInv', Stamped, PolledEvents, NewestAreLast, [Next]_vars
             PROVE  NewestAreLast'
  OBVIOUS
<1>1. TypeOK /\ DeckOK(decks)
  BY Parting DEF IInv
<1>2. CASE UserStep
  <2>1. polling' = polling
    BY <1>2 DEF UserStep, Users, Closes, Create, OpenWrite, Write, OpenRead, MoveIn, Touch, Delete,
                Rename, CloseWrite, CloseRead
  <2> QED BY <1>1, <1>2, <2>1, UserQueue DEF NewestAreLast
<1>3. CASE Stamp
  <2>1. decks' = decks /\ polling' = polling
    BY <1>3 DEF Stamp
  <2>2. handling'.as.age = 0
    BY <1>1, <1>3, StampKeepsPending
  <2>3. \A f \in Tracked(decks) : 0 <= LastAge(decks, f)
    BY <1>1, TrackedType
  <2> QED BY <2>1, <2>2, <2>3 DEF NewestAreLast
<1>4. CASE Record
  BY <1>4, RecordNewest
<1>5. CASE Sweep \/ \E f \in Files : ProcessorFails(f)
  <2>1. polling' = polling
    BY <1>5, OtherSteps
  <2>2. ASSUME NEW S \in SUBSET Due(decks), decks' = Remaining(decks, S), handling' = handling
        PROVE  NewestAreLast'
    <3>1. /\ DeckOK(decks') /\ decks'.before \subseteq decks.before
          /\ \A f \in Files : decks'.deck[f] = IF f \in S THEN <<>> ELSE decks.deck[f]
      BY <1>1, <2>2, RemainingIs, RemainingOK
    <3>2. \A f \in Tracked(decks') : f \in Tracked(decks) /\ decks'.deck[f] = decks.deck[f]
      BY <3>1 DEF Tracked
    <3>3. \A p \in decks'.before : p[1] \in Tracked(decks') /\ p[2] \in Tracked(decks')
      BY <3>1 DEF DeckOK, Agree
    <3> QED BY <2>1, <2>2, <3>1, <3>2, <3>3 DEF NewestAreLast, LastAge
  <2>3. CASE StartOver
    BY <1>1, <2>1, <2>3, StartOverPolled
  <2> QED BY <1>5, <2>2, <2>3, SweepIs
<1>6. CASE Restart
  BY <1>1, <1>6, StartOverPolled DEF Restart
<1>7. CASE Tick
  BY <1>7, TickNewest
<1>8. CASE UNCHANGED vars
  BY <1>8 DEF vars, NewestAreLast
<1> QED BY <1>2, <1>3, <1>4, <1>5, <1>6, <1>7, <1>8 DEF Next, Watcher, UserStep

(* A polling observer reports no opens and closes, so that each recorded   *)
(* event puts its file at the end of the main deck: the deck is in the     *)
(* order of the ages, and no event in hand is older than those recorded.   *)
THEOREM PolledOrder == Spec => [](PolledEvents /\ NewestAreLast)
<1>1. Init => PolledEvents /\ NewestAreLast
  BY DEF Init, PolledEvents, NewestAreLast, Tracked, Empty
<1>2. IInv /\ IInv' /\ Stamped /\ PolledEvents /\ NewestAreLast /\ [Next]_vars
        => (PolledEvents /\ NewestAreLast)'
  BY PolledNext, NewestNext
<1> QED BY <1>1, <1>2, Invariance, GoneInvariance, PTL DEF Spec

(* With a polling observer the comment of ProcessFileEventWorker is right: *)
(* behind a file that has to wait every file has to wait, so that a sweep  *)
(* that ends there misses nothing.                                         *)
THEOREM BreakIsAlwaysSafe == Spec => []BreakIsSafe
<1>1. IInv /\ NewestAreLast => BreakIsSafe
  <2> SUFFICES ASSUME IInv, NewestAreLast, polling, NEW p \in decks.before, Waits(decks.deck[p[1]])
               PROVE  Waits(decks.deck[p[2]])
    BY DEF BreakIsSafe
  <2>1. DeckOK(decks) /\ p[1] \in Tracked(decks) /\ p[2] \in Tracked(decks)
    BY Parting DEF DeckOK, Agree
  <2>2. LastAge(decks, p[1]) \in Nat /\ LastAge(decks, p[2]) \in Nat /\ AssumeClosed \in Nat
    BY <2>1, TrackedType, Bounds
  <2>3. /\ Last(decks.deck[p[2]]).op # "closed"
        /\ LastAge(decks, p[2]) <= LastAge(decks, p[1])
    BY <2>1 DEF NewestAreLast
  <2> QED BY <2>2, <2>3 DEF Waits, LastAge
<1> QED BY <1>1, Invariance, PolledOrder, PTL

-----------------------------------------------------------------------------
(* Users who do not read.                                                  *)

NoReadEnds(p) == \A i \in 1 .. Len(p) : p[i].op # "closed_no_write"

\* Users who do not read leave no trace of a read.
Unread ==
  "read" \notin habits =>
    /\ \A f \in Files : readers[f] = 0 /\ strays[f] = 0
    /\ NoReadEnds(pending)

LEMMA GrownReads ==
  ASSUME NEW p \in Seq(Event), NEW r \in Seq(Event), NEW e, Grown(p, r, e),
         e.op # "closed_no_write", NoReadEnds(p)
  PROVE  NoReadEnds(r)
BY DEF Grown, NoReadEnds

LEMMA UnreadSaid ==
  ASSUME TypeOK, Unread, habits' = habits, handling' = handling,
         NEW e \in Event, queue' = Enqueue(queue, e), e.op # "closed_no_write",
         "read" \notin habits => \A f \in Files : readers'[f] = 0 /\ strays'[f] = 0
  PROVE  Unread'
<1>1. pending \in Seq(Event) /\ pending' \in Seq(Event) /\ Grown(pending, pending', e)
  BY Said
<1> QED BY <1>1, GrownReads DEF Unread

LEMMA UserUnread ==
  ASSUME TypeOK, Unread, UserStep
  PROVE  Unread'
<1> PICK f \in Files : Users(f) \/ Closes(f)
  BY DEF UserStep
<1>1. /\ \A op \in Kinds : Ev(op, f) \in Event /\ Ev(op, f).op = op
      /\ UNCHANGED <<handling, decks>>
      /\ readers \in [Files -> Nat] /\ strays \in [Files -> Nat]
  BY EvType, UserQueue DEF Ev, UserStep, TypeOK
<1>2. "read" \notin habits => \A g \in Files : readers[g] = 0 /\ strays[g] = 0
  BY DEF Unread
<1>3. CASE Create(f)
  <2> DEFINE q == Enqueue(queue, Ev("created", f))
             p == Pending(q, handling)
  <2>1. queue \in Seq(Event) /\ handling \in InHand /\ q \in Seq(Event) /\ pending \in Seq(Event)
    BY <1>1, HandlingOK, EnqueueType DEF Kinds
  <2>2. p \in Seq(Event) /\ Grown(pending, p, Ev("created", f))
    BY <1>1, <2>1, EnqueueGrows, PendingIs DEF Kinds, pending
  <2>3. pending' = Pending(Enqueue(q, Ev("opened", f)), handling)
    BY <1>1, <1>3 DEF Create, pending
  <2> HIDE DEF q
  <2>4. pending' \in Seq(Event) /\ Grown(p, pending', Ev("opened", f))
    BY <1>1, <2>1, <2>3, EnqueueGrows DEF Kinds
  <2>5. habits' = habits /\ readers' = readers /\ strays' = strays
    BY <1>3 DEF Create
  <2> HIDE DEF p
  <2>6. Ev("created", f).op # "closed_no_write" /\ Ev("opened", f).op # "closed_no_write"
    BY DEF Ev
  <2>7. NoReadEnds(pending) => NoReadEnds(pending')
    <3>1. NoReadEnds(pending) => NoReadEnds(p)
      BY <2>1, <2>2, <2>6, GrownReads
    <3> QED BY <2>2, <2>4, <2>6, <3>1, GrownReads
  <2> QED BY <2>5, <2>7 DEF Unread
<1>4. CASE OpenWrite(f)
  BY <1>1, <1>2, <1>4, UnreadSaid DEF OpenWrite, Kinds
<1>5. CASE Write(f)
  BY <1>1, <1>2, <1>5, UnreadSaid DEF Write, Kinds
<1>6. CASE OpenRead(f)
  BY <1>1, <1>2, <1>6, UnreadSaid DEF OpenRead, Kinds
<1>7. CASE MoveIn(f)
  BY <1>1, <1>2, <1>7, UnreadSaid DEF MoveIn, Kinds
<1>8. CASE Touch(f)
  BY <1>1, <1>2, <1>8, UnreadSaid DEF Touch, userVars, Kinds
<1>9. CASE Delete(f)
  BY <1>1, <1>2, <1>9, UnreadSaid DEF Delete, Kinds
<1>10. ASSUME NEW g \in Files, Rename(f, g) PROVE Unread'
  <2> DEFINE e == [op |-> "moved", file |-> g, from |-> f]
  <2>1. e \in Event /\ e.op = "moved"
    BY DEF Event, Kinds
  <2>2. queue' = Enqueue(queue, e) /\ habits' = habits
    BY <1>10 DEF Rename
  <2>3. readers' = [readers EXCEPT ![f] = 0, ![g] = readers[f]]
        /\ strays' = [strays EXCEPT ![g] = @ + readers[g]]
    BY <1>10 DEF Rename
  <2>4. "read" \notin habits => \A h \in Files : readers'[h] = 0 /\ strays'[h] = 0
    BY <1>1, <1>2, <2>3
  <2> HIDE DEF e
  <2> QED BY <1>1, <2>1, <2>2, <2>4, UnreadSaid
<1>11. CASE CloseWrite(f)
  BY <1>1, <1>2, <1>11, UnreadSaid DEF CloseWrite, Kinds
<1>12. CASE CloseRead(f)
  <2>1. "read" \in habits
    BY <1>1, <1>2, <1>12 DEF CloseRead
  <2> QED BY <1>12, <2>1 DEF CloseRead, Unread
<1> QED BY <1>3, <1>4, <1>5, <1>6, <1>7, <1>8, <1>9, <1>10, <1>11, <1>12 DEF Users, Closes

\* The touches of a process that starts over.
LEMMA TouchedOps ==
  ASSUME NEW s \in Seq(Files), NEW i \in 1 .. Len(Touched(s))
  PROVE  Touched(s)[i].op \in {"opened", "closed", "modified"}
<1> DEFINE t == Touched(s)
<1>1. /\ polling => Len(t) = Len(s) /\ \A k \in 1 .. Len(s) : t[k] = Ev("modified", s[k])
      /\ ~polling => /\ Len(t) = 3 * Len(s)
                     /\ \A k \in 1 .. 3 * Len(s) :
                          /\ ((k - 1) % 3) + 1 \in 1 .. 3
                          /\ t[k] = Ev(Touches[((k - 1) % 3) + 1], s[((k - 1) \div 3) + 1])
  BY TouchedFiles
<1>2. \A op, g : Ev(op, g).op = op
  BY DEF Ev
<1>3. i \in 1 .. Len(t)
  OBVIOUS
<1> HIDE DEF t
<1>4. CASE polling
  BY <1>1, <1>2, <1>3, <1>4 DEF t
<1>5. CASE ~polling
  <2> DEFINE m == ((i - 1) \div 3) + 1
             n == ((i - 1) % 3) + 1
  <2>1. n \in 1 .. 3 /\ t[i] = Ev(Touches[n], s[m])
    BY <1>1, <1>3, <1>5
  <2>2. \A k \in 1 .. 3 : Touches[k] \in {"opened", "closed", "modified"}
    BY DEF Touches
  <2> HIDE DEF m, n
  <2> QED BY <1>2, <2>1, <2>2 DEF t
<1> QED BY <1>4, <1>5

LEMMA StartOverUnread ==
  ASSUME TypeOK, Unread, StartOver, UNCHANGED <<habits, readers, strays>>
  PROVE  Unread'
<1>1. pending' = queue' /\ (~TouchExisting => queue' = <<>>)
  BY StartOverIs
<1>2. NoReadEnds(pending')
  <2>1. CASE TouchExisting
    <3>1. PICK s \in Seq(exists) : queue' = Touched(s)
      BY <2>1, StartOverIs
    <3>2. s \in Seq(Files)
      BY DEF TypeOK
    <3> QED BY <1>1, <3>1, <3>2, TouchedOps DEF NoReadEnds
  <2>2. CASE ~TouchExisting
    BY <1>1, <2>2 DEF NoReadEnds
  <2> QED BY <2>1, <2>2
<1> QED BY <1>2 DEF Unread

LEMMA UnreadNext == IInv /\ Stamped /\ Unread /\ [Next]_vars => Unread'
<1> SUFFICES ASSUME IInv, Stamped, Unread, [Next]_vars PROVE Unread'
  OBVIOUS
<1>1. TypeOK
  BY DEF IInv
<1>2. CASE UserStep
  BY <1>1, <1>2, UserUnread
<1>3. CASE Stamp
  BY <1>1, <1>3, StampKeepsPending DEF Stamp, userVars, Unread
<1>4. CASE Record
  <2>1. /\ Len(pending) \in Nat /\ Len(pending) = Len(pending') + 1
        /\ \A i \in 1 .. Len(pending') : pending[i + 1] = pending'[i]
    BY <1>4, RecordIs
  <2>2. Len(pending') \in Nat
    BY <1>1, <1>4, RecordIs, HandlingOK
  <2>3. ASSUME NEW i \in 1 .. Len(pending') PROVE i + 1 \in 1 .. Len(pending) /\ pending'[i] = pending[i + 1]
    BY <2>1, <2>2
  <2> QED BY <1>4, <2>3 DEF Record, userVars, Unread, NoReadEnds
<1>5. CASE Sweep \/ \E f \in Files : ProcessorFails(f)
  <2>1. UNCHANGED <<habits, readers, strays>>
    BY <1>5, OtherSteps
  <2> QED BY <1>1, <1>5, <2>1, SweepIs, StartOverUnread DEF Unread
<1>6. CASE Restart
  BY <1>1, <1>6, StartOverUnread DEF Restart, userVars
<1>7. CASE Tick
  BY <1>1, <1>7, TickIs DEF Tick, userVars, Unread
<1>8. CASE UNCHANGED vars
  BY <1>8 DEF vars, userVars, Unread, pending
<1> QED BY <1>2, <1>3, <1>4, <1>5, <1>6, <1>7, <1>8 DEF Next, Watcher, UserStep

-----------------------------------------------------------------------------
(* A writer is known by its open.                                          *)

\* A history with an open that nothing has ended.
HasOpen(h) ==
  \E k \in 1 .. Len(h) : /\ h[k].op = "opened"
                         /\ \A j \in k .. Len(h) : h[j].op \in {"opened", "modified"}

KeepsOpen(e, f) == ~Removes(e, f) /\ (e.file = f => e.op \in {"opened", "modified"})

\* The open of f is in the decks d, or among the events p, and nothing in p
\* ends it.
KnownOpen(p, d, f) ==
  \E c \in 0 .. Len(p) :
    /\ \A i \in c + 1 .. Len(p) : KeepsOpen(p[i], f)
    /\ c > 0 => p[c].op = "opened" /\ p[c].file = f
    /\ c = 0 => HasOpen(d.deck[f]) \/ HasOpen(d.modDeck[f])

Considerate(h) == h \cap {"read", "rename open"} = {}

OpensAreKnown ==
  ~polling /\ Considerate(habits) /\ stops = 0 =>
    \A f \in writer : KnownOpen(pending, decks, f)

LEMMA HasOpenAppend ==
  ASSUME NEW h \in Seq(Operation), NEW o \in Operation,
         o.op = "opened" \/ (HasOpen(h) /\ o.op = "modified")
  PROVE  HasOpen(Append(h, o))
<1> DEFINE r == Append(h, o)
<1>1. Len(h) \in Nat /\ Len(r) = Len(h) + 1 /\ r[Len(r)] = o /\ \A i \in 1 .. Len(h) : r[i] = h[i]
  OBVIOUS
<1> HIDE DEF r
<1>2. CASE o.op = "opened"
  <2>1. Len(r) \in 1 .. Len(r) /\ \A j \in Len(r) .. Len(r) : j = Len(r)
    BY <1>1
  <2> QED BY <1>1, <1>2, <2>1 DEF HasOpen, r
<1>3. CASE HasOpen(h) /\ o.op = "modified"
  <2>1. PICK k \in 1 .. Len(h) : /\ h[k].op = "opened"
                                 /\ \A j \in k .. Len(h) : h[j].op \in {"opened", "modified"}
    BY <1>3 DEF HasOpen
  <2>2. k \in 1 .. Len(r) /\ r[k].op = "opened"
    BY <1>1, <2>1
  <2>3. \A j \in k .. Len(r) : r[j].op \in {"opened", "modified"}
    BY <1>1, <1>3, <2>1
  <2> QED BY <2>2, <2>3 DEF HasOpen, r
<1> QED BY <1>2, <1>3

LEMMA HasOpenReplace ==
  ASSUME NEW h \in Seq(Operation), NEW o \in Operation, HasOpen(h),
         o.op = "modified", Last(h).op = "modified"
  PROVE  HasOpen(Replace(h, o))
<1> DEFINE r == Replace(h, o)
<1>1. PICK k \in 1 .. Len(h) : /\ h[k].op = "opened"
                               /\ \A j \in k .. Len(h) : h[j].op \in {"opened", "modified"}
  BY DEF HasOpen
<1>2. Len(h) \in Nat /\ k # Len(h)
  BY <1>1 DEF Last
<1>3. Len(r) = Len(h) /\ r[Len(h)] = o /\ \A i \in 1 .. Len(h) - 1 : r[i] = h[i]
  BY <1>1, <1>2 DEF Replace
<1> HIDE DEF r
<1>4. k \in 1 .. Len(r) /\ r[k].op = "opened"
  BY <1>1, <1>2, <1>3
<1>5. \A j \in k .. Len(r) : r[j].op \in {"opened", "modified"}
  BY <1>1, <1>2, <1>3
<1> QED BY <1>4, <1>5 DEF HasOpen, r

\* Recording an open, or a modification after one.
LEMMA RecordedOpen ==
  ASSUME NEW d, DeckOK(d), NEW f \in Files, NEW o \in Operation, NEW e, Effect(d, f, o, e),
         \/ o.op = "opened"
         \/ o.op = "modified" /\ (HasOpen(d.deck[f]) \/ HasOpen(d.modDeck[f]))
  PROVE  HasOpen(e.deck[f]) \/ HasOpen(e.modDeck[f])
<1>1. /\ d.deck[f] \in Seq(Operation) /\ d.modDeck[f] \in Seq(Operation)
      /\ d.deck[f] = <<>> \/ d.modDeck[f] = <<>>
      /\ o.op \in {"opened", "modified"}
  BY DEF DeckOK, Decks, Histories, Agree
<1>2. ~HasOpen(<<>>)
  BY DEF HasOpen
<1>3. CASE d.deck[f] # <<>>
  <2> DEFINE h == d.deck[f]
  <2>1. h \in Seq(Operation) /\ (o.op = "opened" \/ (HasOpen(h) /\ o.op = "modified"))
    BY <1>1, <1>2, <1>3
  <2>2. e.deck[f] = IF AttributesOnly(h, o) THEN h ELSE Extended(h, o)
    BY <1>1, <1>3 DEF Effect
  <2> HIDE DEF h
  <2>3. CASE AttributesOnly(h, o)
    BY <2>1, <2>2, <2>3 DEF AttributesOnly
  <2>4. CASE ~AttributesOnly(h, o) /\ (o.op = "opened" \/ Last(h).op # o.op)
    <3>1. e.deck[f] = Append(h, o)
      BY <2>2, <2>4 DEF Extended
    <3> QED BY <2>1, <3>1, HasOpenAppend
  <2>5. CASE ~AttributesOnly(h, o) /\ o.op # "opened" /\ Last(h).op = o.op
    <3>1. e.deck[f] \in {h, Replace(h, o)}
      BY <2>2, <2>5 DEF Extended
    <3>2. HasOpen(Replace(h, o)) /\ HasOpen(h)
      BY <1>1, <2>1, <2>5, HasOpenReplace
    <3> QED BY <3>1, <3>2
  <2> QED BY <2>3, <2>4, <2>5
<1>4. CASE d.deck[f] = <<>> /\ d.modDeck[f] # <<>>
  <2> DEFINE h == d.modDeck[f]
  <2>1. h \in Seq(Operation) /\ (o.op = "opened" \/ (HasOpen(h) /\ o.op = "modified"))
    BY <1>1, <1>2, <1>4
  <2>2. e.deck[f] = Append(h, o) \/ (e.modDeck[f] = Staged(h, o) /\ ~Promotes(h, o))
    BY <1>1, <1>4 DEF Effect
  <2> HIDE DEF h
  <2>3. HasOpen(Append(h, o))
    BY <2>1, HasOpenAppend
  <2>4. Staged(h, o) = Append(h, o) \/ (Staged(h, o) = Replace(h, o) /\ Last(h).op = o.op /\ o.op # "opened")
    BY DEF Staged
  <2>5. Last(h).op = o.op /\ o.op # "opened" => HasOpen(Replace(h, o))
    BY <1>1, <2>1, HasOpenReplace
  <2> QED BY <2>2, <2>3, <2>4, <2>5, Zenon
<1>5. CASE d.deck[f] = <<>> /\ d.modDeck[f] = <<>>
  <2>1. e.modDeck[f] = <<o>> /\ o.op = "opened"
    BY <1>1, <1>2, <1>5 DEF Effect
  <2>2. HasOpen(<<o>>)
    <3>1. \A x : Len(<<x>>) = 1 /\ <<x>>[1] = x
      OBVIOUS
    <3>2. 1 \in 1 .. 1 /\ \A j \in 1 .. 1 : j = 1
      OBVIOUS
    <3> QED BY <2>1, <3>1, <3>2, Zenon DEF HasOpen
  <2> QED BY <2>1, <2>2
<1> QED BY <1>3, <1>4, <1>5

LEMMA RecordKnown ==
  ASSUME IInv, Stamped, Record, NEW f \in Files, KnownOpen(pending, decks, f)
  PROVE  KnownOpen(pending', decks', f)
<1> DEFINE e == handling.event
           o == handling.as
           d == Pop(decks, Source(e))
           n == Len(pending')
<1>1. /\ e \in Event /\ e.file \in Files /\ o \in Operation /\ o.op = e.op
      /\ DeckOK(decks) /\ DeckOK(d)
      /\ Len(pending) = n + 1 /\ pending[1] = e
      /\ \A i \in 1 .. n : pending[i + 1] = pending'[i]
      /\ e.op # "closed_no_write" => decks' = Recorded(d, e.file, o)
  BY RecordIs
<1>2. n \in Nat
  <2>1. pending' = queue /\ queue \in Seq(Event)
    BY RecordIs, HandlingOK DEF IInv
  <2> QED BY <2>1
<1>3. PICK c \in 0 .. n + 1 :
        /\ \A i \in c + 1 .. n + 1 : KeepsOpen(pending[i], f)
        /\ c > 0 => pending[c].op = "opened" /\ pending[c].file = f
        /\ c = 0 => HasOpen(decks.deck[f]) \/ HasOpen(decks.modDeck[f])
  BY <1>1 DEF KnownOpen
<1>4. CASE c > 1
  <2>1. c - 1 \in 0 .. n /\ c - 1 > 0 /\ pending'[c - 1] = pending[c]
    BY <1>1, <1>2, <1>4
  <2>2. ASSUME NEW i \in (c - 1) + 1 .. n PROVE KeepsOpen(pending'[i], f)
    <3>1. i + 1 \in c + 1 .. n + 1 /\ pending'[i] = pending[i + 1]
      BY <1>1, <1>2, <1>4
    <3> QED BY <1>3, <3>1
  <2> QED BY <1>3, <1>4, <2>1, <2>2 DEF KnownOpen
<1>5. CASE c \in {0, 1}
  <2>1. ASSUME NEW i \in 0 + 1 .. n PROVE KeepsOpen(pending'[i], f)
    <3>1. i + 1 \in c + 1 .. n + 1 /\ pending'[i] = pending[i + 1]
      BY <1>1, <1>2, <1>5
    <3> QED BY <1>3, <3>1
  <2>2. HasOpen(decks'.deck[f]) \/ HasOpen(decks'.modDeck[f])
    <3>1. c = 0 => KeepsOpen(e, f)
      <4>1. 1 \in 0 + 1 .. n + 1
        BY <1>2
      <4> QED BY <1>1, <1>3, <4>1
    <3>2. CASE e.file # f
      <4>1. c = 0
        BY <1>1, <1>3, <1>5, <3>2
      <4>2. ~(e.op = "moved" /\ e.from = f)
        BY <3>1, <3>2, <4>1 DEF KeepsOpen, Removes
      <4>3. decks'.deck[f] = decks.deck[f] /\ decks'.modDeck[f] = decks.modDeck[f]
        BY <3>2, <4>2, RecordOthers
      <4> QED BY <1>3, <4>1, <4>3
    <3>3. CASE e.file = f
      <4>1. \/ o.op = "opened"
            \/ o.op = "modified" /\ (HasOpen(decks.deck[f]) \/ HasOpen(decks.modDeck[f]))
        BY <1>1, <1>3, <1>5, <3>1, <3>3 DEF KeepsOpen
      <4>2. Source(e) = {}
        BY <1>1, <4>1 DEF Source
      <4>3. d.deck[f] = decks.deck[f] /\ d.modDeck[f] = decks.modDeck[f]
        BY <1>1, <4>2, PopIs
      <4>4. Effect(d, f, o, decks')
        BY <1>1, <3>3, <4>1, RecordedIs
      <4> HIDE DEF d, o, e
      <4> QED BY <1>1, <4>1, <4>3, <4>4, RecordedOpen
    <3> QED BY <3>2, <3>3
  <2>3. 0 \in 0 .. n
    BY <1>2
  <2> QED BY <2>1, <2>2, <2>3 DEF KnownOpen
<1>6. c > 1 \/ c \in {0, 1}
  BY <1>2
<1> QED BY <1>4, <1>5, <1>6

LEMMA KnownGrown ==
  ASSUME NEW p \in Seq(Event), NEW r \in Seq(Event), NEW e, Grown(p, r, e), NEW d, NEW f,
         KeepsOpen(e, f), KnownOpen(p, d, f)
  PROVE  KnownOpen(r, d, f)
<1>1. PICK c \in 0 .. Len(p) :
        /\ \A i \in c + 1 .. Len(p) : KeepsOpen(p[i], f)
        /\ c > 0 => p[c].op = "opened" /\ p[c].file = f
        /\ c = 0 => HasOpen(d.deck[f]) \/ HasOpen(d.modDeck[f])
  BY DEF KnownOpen
<1>2. CASE r = p
  BY <1>2
<1>3. CASE /\ Len(r) = Len(p) + 1 /\ r[Len(r)] = e
           /\ \A i \in 1 .. Len(p) : r[i] = p[i]
  <2>1. c \in 0 .. Len(r) /\ (c > 0 => r[c] = p[c])
    BY <1>3
  <2>2. \A i \in c + 1 .. Len(r) : KeepsOpen(r[i], f)
    BY <1>1, <1>3
  <2> QED BY <1>1, <2>1, <2>2 DEF KnownOpen
<1> QED BY <1>2, <1>3 DEF Grown

LEMMA KnownLast ==
  ASSUME NEW r \in Seq(Event), NEW d, NEW f, Len(r) > 0,
         r[Len(r)].op = "opened", r[Len(r)].file = f
  PROVE  KnownOpen(r, d, f)
<1>1. Len(r) \in 0 .. Len(r) /\ ~ (Len(r) = 0) /\ Len(r) + 1 .. Len(r) = {}
  OBVIOUS
<1> QED BY <1>1 DEF KnownOpen

\* The writers of a step that announces e.
LEMMA WritersSaid ==
  ASSUME TypeOK, ~polling, NEW e \in Event, queue' = Enqueue(queue, e),
         UNCHANGED <<handling, decks>>,
         \A g \in writer : KnownOpen(pending, decks, g),
         \A g \in writer' : \/ g \in writer /\ KeepsOpen(e, g)
                            \/ e.op = "opened" /\ e.file = g
  PROVE  \A g \in writer' : KnownOpen(pending', decks', g)
<1>1. /\ pending \in Seq(Event) /\ pending' \in Seq(Event) /\ Grown(pending, pending', e)
      /\ Len(pending') > 0 /\ pending'[Len(pending')] = e
  <2>1. e.op \in Announced
    BY DEF Announced, Event
  <2> QED BY <2>1, Said
<1> TAKE g \in writer'
<1>2. CASE g \in writer /\ KeepsOpen(e, g)
  BY <1>1, <1>2, KnownGrown
<1>3. CASE e.op = "opened" /\ e.file = g
  BY <1>1, <1>3, KnownLast
<1> QED BY <1>2, <1>3

LEMMA UserOpens ==
  ASSUME TypeOK, Unread, OpensAreKnown, UserStep
  PROVE  OpensAreKnown'
<1> PICK f \in Files : Users(f) \/ Closes(f)
  BY DEF UserStep
<1>1. polling' = polling /\ habits' = habits /\ UNCHANGED <<handling, decks, stops>>
  BY UserQueue DEF UserStep, Users, Closes, Create, OpenWrite, Write, OpenRead, MoveIn, Touch, Delete,
                   Rename, CloseWrite, CloseRead
<1> SUFFICES ASSUME ~polling, Considerate(habits), stops = 0
             PROVE  \A g \in writer' : KnownOpen(pending', decks', g)
  BY <1>1 DEF OpensAreKnown
<1> DEFINE Goal == \A g \in writer' : KnownOpen(pending', decks', g)
<1>2. \A op \in Kinds : /\ Ev(op, f) \in Event /\ Ev(op, f).op = op
                        /\ Ev(op, f).file = f /\ Ev(op, f).from = f
  BY EvType DEF Ev
<1>3. \A g \in writer : KnownOpen(pending, decks, g)
  BY DEF OpensAreKnown
<1>4. \A op \in Kinds : \A g \in Files : (g = f => op \in {"opened", "modified"}) => KeepsOpen(Ev(op, f), g)
  BY <1>2 DEF KeepsOpen, Removes
<1>5. writer \subseteq Files /\ writer \subseteq exists
  BY DEF TypeOK
<1>6. CASE Create(f)
  <2> DEFINE q == Enqueue(queue, Ev("created", f))
             p == Pending(q, handling)
  <2>1. queue \in Seq(Event) /\ handling \in InHand /\ q \in Seq(Event) /\ pending \in Seq(Event)
    BY <1>2, HandlingOK, EnqueueType DEF Kinds
  <2>2. p \in Seq(Event) /\ Grown(pending, p, Ev("created", f))
    BY <1>2, <2>1, EnqueueGrows, PendingIs DEF Kinds, pending
  <2>3. pending' = Pending(Enqueue(q, Ev("opened", f)), handling)
    BY <1>1, <1>6 DEF Create, pending
  <2> HIDE DEF q
  <2>4. /\ pending' \in Seq(Event) /\ Grown(p, pending', Ev("opened", f))
        /\ Len(pending') > 0 /\ pending'[Len(pending')] = Ev("opened", f)
    <3>1. Ev("opened", f).op \in Announced
      BY <1>2 DEF Announced, Kinds
    <3> QED BY <1>2, <2>1, <2>3, <3>1, EnqueueGrows DEF Kinds
  <2> HIDE DEF p
  <2>5. writer' = writer \cup {f} /\ f \notin writer
    BY <1>5, <1>6 DEF Create
  <2>6. KnownOpen(pending', decks, f)
    BY <1>2, <2>4, KnownLast DEF Kinds
  <2>7. ASSUME NEW g \in writer PROVE KnownOpen(pending', decks, g)
    <3>1. KeepsOpen(Ev("created", f), g) /\ KeepsOpen(Ev("opened", f), g)
      BY <1>4, <1>5, <2>5 DEF Kinds
    <3>2. KnownOpen(p, decks, g)
      BY <1>3, <2>1, <2>2, <3>1, KnownGrown
    <3> QED BY <2>2, <2>4, <3>1, <3>2, KnownGrown
  <2> QED BY <1>1, <2>5, <2>6, <2>7
<1>7. CASE OpenWrite(f)
  <2>1. queue' = Enqueue(queue, Ev("opened", f)) /\ writer' = writer \cup {f}
    BY <1>7 DEF OpenWrite
  <2> QED BY <1>1, <1>2, <1>3, <1>4, <1>5, <2>1, WritersSaid DEF Kinds
<1>8. CASE Write(f)
  <2>1. queue' = Enqueue(queue, Ev("modified", f)) /\ writer' = writer
    BY <1>8 DEF Write
  <2> QED BY <1>1, <1>2, <1>3, <1>4, <1>5, <2>1, WritersSaid DEF Kinds
<1>9. CASE OpenRead(f)
  BY <1>9, Zenon DEF OpenRead, Considerate
<1>10. CASE MoveIn(f)
  <2>1. queue' = Enqueue(queue, Ev("created", f)) /\ writer' = writer /\ f \notin writer
    BY <1>5, <1>10 DEF MoveIn, Free
  <2> QED BY <1>1, <1>2, <1>3, <1>4, <1>5, <2>1, WritersSaid DEF Kinds
<1>11. CASE Touch(f)
  <2>1. queue' = Enqueue(queue, Ev("modified", f)) /\ writer' = writer
    BY <1>11 DEF Touch, userVars
  <2> QED BY <1>1, <1>2, <1>3, <1>4, <1>5, <2>1, WritersSaid DEF Kinds
<1>12. CASE Delete(f)
  <2>1. queue' = Enqueue(queue, Ev("deleted", f)) /\ writer' = writer /\ f \notin writer
    BY <1>12 DEF Delete
  <2> QED BY <1>1, <1>2, <1>3, <1>4, <1>5, <2>1, WritersSaid DEF Kinds
<1>13. ASSUME NEW g \in Files, Rename(f, g) PROVE Goal
  <2> DEFINE e == [op |-> "moved", file |-> g, from |-> f]
  <2>1. e \in Event /\ e.op = "moved" /\ e.file = g /\ e.from = f
    BY DEF Event, Kinds
  <2>2. queue' = Enqueue(queue, e) /\ f \notin writer /\ g \notin writer /\ writer' = writer
    <3>1. f \notin writer
      BY <1>13, Zenon DEF Rename, Considerate
    <3>2. queue' = Enqueue(queue, e) /\ Free(g) /\ writer' = writer
      BY <1>13, <3>1, Zenon DEF Rename
    <3> QED BY <1>5, <3>1, <3>2 DEF Free
  <2> HIDE DEF e
  <2>3. \A h \in writer : KeepsOpen(e, h)
    BY <2>1, <2>2 DEF KeepsOpen, Removes
  <2> QED BY <1>1, <1>3, <2>1, <2>2, <2>3, WritersSaid
<1>14. CASE CloseWrite(f)
  <2>1. queue' = Enqueue(queue, Ev("closed", f)) /\ writer' = writer \ {f}
    BY <1>14 DEF CloseWrite
  <2> QED BY <1>1, <1>2, <1>3, <1>4, <1>5, <2>1, WritersSaid DEF Kinds
<1>15. CASE CloseRead(f)
  <2>1. "read" \notin habits
    BY Zenon DEF Considerate
  <2>2. readers[f] = 0 /\ strays[f] = 0
    BY <2>1 DEF Unread
  <2>3. readers[f] > 0 \/ strays[f] > 0
    BY <1>15 DEF CloseRead
  <2> QED BY <2>2, <2>3
<1> QED BY <1>6, <1>7, <1>8, <1>9, <1>10, <1>11, <1>12, <1>13, <1>14, <1>15 DEF Users, Closes

\* Time leaves the operations of a history as they are, and their sizes.
LEMMA OlderHistory ==
  ASSUME NEW hs \in Histories, NEW f \in Files
  PROVE  /\ Len(OlderAll(hs)[f]) = Len(hs[f]) /\ OlderAll(hs)[f] \in Seq(Operation)
         /\ \A i \in 1 .. Len(hs[f]) : /\ OlderAll(hs)[f][i].op = hs[f][i].op
                                       /\ OlderAll(hs)[f][i].size = hs[f][i].size
<1>1. hs[f] \in Seq(Operation)
  BY DEF Histories
<1>2. OlderAll(hs)[f] = [i \in 1 .. Len(hs[f]) |-> Older(hs[f][i])]
  BY <1>1 DEF OlderAll
<1>3. OlderAll(hs)[f] \in Seq(Operation)
  BY OlderAllType DEF Histories
<1> DEFINE h == OlderAll(hs)[f]
<1>4. Len(h) = Len(hs[f]) /\ \A i \in 1 .. Len(hs[f]) : h[i] = Older(hs[f][i])
  BY <1>1, <1>2
<1>5. \A i \in 1 .. Len(hs[f]) : hs[f][i] \in Operation
  BY <1>1
<1> HIDE DEF h
<1> QED BY <1>3, <1>4, <1>5, OlderIs DEF h

LEMMA OpenNotDue ==
  ASSUME NEW d, DeckOK(d), ~polling, NEW f, HasOpen(d.deck[f]) \/ HasOpen(d.modDeck[f])
  PROVE  f \notin Due(d)
<1> SUFFICES ASSUME f \in Tracked(d), Ready(d.deck[f]) PROVE FALSE
  BY DEF Due, Reached
<1>1. /\ f \in Files /\ d.deck[f] \in Seq(Operation) /\ d.deck[f] # <<>> /\ d.modDeck[f] = <<>>
  BY DEF Tracked, DeckOK, Agree, Decks, Histories
<1>2. HasOpen(d.deck[f])
  BY <1>1 DEF HasOpen
<1>3. PICK k \in 1 .. Len(d.deck[f]) :
        /\ d.deck[f][k].op = "opened"
        /\ \A j \in k .. Len(d.deck[f]) : d.deck[f][j].op \in {"opened", "modified"}
  BY <1>2 DEF HasOpen
<1>4. Last(d.deck[f]).op \in {"opened", "modified"}
  BY <1>1, <1>3, LastType
<1>5. k \in DOMAIN d.deck[f]
  BY <1>1
<1> QED BY <1>3, <1>4, <1>5 DEF Ready

LEMMA OpensNext == IInv /\ Stamped /\ Unread /\ OpensAreKnown /\ [Next]_vars => OpensAreKnown'
<1> SUFFICES ASSUME IInv, Stamped, Unread, OpensAreKnown, [Next]_vars PROVE OpensAreKnown'
  OBVIOUS
<1>1. TypeOK /\ DeckOK(decks)
  BY Parting DEF IInv
<1>2. CASE UserStep
  BY <1>1, <1>2, UserOpens
<1>3. CASE Stamp
  BY <1>1, <1>3, StampKeepsPending DEF Stamp, userVars, OpensAreKnown
<1>4. CASE Record
  <2>1. UNCHANGED <<polling, habits, stops, writer>>
    BY <1>4 DEF Record, userVars
  <2>2. writer \subseteq Files
    BY <1>1 DEF TypeOK
  <2> QED BY <1>4, <2>1, <2>2, RecordKnown DEF OpensAreKnown
<1>5. CASE Sweep \/ \E f \in Files : ProcessorFails(f)
  <2>1. UNCHANGED <<polling, habits, writer>> /\ stops \in Nat
    BY <1>1, <1>5, OtherSteps DEF TypeOK
  <2>2. CASE stops' = stops + 1
    <3>1. stops' # 0
      BY <2>1, <2>2
    <3> QED BY <3>1 DEF OpensAreKnown
  <2>3. ASSUME NEW S \in SUBSET Due(decks), decks' = Remaining(decks, S), pending' = pending, stops' = stops
        PROVE  OpensAreKnown'
    <3> SUFFICES ASSUME ~polling, NEW f \in writer, KnownOpen(pending, decks, f)
                 PROVE  KnownOpen(pending', decks', f)
      BY <2>1, <2>3 DEF OpensAreKnown
    <3>1. f \in Files
      BY <1>1 DEF TypeOK
    <3>2. ASSUME HasOpen(decks.deck[f]) \/ HasOpen(decks.modDeck[f])
          PROVE  HasOpen(decks'.deck[f]) \/ HasOpen(decks'.modDeck[f])
      <4>1. f \notin S
        BY <1>1, <2>3, <3>2, OpenNotDue
      <4> QED BY <1>1, <2>3, <3>1, <3>2, <4>1, RemainingIs
    <3> QED BY <2>3, <3>2 DEF KnownOpen
  <2>4. stops' = stops + 1
        \/ \E S \in SUBSET Due(decks) : decks' = Remaining(decks, S) /\ pending' = pending
                                        /\ stops' \in {stops, stops + 1}
    BY <1>5, SweepIs
  <2> QED BY <2>2, <2>3, <2>4
<1>6. CASE Restart
  <2>1. stops' # 0
    BY <1>1, <1>6 DEF Restart, TypeOK
  <2> QED BY <2>1 DEF OpensAreKnown
<1>7. CASE Tick
  <2>1. /\ decks'.deck = OlderAll(decks.deck) /\ decks'.modDeck = OlderAll(decks.modDeck)
        /\ pending' = pending
    BY <1>1, <1>7, TickIs
  <2>2. decks.deck \in Histories /\ decks.modDeck \in Histories
    BY <1>1 DEF DeckOK, Decks
  <2>3. ASSUME NEW hs \in Histories, NEW f \in Files, HasOpen(hs[f]) PROVE HasOpen(OlderAll(hs)[f])
    <3> DEFINE h == hs[f]
               r == OlderAll(hs)[f]
    <3>1. Len(r) = Len(h) /\ \A i \in 1 .. Len(h) : r[i].op = h[i].op
      BY OlderHistory
    <3>2. h \in Seq(Operation)
      BY DEF Histories
    <3> HIDE DEF h, r
    <3>3. PICK k \in 1 .. Len(h) : /\ h[k].op = "opened"
                                   /\ \A j \in k .. Len(h) : h[j].op \in {"opened", "modified"}
      BY <2>3 DEF HasOpen, h
    <3> QED BY <3>1, <3>2, <3>3 DEF HasOpen, r
  <2>4. \A f \in writer : KnownOpen(pending, decks, f) => KnownOpen(pending', decks', f)
    <3>1. writer \subseteq Files
      BY <1>1 DEF TypeOK
    <3> QED BY <2>1, <2>2, <2>3, <3>1 DEF KnownOpen
  <2> QED BY <1>7, <2>4 DEF Tick, userVars, OpensAreKnown
<1>8. CASE UNCHANGED vars
  BY <1>8 DEF vars, userVars, OpensAreKnown, pending
<1> QED BY <1>2, <1>3, <1>4, <1>5, <1>6, <1>7, <1>8 DEF Next, Watcher, UserStep

(* Of users who do not read no read is ever reported, and the open of      *)
(* every writer is in the decks, or on its way with nothing behind it that *)
(* ends it.                                                                *)
THEOREM WritersKnown == Spec => [](Unread /\ OpensAreKnown)
<1>1. Init => Unread /\ OpensAreKnown
  BY DEF Init, Unread, NoReadEnds, OpensAreKnown, pending, Pending
<1>2. IInv /\ Stamped /\ Unread /\ OpensAreKnown /\ [Next]_vars => (Unread /\ OpensAreKnown)'
  BY UnreadNext, OpensNext
<1> QED BY <1>1, <1>2, Invariance, GoneInvariance, PTL DEF Spec

(* Under inotify, once all events are in, no file is due that somebody     *)
(* writes, if the users neither read nor rename what is being written and  *)
(* the process has not started over.                                       *)
THEOREM WritersAreAlwaysLeftAlone == Spec => []WritersAreLeftAlone
<1>1. IInv /\ OpensAreKnown => WritersAreLeftAlone
  <2> SUFFICES ASSUME IInv, OpensAreKnown, ~polling, Considerate(habits),
                      CaughtUp, stops = 0, NEW f \in writer, f \in Due(decks)
               PROVE  FALSE
    BY DEF WritersAreLeftAlone, OpensAreCounted, Considerate
  <2>1. KnownOpen(pending, decks, f)
    BY DEF OpensAreKnown
  <2>2. pending = <<>>
    BY DEF CaughtUp, pending, Pending
  <2>3. HasOpen(decks.deck[f]) \/ HasOpen(decks.modDeck[f])
    BY <2>1, <2>2 DEF KnownOpen
  <2>4. DeckOK(decks)
    BY Parting
  <2>5. f \notin Due(decks)
    BY <2>3, <2>4, OpenNotDue
  <2> QED BY <2>5
<1> QED BY <1>1, Invariance, WritersKnown, PTL

-----------------------------------------------------------------------------
(* Histories that make a file complete.                                    *)

\* A history that ends in what makes a file complete, but for at most n opens.
Concluded(h, n, s) ==
  \E k \in 1 .. Len(h) :
    /\ h[k].op = "closed" \/ \A i \in 1 .. k : h[i].op \in {"created", "moved"}
    /\ h[k].size = s
    /\ \A j \in k + 1 .. Len(h) : h[j].op = "opened" /\ h[j].size = s
    /\ Len(h) - k <= n

\* A closed history, and the only entry of one.
LEMMA ConcludedNow ==
  ASSUME NEW h \in Seq(Operation), h # <<>>, NEW n \in Nat,
         Last(h).op = "closed" \/ (Len(h) = 1 /\ Last(h).op \in {"created", "moved"})
  PROVE  Concluded(h, n, Last(h).size)
<1> DEFINE l == Last(h)
           m == Len(h)
<1>1. m \in 1 .. m /\ l = h[m] /\ m + 1 .. m = {} /\ m - m <= n /\ m \in Nat
  BY DEF Last
<1>2. l.op = "closed" \/ \A i \in 1 .. m : h[i].op \in {"created", "moved"}
  BY <1>1
<1> HIDE DEF l, m
<1> QED BY <1>1, <1>2 DEF Concluded, l, m

LEMMA ConcludedLast ==
  ASSUME NEW h \in Seq(Operation), NEW n, NEW s, Concluded(h, n, s)
  PROVE  h # <<>> /\ Last(h).size = s
<1>1. PICK k \in 1 .. Len(h) :
        /\ h[k].size = s
        /\ \A j \in k + 1 .. Len(h) : h[j].op = "opened" /\ h[j].size = s
  BY DEF Concluded
<1>2. Len(h) \in Nat /\ (Len(h) = k \/ Len(h) \in k + 1 .. Len(h))
  BY <1>1
<1> QED BY <1>1, <1>2 DEF Last

LEMMA ConcludedOpened ==
  ASSUME NEW h \in Seq(Operation), NEW n \in Nat, NEW o \in Operation, Concluded(h, n, o.size),
         o.op = "opened"
  PROVE  Concluded(Append(h, o), n + 1, o.size)
<1> DEFINE r == Append(h, o)
           s == o.size
<1>1. PICK k \in 1 .. Len(h) :
        /\ h[k].op = "closed" \/ \A i \in 1 .. k : h[i].op \in {"created", "moved"}
        /\ h[k].size = s
        /\ \A j \in k + 1 .. Len(h) : h[j].op = "opened" /\ h[j].size = s
        /\ Len(h) - k <= n
  BY DEF Concluded
<1>2. Len(h) \in Nat /\ Len(r) = Len(h) + 1 /\ r[Len(r)] = o /\ \A i \in 1 .. Len(h) : r[i] = h[i]
  OBVIOUS
<1> HIDE DEF r
<1>3. k \in 1 .. Len(r) /\ r[k] = h[k] /\ \A i \in 1 .. k : r[i] = h[i]
  BY <1>1, <1>2
<1>4. ASSUME NEW j \in k + 1 .. Len(r) PROVE r[j].op = "opened" /\ r[j].size = s
  <2>1. j = Len(r) \/ j \in k + 1 .. Len(h)
    BY <1>2
  <2> QED BY <1>1, <1>2, <2>1
<1>5. Len(r) - k <= n + 1
  BY <1>1, <1>2
<1> QED BY <1>1, <1>3, <1>4, <1>5 DEF Concluded, r

LEMMA RetractedIs ==
  ASSUME NEW h \in Seq(Operation)
  PROVE  \/ Retracted(h) = h /\ \A i \in 1 .. Len(h) : ~LatestOpen(h, i)
         \/ \E k \in 1 .. Len(h) :
              /\ LatestOpen(h, k) /\ Len(Retracted(h)) = Len(h) - 1
              /\ \A i \in 1 .. k - 1 : Retracted(h)[i] = h[i]
              /\ \A i \in k .. Len(h) - 1 : Retracted(h)[i] = h[i + 1]
<1>1. CASE \E k \in DOMAIN h : LatestOpen(h, k)
  <2> DEFINE k == CHOOSE i \in DOMAIN h : LatestOpen(h, i)
  <2>1. k \in 1 .. Len(h) /\ LatestOpen(h, k)
    BY <1>1
  <2>2. Retracted(h) = SubSeq(h, 1, k - 1) \o SubSeq(h, k + 1, Len(h))
    BY <1>1 DEF Retracted, RemoveAt
  <2> HIDE DEF k
  <2> DEFINE a == SubSeq(h, 1, k - 1)
             b == SubSeq(h, k + 1, Len(h))
             n == Len(h)
  <2>3. /\ a \in Seq(Operation) /\ Len(a) = k - 1 /\ \A i \in 1 .. k - 1 : a[i] = h[i]
    <3>1. \A i \in 1 .. k - 1 : h[i] \in Operation
      BY <2>1
    <3> QED BY <2>1, <3>1, SubSeqProperties
  <2>4. /\ b \in Seq(Operation) /\ Len(b) = n - k /\ \A i \in 1 .. n - k : b[i] = h[k + i]
    <3>1. \A i \in k + 1 .. n : h[i] \in Operation
      BY <2>1
    <3>2. b \in Seq(Operation)
      BY <2>1, <3>1, SubSeqProperties
    <3>3. /\ Len(b) = IF k + 1 <= n THEN n - (k + 1) + 1 ELSE 0
          /\ \A i \in 1 .. n - (k + 1) + 1 : b[i] = h[k + 1 + i - 1]
      BY <2>1, <3>1, SubSeqProperties
    <3>4. n \in Nat /\ k \in 1 .. n
      BY <2>1
    <3> HIDE DEF b, n
    <3>5. Len(b) = n - k
      BY <3>3, <3>4
    <3>6. \A i \in 1 .. n - k : i \in 1 .. n - (k + 1) + 1 /\ k + 1 + i - 1 = k + i
      BY <3>4
    <3> QED BY <3>2, <3>3, <3>5, <3>6
  <2> HIDE DEF a, b
  <2> DEFINE r == a \o b
  <2>5. /\ Len(r) = Len(a) + Len(b) /\ \A i \in 1 .. Len(a) : r[i] = a[i]
        /\ \A i \in Len(a) + 1 .. Len(a) + Len(b) : r[i] = b[i - Len(a)]
    <3>1. a \in Seq(Operation) /\ b \in Seq(Operation)
      BY <2>3, <2>4
    <3>2. Len(r) = Len(a) + Len(b)
      BY <3>1
    <3>3. \A i \in 1 .. Len(a) : r[i] = a[i]
      BY <3>1
    <3>4. \A i \in Len(a) + 1 .. Len(a) + Len(b) : r[i] = b[i - Len(a)]
      BY <3>1
    <3> QED BY <3>2, <3>3, <3>4
  <2> HIDE DEF r
  <2>6. n \in Nat /\ k \in 1 .. n
    BY <2>1
  <2> HIDE DEF n
  <2>7. Len(r) = n - 1 /\ \A i \in 1 .. k - 1 : r[i] = h[i]
    BY <2>3, <2>4, <2>5, <2>6
  <2>8. ASSUME NEW i \in k .. n - 1 PROVE r[i] = h[i + 1]
    <3>1. i \in Len(a) + 1 .. Len(a) + Len(b) /\ i - Len(a) = i - k + 1 /\ i - k + 1 \in 1 .. n - k
          /\ k + (i - k + 1) = i + 1
      BY <2>3, <2>4, <2>6
    <3> QED BY <2>4, <2>5, <3>1
  <2>9. Retracted(h) = r
    BY <2>2 DEF r, a, b
  <2> QED BY <2>1, <2>7, <2>8, <2>9 DEF n
<1>2. CASE ~ \E k \in DOMAIN h : LatestOpen(h, k)
  BY <1>2 DEF Retracted
<1> QED BY <1>1, <1>2

LEMMA ConcludedRetracted ==
  ASSUME NEW h \in Seq(Operation), NEW n \in Nat, n > 0, NEW s, Concluded(h, n, s)
  PROVE  Concluded(Retracted(h), n - 1, s)
<1> DEFINE r == Retracted(h)
           m == Len(h)
<1>1. PICK k \in 1 .. m :
        /\ h[k].op = "closed" \/ \A i \in 1 .. k : h[i].op \in {"created", "moved"}
        /\ h[k].size = s
        /\ \A j \in k + 1 .. m : h[j].op = "opened" /\ h[j].size = s
        /\ m - k <= n
  BY DEF Concluded
<1>2. m \in Nat /\ DOMAIN h = 1 .. m
  OBVIOUS
<1>3. \/ r = h /\ \A i \in 1 .. m : ~LatestOpen(h, i)
      \/ \E l \in 1 .. m :
           /\ LatestOpen(h, l) /\ Len(r) = m - 1
           /\ \A i \in 1 .. l - 1 : r[i] = h[i]
           /\ \A i \in l .. m - 1 : r[i] = h[i + 1]
  BY RetractedIs
<1> HIDE DEF r, m
<1>4. k < m => LatestOpen(h, m)
  <2> SUFFICES ASSUME k < m PROVE LatestOpen(h, m)
    OBVIOUS
  <2>1. m \in k + 1 .. m /\ \A j \in 1 .. m : ~(j > m)
    BY <1>2
  <2> QED BY <1>1, <1>2, <2>1 DEF LatestOpen
<1>5. CASE r = h /\ \A i \in 1 .. m : ~LatestOpen(h, i)
  <2>1. k = m /\ Len(r) = m
    <3>1. m \in 1 .. m
      BY <1>2
    <3>2. ~(k < m)
      BY <1>4, <1>5, <3>1
    <3>3. k = m
      BY <1>2, <3>2
    <3>4. Len(r) = m
      BY <1>5, Zenon DEF m
    <3> QED BY <3>3, <3>4
  <2>2. m - k <= n - 1 /\ k + 1 .. m = {}
    BY <1>2, <2>1
  <2> QED BY <1>1, <1>5, <2>1, <2>2 DEF Concluded, r
<1>6. ASSUME NEW l \in 1 .. m, LatestOpen(h, l), Len(r) = m - 1,
             \A i \in 1 .. l - 1 : r[i] = h[i], \A i \in l .. m - 1 : r[i] = h[i + 1]
      PROVE  Concluded(r, n - 1, s)
  <2>1. CASE k < m
    <3>1. l = m
      <4>1. h[m].op = "opened" /\ m \in DOMAIN h
        BY <1>2, <1>4, <2>1 DEF LatestOpen
      <4>2. ~(m > l)
        BY <1>6, <4>1 DEF LatestOpen
      <4> QED BY <1>2, <4>2
    <3>2. k \in 1 .. m - 1 /\ \A i \in 1 .. m - 1 : r[i] = h[i]
      BY <1>2, <1>6, <2>1, <3>1
    <3>3. \A i \in 1 .. k : i \in 1 .. m - 1
      BY <1>2, <2>1
    <3>4. \A j \in k + 1 .. m - 1 : r[j].op = "opened" /\ r[j].size = s
      BY <1>1, <1>2, <3>2
    <3>5. (m - 1) - k <= n - 1
      BY <1>1, <1>2
    <3>6. r[k].op = "closed" \/ \A i \in 1 .. k : r[i].op \in {"created", "moved"}
      BY <1>1, <3>2, <3>3
    <3> QED BY <1>1, <1>6, <3>2, <3>4, <3>5, <3>6 DEF Concluded
  <2>2. CASE k = m
    <3>1. h[l].op = "opened"
      BY <1>6 DEF LatestOpen
    <3>2. h[m].op = "closed" /\ l < m
      BY <1>1, <1>2, <2>2, <3>1
    <3>3. m - 1 \in l .. m - 1 /\ m - 1 \in 1 .. m - 1 /\ (m - 1) + 1 = m
      BY <1>2, <3>2
    <3>4. r[m - 1] = h[m]
      BY <1>6, <3>3
    <3>5. (m - 1) + 1 .. m - 1 = {} /\ (m - 1) - (m - 1) <= n - 1
      BY <1>2
    <3> QED BY <1>1, <1>6, <2>2, <3>2, <3>3, <3>4, <3>5 DEF Concluded
  <2> QED BY <1>2, <2>1, <2>2
<1> QED BY <1>3, <1>5, <1>6 DEF r

\* A tracked file with such a history is ready.
LEMMA ConcludedReady ==
  ASSUME NEW h \in Seq(Operation), NEW s, Concluded(h, 0, s)
  PROVE  h # <<>> /\ Ready(h)
<1>1. PICK k \in 1 .. Len(h) :
        /\ h[k].op = "closed" \/ \A i \in 1 .. k : h[i].op \in {"created", "moved"}
        /\ Len(h) - k <= 0
  BY DEF Concluded
<1>2. k = Len(h) /\ h # <<>> /\ DOMAIN h = 1 .. Len(h)
  BY <1>1
<1> QED BY <1>1, <1>2 DEF Ready, Last

-----------------------------------------------------------------------------
(* What Record makes of the events that make a file complete and of those  *)
(* that leave it so.                                                       *)

\* An event that takes nothing back of what makes f complete, and what it
\* does to the number of those known to have f open.
Calm(e, f) == ~Removes(e, f) /\ (e.file = f => e.op \in {"opened", "modified", "closed_no_write"})
Shift(e, f) == IF e.file # f THEN 0
               ELSE IF e.op = "opened" THEN 1
               ELSE IF e.op = "closed_no_write" THEN -1
               ELSE 0

LEMMA RecordedClosed ==
  ASSUME NEW d, DeckOK(d), NEW f \in Files, NEW o \in Operation, NEW e, Effect(d, f, o, e),
         o.op = "closed"
  PROVE  /\ e.deck[f] \in Seq(Operation) /\ e.deck[f] # <<>>
         /\ Last(e.deck[f]).op = "closed" /\ Last(e.deck[f]).size = o.size
<1>1. d.deck[f] \in Seq(Operation) /\ d.modDeck[f] \in Seq(Operation)
  BY DEF DeckOK, Decks, Histories
<1>2. CASE d.deck[f] # <<>>
  <2> DEFINE h == d.deck[f]
             r == Extended(h, o)
  <2>1. e.deck[f] = r
    BY <1>2 DEF Effect, AttributesOnly
  <2>2. r \in Seq(Operation) /\ r # <<>> /\ Last(r).op = "closed"
    BY <1>1, <1>2, ExtendedType, ExtendedLast
  <2>3. Last(Append(h, o)) = o /\ Last(Replace(h, o)) = o
    <3> HIDE DEF h
    <3>1. h \in Seq(Operation) /\ h # <<>>
      BY <1>1, <1>2 DEF h
    <3> QED BY <3>1 DEF Last, Replace
  <2>4. Last(r).size = o.size
    <3> DEFINE a == Append(h, o)
               p == Replace(h, o)
               l == Last(h)
    <3>1. r = IF l.op # o.op \/ o.op = "opened" THEN a
              ELSE IF (o.op # "closed" /\ o.age < l.age) \/ o.size # l.size THEN p
              ELSE h
      BY DEF Extended
    <3> HIDE DEF a, p, l, r
    <3> QED BY <2>3, <3>1 DEF a, p, l
  <2> HIDE DEF r
  <2> QED BY <2>1, <2>2, <2>4
<1>3. CASE d.deck[f] = <<>> /\ d.modDeck[f] # <<>>
  <2>1. e.deck[f] = Append(d.modDeck[f], o)
    BY <1>3 DEF Effect, Promotes
  <2> QED BY <1>1, <2>1, AppendProperties DEF Last
<1>4. CASE d.deck[f] = <<>> /\ d.modDeck[f] = <<>>
  <2>1. e.deck[f] = <<o>>
    BY <1>4 DEF Effect
  <2>2. <<o>> \in Seq(Operation) /\ <<o>> # <<>> /\ Last(<<o>>) = o
    BY DEF Last
  <2> QED BY <2>1, <2>2
<1> QED BY <1>2, <1>3, <1>4

\* What Record makes of the event that makes f complete.
LEMMA RecordConcludes ==
  ASSUME IInv, Stamped, Record, NEW f \in Files, handling.event.file = f,
         \/ handling.event.op = "closed"
         \/ handling.event.op \in {"created", "moved"} /\ f \notin Held(decks),
         NEW n \in Nat
  PROVE  Concluded(decks'.deck[f], n, handling.as.size)
<1> DEFINE e == handling.event
           o == handling.as
           d == Pop(decks, Source(e))
<1>1. /\ o \in Operation /\ o.op = e.op /\ DeckOK(decks) /\ DeckOK(d)
      /\ e.op # "closed_no_write" => decks' = Recorded(d, f, o)
  BY RecordIs
<1>2. Effect(d, f, o, decks')
  BY <1>1, RecordedIs
<1>3. CASE e.op = "closed"
  <2> DEFINE h == decks'.deck[f]
  <2>1. h \in Seq(Operation) /\ h # <<>> /\ Last(h).op = "closed" /\ Last(h).size = o.size
    <3> HIDE DEF d, o, e
    <3> QED BY <1>1, <1>2, <1>3, RecordedClosed
  <2> HIDE DEF h
  <2>2. Concluded(h, n, Last(h).size)
    BY <2>1, ConcludedNow
  <2> QED BY <2>1, <2>2 DEF h
<1>4. CASE e.op \in {"created", "moved"} /\ f \notin Held(decks)
  <2>1. decks.deck[f] = <<>> /\ decks.modDeck[f] = <<>>
    BY <1>4 DEF Held
  <2>2. d.deck[f] = <<>> /\ d.modDeck[f] = <<>>
    BY <1>1, <2>1, PopIs
  <2>3. decks'.deck[f] = <<o>>
    <3> HIDE DEF d, o, e
    <3> QED BY <1>1, <1>2, <1>4, <2>2 DEF Effect
  <2>4. <<o>> \in Seq(Operation) /\ <<o>> # <<>> /\ Last(<<o>>) = o /\ Len(<<o>>) = 1
    BY <1>1 DEF Last
  <2>5. Concluded(<<o>>, n, o.size)
    <3> HIDE DEF o, e
    <3> QED BY <1>1, <1>4, <2>4, ConcludedNow
  <2> QED BY <2>3, <2>5
<1> QED BY <1>3, <1>4

\* What it makes of any other.
LEMMA RecordCalm ==
  ASSUME IInv, Stamped, Record, NEW f \in Files, Calm(handling.event, f),
         NEW n \in Nat, NEW s, s > 0, Concluded(decks.deck[f], n, s),
         handling.event.file = f => handling.as.size = s,
         NEW m \in Nat, m = n + Shift(handling.event, f)
  PROVE  Concluded(decks'.deck[f], m, s)
<1> DEFINE e == handling.event
           o == handling.as
           d == Pop(decks, Source(e))
           h == decks.deck[f]
<1>1. /\ o \in Operation /\ o.op = e.op /\ DeckOK(decks) /\ DeckOK(d)
      /\ e.op = "closed_no_write" => decks' = ReadEnded(decks, e.file)
      /\ e.op # "closed_no_write" => decks' = Recorded(d, e.file, o)
  BY RecordIs
<1>2. h \in Seq(Operation) /\ h # <<>> /\ Last(h).size = s
  <2>1. h \in Seq(Operation)
    BY <1>1 DEF DeckOK, Decks, Histories
  <2> HIDE DEF h
  <2> QED BY <2>1, ConcludedLast DEF h
<1>3. CASE e.file # f
  <2>1. m = n
    BY <1>3 DEF Shift
  <2>2. ~(e.op = "moved" /\ e.from = f)
    BY <1>3 DEF Calm, Removes
  <2>3. decks'.deck[f] = h
    BY <1>3, <2>2, RecordOthers
  <2> QED BY <2>1, <2>3
<1>4. CASE e.file = f /\ e.op = "closed_no_write"
  <2>1. decks'.deck[f] = Retracted(h)
    BY <1>1, <1>4, ReadEndedIs
  <2>2. Shift(e, f) = -1
    BY <1>4 DEF Shift
  <2> HIDE DEF h, e
  <2>3. n > 0 /\ m = n - 1
    BY <2>2 DEF e
  <2> QED BY <1>2, <2>1, <2>3, ConcludedRetracted DEF h
<1>5. CASE e.file = f /\ e.op \in {"opened", "modified"}
  <2>1. Source(e) = {}
    BY <1>5 DEF Source
  <2>2. d.deck[f] = h
    BY <1>1, <2>1, PopIs
  <2>3. Effect(d, f, o, decks')
    BY <1>1, <1>5, RecordedIs
  <2>4. decks'.deck[f] = IF AttributesOnly(h, o) THEN h ELSE Extended(h, o)
    <3> HIDE DEF d, o, e, h
    <3> QED BY <1>1, <1>2, <1>5, <2>2, <2>3 DEF Effect
  <2>5. o.size = s
    BY <1>5
  <2>6. CASE e.op = "modified"
    <3>1. AttributesOnly(h, o)
      <4> HIDE DEF h, o, e
      <4> QED BY <1>1, <1>2, <2>5, <2>6 DEF AttributesOnly
    <3>2. Shift(e, f) = 0
      BY <1>5, <2>6 DEF Shift
    <3>3. m = n
      BY <3>2
    <3> QED BY <2>4, <3>1, <3>3
  <2>7. CASE e.op = "opened"
    <3>1. decks'.deck[f] = Append(h, o)
      <4> HIDE DEF h, o, e
      <4> QED BY <1>1, <2>4, <2>7 DEF AttributesOnly, Extended
    <3>2. Shift(e, f) = 1
      BY <1>5, <2>7 DEF Shift
    <3>3. m = n + 1
      BY <3>2
    <3>4. Concluded(Append(h, o), n + 1, o.size)
      <4> HIDE DEF h, o, e
      <4> QED BY <1>1, <1>2, <2>5, <2>7, ConcludedOpened DEF h
    <3> QED BY <2>5, <3>1, <3>3, <3>4
  <2> QED BY <1>5, <2>6, <2>7
<1> QED BY <1>3, <1>4, <1>5 DEF Calm

-----------------------------------------------------------------------------
(* A file left alone is complete, or an event that makes it so is on its   *)
(* way.                                                                    *)

\* The event c of p makes f complete, for decks d that will not know f then
\* unless it is a close.
Conclusive(p, d, c, f) ==
  /\ p[c].file = f
  /\ \/ p[c].op = "closed"
     \/ p[c].op \in {"created", "moved"} /\ Leaves(p, d, c - 1, f)

\* From the event c on, or from the decks as they are, f is complete with the
\* size s, and b counts those known to have it open after each event.
Course(p, d, f, s, c, b) ==
  /\ \A i \in c + 1 .. Len(p) : Calm(p[i], f) /\ b[i] = b[i - 1] + Shift(p[i], f)
  /\ c > 0 => Conclusive(p, d, c, f)
  /\ c = 0 => Concluded(d.deck[f], b[0], s)

\* In the end they are n.  If what is in hand matters, it was seen right.
Coming(p, d, f, n, s, seen) ==
  \E c \in 0 .. Len(p) : \E b \in [c .. Len(p) -> Nat] :
    b[Len(p)] = n /\ Course(p, d, f, s, c, b) /\ (c <= 1 => seen)

LEMMA ComingGrown ==
  ASSUME NEW p \in Seq(Event), NEW r \in Seq(Event), NEW e, NEW f, Calm(e, f),
         Len(r) = Len(p) + 1, r[Len(r)] = e, \A i \in 1 .. Len(p) : r[i] = p[i],
         NEW d, NEW n \in Nat, NEW s, NEW seen, Coming(p, d, f, n, s, seen),
         NEW m \in Nat, m = n + Shift(e, f)
  PROVE  Coming(r, d, f, m, s, seen)
<1>1. PICK c \in 0 .. Len(p) : \E b \in [c .. Len(p) -> Nat] :
        b[Len(p)] = n /\ Course(p, d, f, s, c, b) /\ (c <= 1 => seen)
  BY DEF Coming
<1>2. PICK b \in [c .. Len(p) -> Nat] :
        b[Len(p)] = n /\ Course(p, d, f, s, c, b) /\ (c <= 1 => seen)
  BY <1>1
<1> DEFINE k == Len(p)
           a == [i \in c .. k + 1 |-> IF i = k + 1 THEN m ELSE b[i]]
<1>3. /\ k \in Nat /\ c \in 0 .. k /\ c \in 0 .. k + 1 /\ Len(r) = k + 1
      /\ r[k + 1] = e /\ \A i \in 1 .. k : r[i] = p[i]
  OBVIOUS
<1>4. \A i \in c .. k : b[i] \in Nat
  OBVIOUS
<1>5. b[k] = n
  BY <1>2
<1> HIDE DEF k
<1>6. a \in [c .. k + 1 -> Nat]
  BY <1>3, <1>4
<1>7. a[k + 1] = m /\ \A i \in c .. k : a[i] = b[i]
  BY <1>3
<1> HIDE DEF a
<1>8. ASSUME NEW i \in c + 1 .. k + 1 PROVE Calm(r[i], f) /\ a[i] = a[i - 1] + Shift(r[i], f)
  <2>1. CASE i = k + 1
    <3>1. a[i - 1] = n
      BY <1>3, <1>5, <1>7, <2>1
    <3> QED BY <1>3, <1>7, <2>1, <3>1
  <2>2. CASE i # k + 1
    <3>1. i \in c + 1 .. k /\ i \in 1 .. k /\ i \in c .. k /\ i - 1 \in c .. k
      BY <1>3, <2>2
    <3> QED BY <1>2, <1>3, <1>7, <3>1 DEF Course, k
  <2> QED BY <2>1, <2>2
<1>9. ASSUME c > 0 PROVE Conclusive(r, d, c, f)
  <2>1. r[c] = p[c] /\ \A i \in 1 .. c - 1 : r[i] = p[i]
    BY <1>3, <1>9
  <2>2. Conclusive(p, d, c, f)
    BY <1>2, <1>9 DEF Course
  <2>3. c - 1 \in Nat
    BY <1>3, <1>9
  <2>4. Leaves(p, d, c - 1, f) => Leaves(r, d, c - 1, f)
    BY <2>1, <2>3, LeavesPrefix
  <2> QED BY <2>1, <2>2, <2>4 DEF Conclusive
<1>10. c = 0 => Concluded(d.deck[f], a[0], s)
  BY <1>2, <1>3, <1>7 DEF Course
<1>11. Course(r, d, f, s, c, a)
  BY <1>3, <1>8, <1>9, <1>10 DEF Course
<1> QED BY <1>2, <1>3, <1>6, <1>7, <1>11 DEF Coming

LEMMA ComingLast ==
  ASSUME NEW r \in Seq(Event), Len(r) > 0, NEW d, NEW f, Conclusive(r, d, Len(r), f),
         NEW n \in Nat, NEW s, NEW seen, Len(r) = 1 => seen
  PROVE  Coming(r, d, f, n, s, seen)
<1> DEFINE k == Len(r)
           b == [i \in k .. k |-> n]
<1>0. k \in Nat /\ k > 0
  OBVIOUS
<1> HIDE DEF k
<1>1. k \in Nat /\ k > 0 /\ k \in 0 .. k /\ (\A i \in k + 1 .. k : FALSE) /\ (k <= 1 => k = 1)
  BY <1>0
<1>2. b \in [k .. k -> Nat] /\ b[k] = n
  BY <1>1
<1> HIDE DEF b
<1>3. Course(r, d, f, s, k, b)
  BY <1>1 DEF Course, k
<1> QED BY <1>1, <1>2, <1>3 DEF Coming, k

LEMMA ComingRecord ==
  ASSUME IInv, Stamped, Record, NEW f \in Files, NEW n \in Nat, NEW s, s > 0, NEW seen,
         Coming(pending, decks, f, n, s, seen),
         seen => (handling.event.file = f => handling.as.size = s)
  PROVE  Coming(pending', decks', f, n, s, TRUE)
<1> DEFINE N == Len(pending')
           e == handling.event
<1>1. /\ Len(pending) = N + 1 /\ pending[1] = e
      /\ \A i \in 1 .. N : pending[i + 1] = pending'[i]
  BY RecordIs
<1>2. N \in Nat
  <2>1. pending' = queue /\ queue \in Seq(Event)
    BY RecordIs, HandlingOK DEF IInv
  <2> QED BY <2>1
<1>3. PICK c \in 0 .. N + 1 : \E b \in [c .. N + 1 -> Nat] :
        b[N + 1] = n /\ Course(pending, decks, f, s, c, b) /\ (c <= 1 => seen)
  BY <1>1 DEF Coming
<1>4. PICK b \in [c .. N + 1 -> Nat] :
        b[N + 1] = n /\ Course(pending, decks, f, s, c, b) /\ (c <= 1 => seen)
  BY <1>3
<1> DEFINE k == IF c = 0 THEN 0 ELSE c - 1
           a == [i \in k .. N |-> b[i + 1]]
<1> HIDE DEF N, e
<1>5. k \in 0 .. N /\ \A i \in k .. N : i + 1 \in c .. N + 1
  BY <1>2
<1>6. a \in [k .. N -> Nat] /\ \A i \in k .. N : a[i] = b[i + 1]
  BY <1>5
<1>7. a[N] = n
  BY <1>2, <1>4, <1>5, <1>6
<1> HIDE DEF a
<1>8. ASSUME NEW i \in k + 1 .. N
      PROVE  Calm(pending'[i], f) /\ a[i] = a[i - 1] + Shift(pending'[i], f)
  <2>1. /\ i + 1 \in c + 1 .. N + 1 /\ i \in 1 .. N /\ i \in k .. N /\ i - 1 \in k .. N
        /\ (i - 1) + 1 = (i + 1) - 1
    BY <1>2
  <2>2. Calm(pending[i + 1], f) /\ b[i + 1] = b[(i + 1) - 1] + Shift(pending[i + 1], f)
    BY <1>1, <1>4, <2>1 DEF Course
  <2> QED BY <1>1, <1>6, <2>1, <2>2
<1>9. ASSUME k > 0 PROVE Conclusive(pending', decks', k, f)
  <2>1. /\ k = c - 1 /\ c > 0 /\ k + 1 = c /\ k \in 1 .. N /\ k \in 1 .. N + 1
    BY <1>2, <1>9
  <2>2. pending'[k] = pending[c] /\ Conclusive(pending, decks, c, f)
    BY <1>1, <1>4, <2>1 DEF Course
  <2>3. Leaves(pending, decks, c - 1, f) => Leaves(pending', decks', k - 1, f)
    BY <1>1, <2>1, LeavesRecord
  <2> QED BY <2>2, <2>3 DEF Conclusive
<1>10. ASSUME k = 0 PROVE Concluded(decks'.deck[f], a[0], s)
  <2>1. c \in {0, 1} /\ 1 \in c .. N + 1 /\ 0 \in k .. N /\ a[0] = b[1] /\ b[1] \in Nat /\ seen
    <3>1. c \in {0, 1} /\ c <= 1 /\ 1 \in c .. N + 1 /\ 0 \in k .. N /\ 0 + 1 = 1
      BY <1>2, <1>10
    <3> QED BY <1>4, <1>6, <3>1
  <2>2. CASE c = 1
    <3>1. Conclusive(pending, decks, 1, f)
      BY <1>4, <2>2 DEF Course
    <3>2. e.file = f /\ (e.op = "closed" \/ (e.op \in {"created", "moved"} /\ Leaves(pending, decks, 1 - 1, f)))
      BY <1>1, <3>1 DEF Conclusive
    <3>3. Leaves(pending, decks, 1 - 1, f) => f \notin Held(decks)
      BY DEF Leaves
    <3> QED BY <2>1, <3>2, <3>3, RecordConcludes DEF e
  <2>3. CASE c = 0
    <3>1. 1 \in 0 + 1 .. N + 1 /\ 0 \in 0 .. N + 1 /\ 1 - 1 = 0
      BY <1>2
    <3>2. Calm(e, f) /\ b[1] = b[0] + Shift(e, f) /\ Concluded(decks.deck[f], b[0], s)
      BY <1>1, <1>4, <2>3, <3>1 DEF Course
    <3>3. b[0] \in Nat
      BY <2>3, <3>1
    <3> QED BY <2>1, <3>2, <3>3, RecordCalm DEF e
  <2> QED BY <2>1, <2>2, <2>3
<1>11. Course(pending', decks', f, s, k, a)
  BY <1>8, <1>9, <1>10 DEF Course, N
<1> HIDE DEF k
<1>12. \E x \in 0 .. N : \E y \in [x .. N -> Nat] :
         y[N] = n /\ Course(pending', decks', f, s, x, y) /\ (x <= 1 => TRUE)
  BY <1>5, <1>6, <1>7, <1>11
<1> QED BY <1>12 DEF Coming, N

LEMMA ComingSaid ==
  ASSUME NEW q \in Seq(Event), NEW h \in InHand, NEW e \in Event, e.op \in Announced,
         NEW d, NEW f, NEW n \in Nat, NEW s, NEW seen,
         Coming(Pending(q, h), d, f, n, s, seen), Calm(e, f),
         NEW m \in Nat, m = n + Shift(e, f), Coalesce => m = n
  PROVE  Coming(Pending(Enqueue(q, e), h), d, f, m, s, seen)
<1> DEFINE p == Pending(q, h)
           r == Pending(Enqueue(q, e), h)
<1>1. /\ p \in Seq(Event) /\ r \in Seq(Event) /\ Grown(p, r, e)
      /\ ~Coalesce => Len(r) = Len(p) + 1
  BY PendingIs, EnqueueGrows
<1>2. Coming(p, d, f, n, s, seen)
  OBVIOUS
<1> HIDE DEF p, r
<1>3. CASE Len(r) = Len(p) + 1
  <2>1. r # p
    BY <1>1, <1>3
  <2>2. r[Len(r)] = e /\ \A i \in 1 .. Len(p) : r[i] = p[i]
    BY <1>1, <2>1 DEF Grown
  <2>3. Coming(r, d, f, m, s, seen)
    BY <1>1, <1>2, <1>3, <2>2, ComingGrown
  <2> QED BY <2>3 DEF r
<1>4. CASE Len(r) # Len(p) + 1
  <2>1. r = p /\ m = n
    BY <1>1, <1>4 DEF Grown
  <2> QED BY <1>2, <2>1 DEF r
<1> QED BY <1>3, <1>4

LEMMA ComingStarts ==
  ASSUME NEW q \in Seq(Event), NEW h \in InHand, NEW e \in Event, e.op \in Announced,
         NEW d, NEW f, NEW n \in Nat, NEW s, NEW seen, e.file = f,
         \/ e.op = "closed"
         \/ /\ e.op \in {"created", "moved"}
            /\ Leaves(Pending(q, h), d, Len(Pending(q, h)), f),
         h = NoEvent => seen
  PROVE  Coming(Pending(Enqueue(q, e), h), d, f, n, s, seen)
<1> DEFINE p == Pending(q, h)
           r == Pending(Enqueue(q, e), h)
<1>1. /\ p \in Seq(Event) /\ r \in Seq(Event) /\ Grown(p, r, e)
      /\ Len(r) > 0 /\ r[Len(r)] = e
  BY PendingIs, EnqueueGrows
<1>2. Len(r) = 1 => seen
  <2> SUFFICES ASSUME h # NoEvent, Len(r) = 1 PROVE FALSE
    OBVIOUS
  <2> DEFINE t == Enqueue(q, e)
  <2>1. t \in Seq(Event) /\ t # <<>>
    <3>1. t = Append(q, e) \/ (t = q /\ q # <<>>)
      BY DEF Enqueue
    <3>2. Append(q, e) # <<>>
      OBVIOUS
    <3> QED BY <3>1, <3>2, EnqueueType
  <2>2. Len(r) = Len(t) + 1
    BY <2>1, PendingIs
  <2> HIDE DEF t, r
  <2> QED BY <2>1, <2>2
<1>3. e.op = "closed" \/ (e.op \in {"created", "moved"} /\ Leaves(p, d, Len(p), f))
  OBVIOUS
<1> HIDE DEF p, r
<1>4. ASSUME Leaves(p, d, Len(p), f), e.op \in {"created", "moved"}
      PROVE  Leaves(r, d, Len(r) - 1, f)
  <2>1. CASE r = p
    <3>1. Adds(p[Len(p)], f) /\ Len(p) \in 1 .. Len(p)
      BY <1>1, <1>4, <2>1 DEF Adds
    <3>2. PICK j \in Len(p) + 1 .. Len(p) : TRUE
      BY <1>4, <3>1 DEF Leaves
    <3> QED BY <1>1, <3>2
  <2>2. CASE Len(r) = Len(p) + 1 /\ \A i \in 1 .. Len(p) : r[i] = p[i]
    <3>1. Len(r) - 1 = Len(p) /\ Len(p) \in Nat
      BY <1>1, <2>2
    <3> QED BY <1>4, <2>2, <3>1, LeavesPrefix
  <2> QED BY <1>1, <2>1, <2>2 DEF Grown
<1>5. Conclusive(r, d, Len(r), f)
  BY <1>1, <1>3, <1>4 DEF Conclusive
<1>6. Coming(r, d, f, n, s, seen)
  BY <1>1, <1>2, <1>5, ComingLast
<1> QED BY <1>6 DEF r

-----------------------------------------------------------------------------
\* The users QuietFilesAreReady is about, and the files.
Quiet == ~polling /\ "replace" \notin habits /\ (Coalesce => "read" \notin habits)
                  /\ (stops > 0 => TouchExisting)
Settled(f) == f \in fresh /\ f \notin writer /\ size[f] > 0

\* Who does not replace files leaves no reader without its file.
ReadersStay ==
  "replace" \notin habits => \A f \in Files : strays[f] = 0 /\ (f \notin exists => readers[f] = 0)

\* The event in hand has the size the file has.
SeenRight(f) == handling # NoEvent /\ handling.event.file = f => handling.as.size = size[f]

ConclusionsAreComing ==
  Quiet => \A f \in Files : Settled(f) => Coming(pending, decks, f, readers[f], size[f], SeenRight(f))

LEMMA UserStays ==
  ASSUME TypeOK, ReadersStay, UserStep
  PROVE  ReadersStay'
<1> PICK f \in Files : Users(f) \/ Closes(f)
  BY DEF UserStep
<1>1. readers \in [Files -> Nat] /\ strays \in [Files -> Nat] /\ exists \subseteq Files
  BY DEF TypeOK
<1> USE DEF ReadersStay
<1>2. CASE Create(f)
  BY <1>2 DEF Create
<1>3. CASE OpenWrite(f)
  BY <1>3 DEF OpenWrite
<1>4. CASE Write(f)
  BY <1>4 DEF Write
<1>5. CASE OpenRead(f)
  BY <1>1, <1>5 DEF OpenRead
<1>6. CASE MoveIn(f)
  BY <1>1, <1>6 DEF MoveIn, Free
<1>7. CASE Touch(f)
  BY <1>7 DEF Touch, userVars
<1>8. CASE Delete(f)
  BY <1>8 DEF Delete
<1>9. ASSUME NEW g \in Files, Rename(f, g) PROVE ReadersStay'
  <2> SUFFICES ASSUME "replace" \notin habits
               PROVE  \A h \in Files : strays'[h] = 0 /\ (h \notin exists' => readers'[h] = 0)
    BY <1>9 DEF Rename
  <2>1. /\ f \in exists /\ f # g /\ g \notin exists /\ exists' = (exists \ {f}) \cup {g}
        /\ readers' = [readers EXCEPT ![f] = 0, ![g] = readers[f]]
        /\ strays' = [strays EXCEPT ![g] = @ + readers[g]]
    BY <1>9 DEF Rename, Free
  <2> QED BY <1>1, <2>1
<1>10. CASE CloseWrite(f)
  BY <1>10 DEF CloseWrite
<1>11. CASE CloseRead(f)
  BY <1>1, <1>11 DEF CloseRead
<1> QED BY <1>2, <1>3, <1>4, <1>5, <1>6, <1>7, <1>8, <1>9, <1>10, <1>11 DEF Users, Closes

\* A settled file stays so while the users announce e.
LEMMA SettledSaid ==
  ASSUME TypeOK, ~polling, NEW x \in Files,
         Coming(pending, decks, x, readers[x], size[x], SeenRight(x)),
         NEW e \in Event, queue' = Enqueue(queue, e), UNCHANGED <<handling, decks>>,
         size'[x] = size[x], readers[x] \in Nat, readers'[x] \in Nat, Calm(e, x),
         readers'[x] = readers[x] + Shift(e, x), Coalesce => readers'[x] = readers[x]
  PROVE  Coming(pending', decks', x, readers'[x], size'[x], SeenRight(x)')
<1>1. queue \in Seq(Event) /\ handling \in InHand /\ e.op \in Announced
  BY HandlingOK DEF Announced, Event
<1>2. pending = Pending(queue, handling) /\ pending' = Pending(Enqueue(queue, e), handling)
  BY DEF pending
<1>3. SeenRight(x)' = SeenRight(x)
  BY DEF SeenRight
<1> DEFINE a == SeenRight(x)
           n == readers[x]
           m == readers'[x]
<1>4. Coming(Pending(queue, handling), decks, x, n, size[x], a)
  BY <1>2
<1> HIDE DEF a, n, m
<1>5. n \in Nat /\ m \in Nat /\ m = n + Shift(e, x) /\ (Coalesce => m = n)
  BY DEF n, m
<1>6. Coming(Pending(Enqueue(queue, e), handling), decks, x, m, size[x], a)
  BY <1>1, <1>4, <1>5, ComingSaid
<1> QED BY <1>2, <1>3, <1>6 DEF a, m

\* A file settles with the event e.
LEMMA SettledStarts ==
  ASSUME TypeOK, ~polling, NEW x \in Files, NEW e \in Event, e.file = x,
         \/ e.op = "closed"
         \/ e.op \in {"created", "moved"} /\ Leaves(pending, decks, Len(pending), x),
         queue' = Enqueue(queue, e), UNCHANGED <<handling, decks>>, readers'[x] \in Nat
  PROVE  Coming(pending', decks', x, readers'[x], size'[x], SeenRight(x)')
<1>1. queue \in Seq(Event) /\ handling \in InHand /\ e.op \in Announced
  BY HandlingOK DEF Announced, Event
<1>2. pending = Pending(queue, handling) /\ pending' = Pending(Enqueue(queue, e), handling)
  BY DEF pending
<1> DEFINE a == SeenRight(x)'
           m == readers'[x]
           s == size'[x]
<1>3. m \in Nat
  OBVIOUS
<1>4. handling = NoEvent => a
  BY DEF SeenRight
<1>5. \/ e.op = "closed"
      \/ /\ e.op \in {"created", "moved"}
         /\ Leaves(Pending(queue, handling), decks, Len(Pending(queue, handling)), x)
  BY <1>2
<1> HIDE DEF a, m, s
<1>6. Coming(Pending(Enqueue(queue, e), handling), decks, x, m, s, a)
  BY <1>1, <1>3, <1>4, <1>5, ComingStarts
<1> QED BY <1>2, <1>6 DEF a, m, s

LEMMA UserConcludes ==
  ASSUME TypeOK, GoneFilesLeave, Unread, ReadersStay, ConclusionsAreComing, UserStep
  PROVE  ConclusionsAreComing'
<1> PICK f \in Files : Users(f) \/ Closes(f)
  BY DEF UserStep
<1>1. polling' = polling /\ habits' = habits /\ UNCHANGED <<handling, decks, stops>>
  BY UserQueue DEF UserStep, Users, Closes, Create, OpenWrite, Write, OpenRead, MoveIn, Touch, Delete,
                   Rename, CloseWrite, CloseRead
<1> SUFFICES ASSUME Quiet, NEW x \in Files, Settled(x)'
             PROVE  Coming(pending', decks', x, readers'[x], size'[x], SeenRight(x)')
  BY <1>1 DEF ConclusionsAreComing, Quiet
<1> DEFINE Goal == Coming(pending', decks', x, readers'[x], size'[x], SeenRight(x)')
<1>2. /\ ~polling /\ "replace" \notin habits /\ (Coalesce => "read" \notin habits)
      /\ Settled(x) => Coming(pending, decks, x, readers[x], size[x], SeenRight(x))
      /\ x \in fresh' /\ x \notin writer' /\ size'[x] > 0
  BY DEF Quiet, ConclusionsAreComing, Settled
<1>3. /\ readers \in [Files -> Nat] /\ strays \in [Files -> Nat] /\ size \in [Files -> 0 .. MaxSize]
      /\ exists \subseteq Files /\ writer \subseteq exists /\ fresh \subseteq exists
      /\ \A g \in Files : strays[g] = 0 /\ (g \notin exists => readers[g] = 0)
      /\ Coalesce => \A g \in Files : readers[g] = 0
  BY <1>2 DEF TypeOK, ReadersStay, Unread
<1>4. \A op \in Kinds : /\ Ev(op, f) \in Event /\ Ev(op, f).op = op
                        /\ Ev(op, f).file = f /\ Ev(op, f).from = f
  BY EvType DEF Ev
<1>5. \A op \in Kinds : /\ x # f \/ op \in {"opened", "modified", "closed_no_write"} => Calm(Ev(op, f), x)
                        /\ x # f \/ op \notin {"opened", "closed_no_write"} => Shift(Ev(op, f), x) = 0
                        /\ x = f /\ op = "opened" => Shift(Ev(op, f), x) = 1
                        /\ x = f /\ op = "closed_no_write" => Shift(Ev(op, f), x) = -1
  BY <1>4 DEF Calm, Shift, Removes
<1>6. ASSUME NEW op \in Kinds, queue' = Enqueue(queue, Ev(op, f)), Settled(x),
             size'[x] = size[x], readers' = readers,
             x # f \/ op = "modified"
      PROVE  Goal
  <2>1. readers'[x] = readers[x] + Shift(Ev(op, f), x) /\ Calm(Ev(op, f), x)
        /\ readers[x] \in Nat /\ readers'[x] \in Nat
    BY <1>3, <1>5, <1>6
  <2> QED BY <1>1, <1>2, <1>4, <1>6, <2>1, SettledSaid
<1>7. CASE Create(f)
  <2>1. /\ x # f /\ x \in fresh /\ x \notin writer /\ size' = size /\ readers' = readers
        /\ queue' = Enqueue(Enqueue(queue, Ev("created", f)), Ev("opened", f))
    BY <1>2, <1>7 DEF Create
  <2>2. Coming(pending, decks, x, readers[x], size[x], SeenRight(x))
    BY <1>2, <2>1 DEF Settled
  <2> DEFINE q == Enqueue(queue, Ev("created", f))
             a == SeenRight(x)
             n == readers[x]
             s == size[x]
  <2>3. queue \in Seq(Event) /\ handling \in InHand /\ q \in Seq(Event) /\ n \in Nat
    BY <1>3, <1>4, HandlingOK, EnqueueType DEF Kinds
  <2>4. \A op \in Kinds : op \in Announced
    BY <1>2 DEF Announced
  <2>5. \A op \in Kinds : Calm(Ev(op, f), x) /\ n = n + Shift(Ev(op, f), x)
    BY <1>5, <2>1, <2>3
  <2>6. Coming(Pending(queue, handling), decks, x, n, s, a)
    BY <2>2 DEF pending
  <2>7. pending' = Pending(Enqueue(q, Ev("opened", f)), handling)
    BY <1>1, <2>1 DEF pending
  <2>8. readers'[x] = n /\ size'[x] = s /\ SeenRight(x)' = a
    BY <1>1, <2>1 DEF SeenRight
  <2> HIDE DEF a, n, s
  <2>9. Coming(Pending(q, handling), decks, x, n, s, a)
    <3>1. Ev("created", f) \in Event /\ Ev("created", f).op \in Announced /\ Calm(Ev("created", f), x)
          /\ n = n + Shift(Ev("created", f), x)
      BY <1>4, <2>4, <2>5 DEF Kinds
    <3> QED BY <2>3, <2>6, <3>1, ComingSaid
  <2> HIDE DEF q
  <2>10. Coming(Pending(Enqueue(q, Ev("opened", f)), handling), decks, x, n, s, a)
    <3>1. Ev("opened", f) \in Event /\ Ev("opened", f).op \in Announced /\ Calm(Ev("opened", f), x)
          /\ n = n + Shift(Ev("opened", f), x)
      BY <1>4, <2>4, <2>5 DEF Kinds
    <3> QED BY <2>3, <2>9, <3>1, ComingSaid
  <2> QED BY <1>1, <2>7, <2>8, <2>10
<1>8. CASE OpenWrite(f)
  <2>1. x # f /\ Settled(x) /\ queue' = Enqueue(queue, Ev("opened", f)) /\ size' = size /\ readers' = readers
    BY <1>2, <1>8 DEF OpenWrite, Settled
  <2> QED BY <1>6, <2>1 DEF Kinds
<1>9. CASE Write(f)
  <2>1. /\ x # f /\ Settled(x) /\ queue' = Enqueue(queue, Ev("modified", f)) /\ size'[x] = size[x]
        /\ readers' = readers
    BY <1>2, <1>3, <1>9 DEF Write, Settled
  <2> QED BY <1>6, <2>1 DEF Kinds
<1>10. CASE OpenRead(f)
  <2>1. /\ Settled(x) /\ queue' = Enqueue(queue, Ev("opened", f)) /\ size' = size
        /\ readers' = [readers EXCEPT ![f] = @ + 1] /\ "read" \in habits
    BY <1>2, <1>10 DEF OpenRead, Settled
  <2>2. ~Coalesce
    BY <1>2, <2>1, Zenon
  <2>3. Shift(Ev("opened", f), x) = IF x = f THEN 1 ELSE 0
    BY <1>5 DEF Kinds
  <2>4. Calm(Ev("opened", f), x) /\ Ev("opened", f) \in Event
    BY <1>4, <1>5 DEF Kinds
  <2>5. readers[x] \in Nat /\ readers'[x] \in Nat
        /\ readers'[x] = readers[x] + Shift(Ev("opened", f), x)
    BY <1>3, <2>1, <2>3
  <2> QED BY <1>1, <1>2, <2>1, <2>2, <2>4, <2>5, SettledSaid
<1>11. CASE MoveIn(f)
  <2>1. /\ f \notin exists /\ queue' = Enqueue(queue, Ev("created", f))
        /\ fresh' = fresh \cup {f} /\ writer' = writer
        /\ readers' = [readers EXCEPT ![f] = 0] /\ \E n \in 1 .. MaxSize : size' = [size EXCEPT ![f] = n]
    BY <1>2, <1>11 DEF MoveIn, Free
  <2>2. readers' = readers
    BY <1>3, <2>1
  <2>3. CASE x # f
    <3>1. Settled(x) /\ size'[x] = size[x]
      BY <1>2, <1>3, <2>1, <2>3 DEF Settled
    <3> QED BY <1>6, <2>1, <2>2, <2>3, <3>1 DEF Kinds
  <2>4. CASE x = f
    <3>1. Leaves(pending, decks, Len(pending), x)
      BY <2>1, <2>4 DEF GoneFilesLeave
    <3>2. /\ Ev("created", f) \in Event /\ Ev("created", f).file = x /\ Ev("created", f).op = "created"
          /\ readers'[x] \in Nat
      BY <1>3, <1>4, <2>2, <2>4 DEF Kinds
    <3> QED BY <1>1, <1>2, <2>1, <3>1, <3>2, SettledStarts
  <2> QED BY <2>3, <2>4
<1>12. CASE Touch(f)
  <2>1. Settled(x) /\ queue' = Enqueue(queue, Ev("modified", f)) /\ size' = size /\ readers' = readers
    BY <1>2, <1>12 DEF Touch, userVars, Settled
  <2> QED BY <1>6, <2>1 DEF Kinds
<1>13. CASE Delete(f)
  BY <1>2, <1>13 DEF Delete
<1>14. ASSUME NEW g \in Files, Rename(f, g) PROVE Goal
  <2> DEFINE e == [op |-> "moved", file |-> g, from |-> f]
  <2>1. e \in Event /\ e.op = "moved" /\ e.file = g /\ e.from = f
    BY DEF Event, Kinds
  <2>2. /\ queue' = Enqueue(queue, e) /\ g \notin exists /\ f # g
        /\ fresh' = (fresh \ {f, g}) \cup (IF f \in fresh THEN {g} ELSE {})
        /\ writer' = IF f \in writer THEN (writer \ {f}) \cup {g} ELSE writer
        /\ readers' = [readers EXCEPT ![f] = 0, ![g] = readers[f]]
        /\ size' = [size EXCEPT ![f] = 0, ![g] = size[f]]
    BY <1>2, <1>14, Zenon DEF Rename, Free
  <2> HIDE DEF e
  <2>3. x # f
    BY <1>2, <2>2
  <2>4. CASE x = g
    <3>1. Leaves(pending, decks, Len(pending), x)
      BY <2>2, <2>4 DEF GoneFilesLeave
    <3>2. readers'[x] \in Nat
      BY <1>3, <2>2, <2>4
    <3> QED BY <1>1, <1>2, <2>1, <2>2, <2>4, <3>1, <3>2, SettledStarts
  <2>5. CASE x # g
    <3>1. x \in fresh /\ x \notin writer /\ size'[x] = size[x] /\ readers'[x] = readers[x]
          /\ readers[x] \in Nat
      BY <1>2, <1>3, <2>2, <2>3, <2>5
    <3>2. Settled(x)
      BY <1>2, <3>1 DEF Settled
    <3>3. Calm(e, x) /\ Shift(e, x) = 0
      BY <2>1, <2>3, <2>5 DEF Calm, Shift, Removes
    <3>4. readers'[x] = readers[x] + Shift(e, x)
      BY <3>1, <3>3
    <3> QED BY <1>1, <1>2, <2>1, <2>2, <3>1, <3>2, <3>3, <3>4, SettledSaid
  <2> QED BY <2>4, <2>5
<1>15. CASE CloseWrite(f)
  <2>1. /\ f \in writer /\ queue' = Enqueue(queue, Ev("closed", f)) /\ size' = size /\ readers' = readers
        /\ writer' = writer \ {f} /\ fresh' = fresh
    BY <1>15 DEF CloseWrite
  <2>2. CASE x # f
    <3>1. Settled(x)
      BY <1>2, <2>1, <2>2 DEF Settled
    <3> QED BY <1>6, <2>1, <2>2, <3>1 DEF Kinds
  <2>3. CASE x = f
    <3>1. /\ Ev("closed", f) \in Event /\ Ev("closed", f).file = x /\ Ev("closed", f).op = "closed"
          /\ readers'[x] \in Nat
      BY <1>3, <1>4, <2>1, <2>3 DEF Kinds
    <3> QED BY <1>1, <1>2, <2>1, <3>1, SettledStarts
  <2> QED BY <2>2, <2>3
<1>16. CASE CloseRead(f)
  <2>1. /\ Settled(x) /\ queue' = Enqueue(queue, Ev("closed_no_write", f)) /\ size' = size
        /\ readers[f] > 0 /\ readers' = [readers EXCEPT ![f] = @ - 1]
    BY <1>2, <1>3, <1>16 DEF CloseRead, Settled
  <2>2. ~Coalesce
    BY <1>3, <2>1
  <2>3. Shift(Ev("closed_no_write", f), x) = IF x = f THEN -1 ELSE 0
    BY <1>5 DEF Kinds
  <2>4. Calm(Ev("closed_no_write", f), x) /\ Ev("closed_no_write", f) \in Event
    BY <1>4, <1>5 DEF Kinds
  <2>5. readers[x] \in Nat /\ readers'[x] \in Nat
        /\ readers'[x] = readers[x] + Shift(Ev("closed_no_write", f), x)
    BY <1>3, <2>1, <2>3
  <2> QED BY <1>1, <1>2, <2>1, <2>2, <2>4, <2>5, SettledSaid
<1> QED BY <1>7, <1>8, <1>9, <1>10, <1>11, <1>12, <1>13, <1>14, <1>15, <1>16 DEF Users, Closes

-----------------------------------------------------------------------------
(* A process that starts over, and the steps of the watcher.               *)

LEMMA StaysNext == TypeOK /\ IInv /\ ReadersStay /\ [Next]_vars => ReadersStay'
<1> SUFFICES ASSUME TypeOK, IInv, ReadersStay, [Next]_vars PROVE ReadersStay'
  OBVIOUS
<1>1. CASE UserStep
  BY <1>1, UserStays
<1>2. CASE Stamp \/ Record
  BY <1>2 DEF Stamp, Record, userVars, ReadersStay
<1>3. CASE Sweep \/ Restart \/ Tick \/ \E f \in Files : ProcessorFails(f)
  BY <1>3, OtherSteps DEF ReadersStay
<1>4. CASE UNCHANGED vars
  BY <1>4 DEF vars, userVars, ReadersStay
<1> QED BY <1>1, <1>2, <1>3, <1>4 DEF Next, Watcher, UserStep

\* A process that starts over closes every file that is there.
LEMMA TouchedConclude ==
  ASSUME ~polling, NEW s \in Seq(Files), NEW k \in 1 .. Len(s),
         \A i, j \in 1 .. Len(s) : i # j => s[i] # s[j],
         NEW d, NEW n \in Nat, NEW z, NEW seen, seen
  PROVE  Coming(Touched(s), d, s[k], n, z, seen)
<1> DEFINE t == Touched(s)
           f == s[k]
           N == 3 * Len(s)
           c == 3 * (k - 1) + 2
           b == [i \in c .. N |-> n]
<1>1. /\ t \in Seq(Event) /\ Len(t) = N
      /\ \A i \in 1 .. N :
           /\ ((i - 1) \div 3) + 1 \in 1 .. Len(s) /\ ((i - 1) % 3) + 1 \in 1 .. 3
           /\ t[i] = Ev(Touches[((i - 1) % 3) + 1], s[((i - 1) \div 3) + 1])
  BY TouchedFiles
<1> HIDE DEF t
<1>2. Len(s) \in Nat /\ N \in Nat /\ c \in 1 .. N
  OBVIOUS
<1>3. ((c - 1) \div 3) + 1 = k /\ ((c - 1) % 3) + 1 = 2
  OBVIOUS
<1>4. \A i \in c + 1 .. N : ((i - 1) \div 3) + 1 = k => ((i - 1) % 3) + 1 = 3
  OBVIOUS
<1>5. \A op, g : Ev(op, g).op = op /\ Ev(op, g).file = g
  BY DEF Ev
<1>6. t[c].op = "closed" /\ t[c].file = f
  <2>1. t[c] = Ev(Touches[2], s[k])
    BY <1>1, <1>2, <1>3
  <2> QED BY <1>5, <2>1 DEF Touches
<1> HIDE DEF c, N
<1>7. ASSUME NEW i \in c + 1 .. N PROVE Calm(t[i], f) /\ Shift(t[i], f) = 0
  <2> DEFINE m == ((i - 1) \div 3) + 1
             l == ((i - 1) % 3) + 1
  <2>1. i \in 1 .. N
    BY <1>2
  <2>2. m \in 1 .. Len(s) /\ l \in 1 .. 3 /\ t[i] = Ev(Touches[l], s[m]) /\ (m = k => l = 3)
    BY <1>1, <1>4, <2>1
  <2> HIDE DEF m, l
  <2>3. \A x \in 1 .. 3 : Touches[x] \in {"opened", "closed", "modified"}
    BY DEF Touches
  <2>4. t[i].op \in {"opened", "closed", "modified"} /\ t[i].file = s[m]
    BY <1>5, <2>2, <2>3
  <2>5. s[m] = f => t[i].op = "modified"
    <3>1. s[m] = f => m = k
      BY <2>2
    <3>2. l = 3 => t[i].op = "modified"
      BY <1>5, <2>2 DEF Touches
    <3> QED BY <2>2, <3>1, <3>2
  <2> HIDE DEF f
  <2> QED BY <2>4, <2>5 DEF Calm, Shift, Removes
<1>8. b \in [c .. N -> Nat] /\ \A i \in c .. N : b[i] = n
  OBVIOUS
<1> HIDE DEF b
<1>9. /\ \A i \in c + 1 .. N : i \in c .. N /\ i - 1 \in c .. N
      /\ N \in c .. N /\ c \in 0 .. N /\ c > 0 /\ c # 0
  BY <1>2
<1>10. \A i \in c + 1 .. N : Calm(t[i], f) /\ b[i] = b[i - 1] + Shift(t[i], f)
  BY <1>7, <1>8, <1>9
<1>11. Course(t, d, f, z, c, b)
  BY <1>1, <1>6, <1>9, <1>10 DEF Course, Conclusive
<1>12. Coming(t, d, f, n, z, seen)
  BY <1>1, <1>8, <1>9, <1>11 DEF Coming
<1> QED BY <1>12 DEF t

LEMMA StartOverConcludes ==
  ASSUME TypeOK, StartOver, stops' > 0, fresh' \subseteq fresh,
         UNCHANGED <<polling, habits, exists, size, writer, readers>>
  PROVE  ConclusionsAreComing'
<1> SUFFICES ASSUME ~polling, TouchExisting, NEW f \in Files, f \in exists
             PROVE  Coming(pending', decks', f, readers'[f], size'[f], SeenRight(f)')
  BY DEF ConclusionsAreComing, Quiet, Settled, TypeOK
<1>1. handling' = NoEvent /\ pending' = queue'
  BY StartOverIs
<1>2. PICK s \in Seq(exists) : /\ queue' = Touched(s)
                               /\ \A g \in exists : \E k \in 1 .. Len(s) : s[k] = g
                               /\ \A i, j \in 1 .. Len(s) : i # j => s[i] # s[j]
  BY StartOverIs
<1>3. PICK k \in 1 .. Len(s) : s[k] = f
  BY <1>2
<1>4. s \in Seq(Files) /\ readers[f] \in Nat
  BY DEF TypeOK
<1>5. SeenRight(f)'
  BY <1>1 DEF SeenRight
<1> DEFINE a == SeenRight(f)'
           n == readers'[f]
           z == size'[f]
           d == decks'
<1>6. a /\ n \in Nat
  BY <1>4, <1>5
<1> HIDE DEF a, n, z, d
<1>7. Coming(Touched(s), d, s[k], n, z, a)
  BY <1>2, <1>3, <1>4, <1>6, TouchedConclude
<1> QED BY <1>1, <1>2, <1>3, <1>7 DEF a, n, z, d

LEMMA ComingDecks ==
  ASSUME NEW p, NEW d, NEW e, NEW f, NEW n, NEW s, NEW seen, NEW now, Coming(p, d, f, n, s, seen),
         f \in Held(e) => f \in Held(d), seen => now,
         \A m : Concluded(d.deck[f], m, s) => Concluded(e.deck[f], m, s)
  PROVE  Coming(p, e, f, n, s, now)
<1>1. PICK c \in 0 .. Len(p) : \E b \in [c .. Len(p) -> Nat] :
        b[Len(p)] = n /\ Course(p, d, f, s, c, b) /\ (c <= 1 => seen)
  BY DEF Coming
<1>2. PICK b \in [c .. Len(p) -> Nat] :
        b[Len(p)] = n /\ Course(p, d, f, s, c, b) /\ (c <= 1 => seen)
  BY <1>1
<1>3. \A k : Leaves(p, d, k, f) => Leaves(p, e, k, f)
  BY DEF Leaves
<1>4. Course(p, e, f, s, c, b)
  BY <1>2, <1>3 DEF Course, Conclusive
<1> QED BY <1>2, <1>4 DEF Coming

LEMMA OlderConcluded ==
  ASSUME NEW hs \in Histories, NEW f \in Files, NEW n, NEW s, Concluded(hs[f], n, s)
  PROVE  Concluded(OlderAll(hs)[f], n, s)
<1> DEFINE h == hs[f]
           r == OlderAll(hs)[f]
<1>1. /\ Len(r) = Len(h) /\ h \in Seq(Operation)
      /\ \A i \in 1 .. Len(h) : r[i].op = h[i].op /\ r[i].size = h[i].size
  BY OlderHistory DEF Histories
<1> HIDE DEF h, r
<1>2. PICK k \in 1 .. Len(h) :
        /\ h[k].op = "closed" \/ \A i \in 1 .. k : h[i].op \in {"created", "moved"}
        /\ h[k].size = s
        /\ \A j \in k + 1 .. Len(h) : h[j].op = "opened" /\ h[j].size = s
        /\ Len(h) - k <= n
  BY DEF Concluded, h
<1>3. Len(h) \in Nat
  BY <1>1
<1>4. \A i \in 1 .. k : i \in 1 .. Len(h)
  BY <1>2, <1>3
<1>5. \A i \in k + 1 .. Len(h) : i \in 1 .. Len(h)
  BY <1>2, <1>3
<1>6. r[k].op = "closed" \/ \A i \in 1 .. k : r[i].op \in {"created", "moved"}
  BY <1>1, <1>2, <1>4
<1>7. \A j \in k + 1 .. Len(r) : r[j].op = "opened" /\ r[j].size = s
  BY <1>1, <1>2, <1>5
<1> QED BY <1>1, <1>2, <1>6, <1>7 DEF Concluded, r

LEMMA ConcludesNext ==
  /\ IInv /\ Stamped /\ GoneFilesLeave /\ Unread /\ ReadersStay /\ ConclusionsAreComing
  /\ [Next]_vars
  => ConclusionsAreComing'
<1> SUFFICES ASSUME IInv, Stamped, GoneFilesLeave, Unread, ReadersStay, ConclusionsAreComing, [Next]_vars
             PROVE  ConclusionsAreComing'
  OBVIOUS
<1>1. TypeOK /\ DeckOK(decks)
  BY Parting DEF IInv
<1>2. CASE UserStep
  BY <1>1, <1>2, UserConcludes
<1>3. CASE Stamp
  <2>1. /\ UNCHANGED <<polling, habits, stops, exists, size, writer, readers, fresh, decks, pending>>
        /\ handling'.event = pending[1]
        /\ handling'.as = [op |-> pending[1].op, size |-> SizeOf(pending[1].file), age |-> 0]
    BY <1>1, <1>3, StampKeepsPending DEF Stamp, userVars
  <2> SUFFICES ASSUME NEW f \in Files, f \in exists,
                      Coming(pending, decks, f, readers[f], size[f], SeenRight(f))
               PROVE  Coming(pending, decks, f, readers[f], size[f], SeenRight(f)')
    BY <1>1, <2>1 DEF ConclusionsAreComing, Quiet, Settled, TypeOK
  <2>2. SeenRight(f)'
    BY <2>1 DEF SeenRight, SizeOf
  <2> DEFINE a == SeenRight(f)
             b == SeenRight(f)'
  <2>3. Coming(pending, decks, f, readers[f], size[f], a) /\ b
    BY <2>2
  <2> HIDE DEF a, b
  <2>4. Coming(pending, decks, f, readers[f], size[f], b)
    BY <2>3, ComingDecks
  <2> QED BY <2>4 DEF b
<1>4. CASE Record
  <2>1. UNCHANGED <<polling, habits, stops, exists, size, writer, readers, fresh>> /\ handling' = NoEvent
    BY <1>4 DEF Record, userVars
  <2> SUFFICES ASSUME NEW f \in Files, size[f] > 0,
                      Coming(pending, decks, f, readers[f], size[f], SeenRight(f))
               PROVE  Coming(pending', decks', f, readers[f], size[f], SeenRight(f)')
    BY <1>1, <2>1 DEF ConclusionsAreComing, Quiet, Settled
  <2>2. readers[f] \in Nat
    BY <1>1 DEF TypeOK
  <2>3. SeenRight(f) => (handling.event.file = f => handling.as.size = size[f])
    BY <1>4 DEF SeenRight, Record
  <2>4. SeenRight(f)'
    BY <2>1 DEF SeenRight
  <2> DEFINE a == SeenRight(f)
             b == SeenRight(f)'
             n == readers[f]
             s == size[f]
  <2>5. Coming(pending, decks, f, n, s, a) /\ (a => (handling.event.file = f => handling.as.size = s))
        /\ n \in Nat /\ s > 0 /\ b
    BY <2>2, <2>3, <2>4
  <2> HIDE DEF a, b, n, s
  <2>6. Coming(pending', decks', f, n, s, TRUE)
    BY <1>4, <2>5, ComingRecord
  <2>7. Coming(pending', decks', f, n, s, b)
    BY <2>5, <2>6, ComingDecks
  <2> QED BY <2>7 DEF b, n, s
<1>5. CASE Sweep \/ \E f \in Files : ProcessorFails(f)
  <2>1. UNCHANGED <<polling, habits, exists, size, writer, readers>> /\ stops \in Nat
        /\ fresh' \subseteq fresh
    BY <1>1, <1>5, OtherSteps DEF TypeOK
  <2>2. CASE StartOver /\ stops' = stops + 1
    BY <1>1, <2>1, <2>2, StartOverConcludes
  <2>3. ASSUME NEW S \in SUBSET Due(decks), decks' = Remaining(decks, S), fresh' = fresh \ S,
               stops' \in {stops, stops + 1}, UNCHANGED <<handling, pending>>
        PROVE  ConclusionsAreComing'
    <3>1. Quiet' => Quiet
      BY <2>1, <2>3 DEF Quiet
    <3> SUFFICES ASSUME NEW f \in Files, f \notin S,
                        Coming(pending, decks, f, readers[f], size[f], SeenRight(f))
                 PROVE  Coming(pending, decks', f, readers[f], size[f], SeenRight(f)')
      BY <2>1, <2>3, <3>1 DEF ConclusionsAreComing, Settled
    <3>2. decks'.deck[f] = decks.deck[f] /\ decks'.modDeck[f] = decks.modDeck[f]
      BY <1>1, <2>3, RemainingIs
    <3>3. SeenRight(f)' = SeenRight(f)
      BY <2>1, <2>3 DEF SeenRight
    <3>4. f \in Held(decks') => f \in Held(decks)
      BY <3>2 DEF Held
    <3> DEFINE a == SeenRight(f)
               b == SeenRight(f)'
               e == decks'
    <3>5. Coming(pending, decks, f, readers[f], size[f], a) /\ (a => b)
          /\ (f \in Held(e) => f \in Held(decks)) /\ e.deck[f] = decks.deck[f]
      BY <3>2, <3>3, <3>4
    <3> HIDE DEF a, b, e
    <3>6. Coming(pending, e, f, readers[f], size[f], b)
      BY <3>5, ComingDecks
    <3> QED BY <3>6 DEF b, e
  <2>4. (StartOver /\ stops' = stops + 1)
        \/ \E S \in SUBSET Due(decks) : /\ decks' = Remaining(decks, S) /\ fresh' = fresh \ S
                                        /\ stops' \in {stops, stops + 1}
                                        /\ UNCHANGED <<handling, pending>>
    BY <1>5, SweepIs
  <2> QED BY <2>2, <2>3, <2>4
<1>6. CASE Restart
  <2>1. stops' = stops + 1 /\ stops \in Nat /\ StartOver
        /\ UNCHANGED <<polling, habits, exists, size, writer, readers, fresh>>
    BY <1>1, <1>6 DEF Restart, userVars, TypeOK
  <2>2. stops' > 0
    BY <2>1
  <2> QED BY <1>1, <2>1, <2>2, StartOverConcludes
<1>7. CASE Tick
  <2>1. UNCHANGED <<polling, habits, stops, exists, size, writer, readers, fresh>>
    BY <1>7 DEF Tick, userVars
  <2>2. /\ pending' = pending /\ (handling' = NoEvent <=> handling = NoEvent)
        /\ handling # NoEvent => handling'.event = handling.event /\ handling'.as = Older(handling.as)
        /\ decks'.deck = OlderAll(decks.deck) /\ decks'.modDeck = OlderAll(decks.modDeck)
    BY <1>1, <1>7, TickIs
  <2>3. decks.deck \in Histories /\ decks.modDeck \in Histories
    BY <1>1 DEF DeckOK, Decks
  <2>4. handling # NoEvent => Older(handling.as).size = handling.as.size
    BY <1>1, HandlingOK, InHandIs, OlderIs
  <2> SUFFICES ASSUME NEW f \in Files, Coming(pending, decks, f, readers[f], size[f], SeenRight(f))
               PROVE  Coming(pending, decks', f, readers[f], size[f], SeenRight(f)')
    BY <2>1, <2>2 DEF ConclusionsAreComing, Quiet, Settled
  <2>5. SeenRight(f) => SeenRight(f)'
    BY <2>1, <2>2, <2>4 DEF SeenRight
  <2>6. f \in Held(decks') => f \in Held(decks)
    BY <2>2, <2>3, OlderAllType DEF Held
  <2> DEFINE a == SeenRight(f)
             b == SeenRight(f)'
             e == decks'
  <2>7. \A m : Concluded(decks.deck[f], m, size[f]) => Concluded(e.deck[f], m, size[f])
    BY <2>2, <2>3, OlderConcluded
  <2>8. Coming(pending, decks, f, readers[f], size[f], a) /\ (a => b) /\ (f \in Held(e) => f \in Held(decks))
    BY <2>5, <2>6
  <2> HIDE DEF a, b, e
  <2>9. Coming(pending, e, f, readers[f], size[f], b)
    BY <2>7, <2>8, ComingDecks
  <2> QED BY <2>9 DEF b, e
<1>8. CASE UNCHANGED vars
  BY <1>8 DEF vars, userVars, ConclusionsAreComing, Quiet, Settled, SeenRight, pending
<1> QED BY <1>2, <1>3, <1>4, <1>5, <1>6, <1>7, <1>8 DEF Next, Watcher, UserStep

(* Who does not replace files leaves no reader without its file, and for a *)
(* file left alone the close, the creation or the move that makes it       *)
(* complete is in its history or on its way, followed by nothing that      *)
(* takes it back; the opens recorded after it are no more than the readers *)
(* known.                                                                  *)
THEOREM ConclusionsCome == Spec => [](ReadersStay /\ ConclusionsAreComing)
<1>1. Init => ReadersStay /\ ConclusionsAreComing
  BY DEF Init, ReadersStay, ConclusionsAreComing, Settled
<1>2. IInv => TypeOK
  BY DEF IInv
<1>3. /\ IInv /\ Stamped /\ GoneFilesLeave /\ Unread /\ ReadersStay /\ ConclusionsAreComing
      /\ [Next]_vars
      => (ReadersStay /\ ConclusionsAreComing)'
  BY <1>2, StaysNext, ConcludesNext
<1> QED BY <1>1, <1>3, Invariance, GoneInvariance, WritersKnown, PTL DEF Spec

(* Under inotify, once all events are in, a file that is not empty, that   *)
(* nobody has open and that has not been handed over is in the main deck   *)
(* and waits for nothing but its time, whatever was written, moved,        *)
(* renamed, touched and read before, and however often the process failed  *)
(* over a file or, touching what is there, started over.                   *)
THEOREM QuietFilesAlwaysGetReady == Spec => []QuietFilesAreReady
<1>1. IInv /\ ConclusionsAreComing => QuietFilesAreReady
  <2> SUFFICES ASSUME IInv, ConclusionsAreComing, Quiet, CaughtUp, NEW f \in fresh, size[f] > 0,
                      f \notin writer, readers[f] = 0
               PROVE  f \in Tracked(decks) /\ Ready(decks.deck[f])
    BY DEF QuietFilesAreReady, FilesGetReady, Quiet
  <2>1. f \in Files /\ Coming(pending, decks, f, 0, size[f], SeenRight(f))
    BY DEF ConclusionsAreComing, Settled, IInv, TypeOK
  <2>2. Len(pending) = 0
    BY DEF CaughtUp, pending, Pending
  <2>3. Concluded(decks.deck[f], 0, size[f])
    BY <2>1, <2>2 DEF Coming, Course
  <2>4. decks.deck[f] \in Seq(Operation)
    BY <2>1, Parting DEF DeckOK, Decks, Histories
  <2> QED BY <2>1, <2>3, <2>4, ConcludedReady DEF Tracked
<1> QED BY <1>1, Invariance, ConclusionsCome, PTL
=============================================================================
