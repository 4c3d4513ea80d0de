-------------------------- MODULE ReviewGateProofs --------------------------
(***************************************************************************)
(* A gate is completed only over merged reviews, for any polls, slots,     *)
(* pull requests, generations and moves.                                   *)
(*                                                                         *)
(* "approved" in any copy of the artifacts -- the row, the cache, what a   *)
(* publisher carries -- stands for a merged pull request, and a merged one *)
(* stays merged (Landings); the cache is behind the row in the artifacts   *)
(* only, never in the generation or, but for a close, the status, so that  *)
(* nobody writes artifacts into a completed gate (Stages).                 *)
(***************************************************************************)
EXTENDS ReviewGate, TLAPS

Statuses == {"pending", "running", "review_ready", "awaiting_approval",
             "fixing_with_ai", "failed", "completed", "closed"}
Entries == {"none", "failed", "review_ready", "awaiting_approval"}
ArtStates == {"none", "open", "approved", "closed", "discarded"}
ForgeStates == {"none", "open", "merged", "closed"}
Art == [pr : Prs \cup {0}, st : ArtStates]
Arts == [Slots -> Art]
Gate == [st : Statuses, gen : Gens, active : Nat, entry : Entries,
         parked : BOOLEAN, arts : Arts]
Poll == [at : Slots \cup {0}, heard : ForgeStates, gen : Nat, active : Nat,
         prs : [Slots -> Prs \cup {0}]]
Pub == [stage : {"none", "launch", "killed", "written", "fix"}, at : Nat,
        kept : Arts, arts : Arts]

Typed ==
    /\ row \in Gate /\ mem \in Gate
    /\ forge \in [Prs -> [slot : Nat, st : ForgeStates]]
    /\ poll \in [Polls -> Poll]
    /\ pub \in [Gens -> Pub]
    /\ agent \in Nat
    /\ moves \in Nat

Final == {"merged", "closed"}
Settled(p, st, f) == p \in Prs /\ f[p].st = st
Landed(p, f) == Settled(p, "merged", f)

\* What is approved has landed.
ArtsOK(arts, f) == \A s \in Slots : arts[s].st = "approved" => Landed(arts[s].pr, f)

\* A poll that is somewhere asks about a pull request, and what it has heard
\* to be merged or closed is.
PollOK(p, f) ==
    /\ p.at # 0 => p.prs[p.at] # 0
    /\ p.heard \in Final => p.at # 0 /\ Settled(p.prs[p.at], p.heard, f)

Landings ==
    /\ ArtsOK(row.arts, forge) /\ ArtsOK(mem.arts, forge)
    /\ \A g \in Gens : ArtsOK(pub[g].kept, forge) /\ ArtsOK(pub[g].arts, forge)
    /\ \A p \in Polls : PollOK(poll[p], forge)

\* A launch that publishes for the current generation finds the gate running,
\* and no fix agent works on its generation.
Stages ==
    /\ mem.gen = row.gen
    /\ row.st # "closed" => mem.st = row.st
    /\ \A g \in Gens : pub[g].stage = "launch" => g <= row.gen /\ (g = row.gen => row.st = "running")
    /\ agent <= row.gen
    /\ agent = row.gen => row.st # "pending" /\ pub[row.gen].stage # "launch"

CompletedOK == row.st = "completed" => AllApproved(row)

IInv == Typed /\ Landings /\ Stages /\ CompletedOK

-----------------------------------------------------------------------------
(* Operators.                                                              *)

LEMMA Bounds ==
    /\ Prs \subseteq Nat /\ Gens \subseteq Nat /\ Slots \subseteq Nat
    /\ 0 \notin Prs /\ 0 \notin Gens /\ 0 \notin Slots
    /\ NoArts \in Arts
  BY ReviewBoundsAssumption DEF Prs, Gens, Slots, NoArts, Arts, Art, ArtStates, Nobody

LEMMA NoArtsOK == ASSUME NEW f PROVE ArtsOK(NoArts, f)
  BY DEF ArtsOK, NoArts, Nobody

LEMMA NextSlotsIn ==
    ASSUME NEW prs, NEW s, NEW t \in NextSlots(prs, s)
    PROVE  t \in Slots \cup {0} /\ (t # 0 => prs[t] # 0)
  BY DEF NextSlots

\* An answer approves only what has landed.
LEMMA UpdatedOK ==
    ASSUME NEW gate \in Gate, NEW pr, NEW answer \in ForgeStates \ {"none"}, NEW f,
           ArtsOK(gate.arts, f), answer = "merged" => Landed(pr, f)
    PROVE  Updated(gate, pr, answer) \in Arts /\ ArtsOK(Updated(gate, pr, answer), f)
  <1>1. ASSUME NEW s \in Slots
        PROVE  /\ Updated(gate, pr, answer)[s] \in Art
               /\ Updated(gate, pr, answer)[s].st = "approved"
                    => Landed(Updated(gate, pr, answer)[s].pr, f)
    <2>1. gate.arts[s] \in Art
      BY DEF Gate, Arts
    <2>2. CASE Current(gate, s) /\ gate.arts[s].pr = pr
      <3>1. Updated(gate, pr, answer)[s]
              = [gate.arts[s] EXCEPT !.st = IF answer = "merged" THEN "approved" ELSE answer]
        BY <2>2 DEF Updated
      <3>2. (IF answer = "merged" THEN "approved" ELSE answer) \in ArtStates
        BY DEF ForgeStates, ArtStates
      <3> QED BY <2>1, <2>2, <3>1, <3>2 DEF Art, ForgeStates
    <2>3. CASE ~(Current(gate, s) /\ gate.arts[s].pr = pr)
      BY <2>1, <2>3 DEF Updated, ArtsOK
    <2> QED BY <2>2, <2>3
  <1> QED BY <1>1 DEF Updated, Arts, ArtsOK

LEMMA RevertedOK ==
    ASSUME NEW gate \in Gate
    PROVE  /\ Reverted(gate) \in Gate
           /\ Reverted(gate).arts = gate.arts /\ Reverted(gate).gen = gate.gen
           /\ Reverted(gate).st \in (Entries \ {"none"}) \cup {gate.st}
           /\ Reverted(gate).st # gate.st => Reverted(gate).st \in Entries \ {"none"}
  BY DEF Reverted, Gate, Statuses, Entries

LEMMA UnderReviewStates ==
    ASSUME NEW gate \in Gate, NEW g, NEW arts
    PROVE  UnderReview(gate, g, arts).st \in {gate.st, "review_ready"}
  BY DEF UnderReview, Gate

LEMMA DiscardedOK ==
    ASSUME NEW gate \in Gate, gate.gen < MaxGen, NEW f
    PROVE  /\ Discarded(gate) \in Gate /\ ArtsOK(Discarded(gate).arts, f)
           /\ Discarded(gate).gen = gate.gen + 1 /\ Discarded(gate).st = "pending"
  <1> DEFINE arts == [s \in Slots |-> IF gate.arts[s].st = "none" THEN Nobody
                                      ELSE [gate.arts[s] EXCEPT !.st = "discarded"]]
  <1>1. ASSUME NEW s \in Slots PROVE arts[s] \in Art /\ arts[s].st # "approved"
    BY DEF Gate, Arts, Art, ArtStates, Nobody
  <1>2. arts \in Arts /\ ArtsOK(arts, f)
    BY <1>1 DEF Arts, ArtsOK
  <1>3. gate.gen + 1 \in Gens /\ gate.gen + 1 \in Nat
    BY ReviewBoundsAssumption DEF Gate, Gens
  <1>4. Discarded(gate).arts = arts
    BY DEF Discarded
  <1>5. (IF gate.active = 0 THEN 0 ELSE gate.gen + 1) \in Nat
    BY <1>3
  <1> HIDE DEF arts
  <1> QED BY <1>2, <1>3, <1>4, <1>5 DEF Discarded, Gate, Statuses, Entries

-----------------------------------------------------------------------------
(* The forge.                                                              *)

\* A merged pull request stays merged, and a closed one closed.
LEMMA SettledStays ==
    ASSUME Typed, [Next]_vars
    PROVE  /\ forge' \in [Prs -> [slot : Nat, st : ForgeStates]]
           /\ \A p : \A st \in Final : Settled(p, st, forge) => Settled(p, st, forge')
  <1>1. CASE forge' = forge
    BY <1>1 DEF Typed, Settled
  <1>2. ASSUME NEW p \in Prs, NEW review \in [slot : Nat, st : ForgeStates],
               forge[p].st \notin Final, forge' = [forge EXCEPT ![p] = review]
        PROVE  /\ forge' \in [Prs -> [slot : Nat, st : ForgeStates]]
               /\ \A q : \A st \in Final : Settled(q, st, forge) => Settled(q, st, forge')
    BY <1>2 DEF Typed, Settled
  <1>3. ASSUME NEW g \in Gens, OpenReview(g)
        PROVE  /\ forge' \in [Prs -> [slot : Nat, st : ForgeStates]]
               /\ \A q : \A st \in Final : Settled(q, st, forge) => Settled(q, st, forge')
    <2>1. PICK p \in Prs, s \in Slots :
              \/ forge' = forge
              \/ forge[p].st = "none" /\ forge' = [forge EXCEPT ![p] = [slot |-> s, st |-> "open"]]
      BY <1>3 DEF OpenReview, Published
    <2>2. [slot |-> s, st |-> "open"] \in [slot : Nat, st : ForgeStates]
      BY Bounds DEF ForgeStates
    <2> QED BY <1>1, <1>2, <2>1, <2>2 DEF Final
  <1>5. ASSUME NEW p \in Prs, CloseReview(p) \/ Reviewed(p)
        PROVE  /\ forge' \in [Prs -> [slot : Nat, st : ForgeStates]]
               /\ \A q : \A st \in Final : Settled(q, st, forge) => Settled(q, st, forge')
    <2>1. PICK st \in {"merged", "closed"} :
              forge' = forge \/ (forge[p].st = "open" /\ forge' = [forge EXCEPT ![p].st = st])
      BY <1>5 DEF CloseReview, Reviewed
    <2>2. [forge[p] EXCEPT !.st = st] \in [slot : Nat, st : ForgeStates]
      BY DEF Typed, ForgeStates
    <2>3. CASE forge[p].st = "open" /\ forge' = [forge EXCEPT ![p].st = st]
      <3>1. forge' = [forge EXCEPT ![p] = [forge[p] EXCEPT !.st = st]]
        BY <2>3
      <3> QED BY <1>2, <2>2, <2>3, <3>1 DEF Final
    <2> QED BY <1>1, <2>1, <2>3
  <1>6. forge' = forge \/ (\E g \in Gens : OpenReview(g)) \/ (\E p \in Prs : CloseReview(p) \/ Reviewed(p))
    BY DEF Next, vars, PollStarts, ForgeAnswers, PollHears, PollFails, Refresh, Launch,
           ReuseReviews, MetadataWritten, ReviewReady, NothingToReview, PublishFails, KilledEnds,
           BeginFix, FixEnds, DecideFix, ApproveGate, RejectGate, CancelGate, CloseGate,
           BeginTeardown, Reset, Restart, Stalls
  <1> QED BY <1>1, <1>3, <1>5, <1>6

\* Copies that were right stay right.
LEMMA CopiesStay ==
    ASSUME Typed, [Next]_vars, NEW arts, ArtsOK(arts, forge)
    PROVE  ArtsOK(arts, forge')
  BY SettledStays DEF ArtsOK, Landed, Final

-----------------------------------------------------------------------------
(* The polls.                                                              *)

LEMMA PollStartsOK ==
    ASSUME Typed, NEW p \in Polls, PollStarts(p)
    PROVE  poll' \in [Polls -> Poll] /\ \A q \in Polls : poll'[q] = poll[q] \/ PollOK(poll'[q], forge')
  <1> DEFINE prs == [s \in Slots |-> IF Current(mem, s) THEN mem.arts[s].pr ELSE 0]
             new(s) == [at |-> s, heard |-> "none", gen |-> mem.gen, active |-> mem.active, prs |-> prs]
  <1>1. PICK s \in NextSlots(prs, 0) : poll' = [poll EXCEPT ![p] = new(s)]
    BY DEF PollStarts
  <1>2. prs \in [Slots -> Prs \cup {0}]
    BY DEF Typed, Gate, Arts, Art
  <1>3. mem.gen \in Nat /\ mem.active \in Nat
    BY Bounds DEF Typed, Gate
  <1>4. s \in Slots \cup {0} /\ (s # 0 => prs[s] # 0)
    BY <1>1, NextSlotsIn
  <1> HIDE DEF prs
  <1>5. new(s) \in Poll /\ PollOK(new(s), forge')
    BY <1>2, <1>3, <1>4 DEF Poll, PollOK, ForgeStates, Final
  <1> HIDE DEF new
  <1> QED BY <1>1, <1>5 DEF Typed

LEMMA ForgeAnswersOK ==
    ASSUME Typed, Landings, NEW p \in Polls, ForgeAnswers(p)
    PROVE  poll' \in [Polls -> Poll] /\ \A q \in Polls : poll'[q] = poll[q] \/ PollOK(poll'[q], forge')
  <1> DEFINE new == [poll[p] EXCEPT !.heard = forge[Asked(p)].st]
  <1>1. poll' = [poll EXCEPT ![p] = new] /\ forge' = forge /\ poll[p].at # 0
    BY DEF ForgeAnswers
  <1>2. poll[p] \in Poll /\ PollOK(poll[p], forge)
    BY DEF Typed, Landings
  <1>3. Asked(p) \in Prs /\ Asked(p) = poll[p].prs[poll[p].at]
    BY <1>1, <1>2 DEF Asked, Poll, PollOK
  <1>4. forge[Asked(p)].st \in ForgeStates
    BY <1>3 DEF Typed
  <1>5. new \in Poll
    BY <1>2, <1>4 DEF Poll
  <1>6. new.at = poll[p].at /\ new.prs = poll[p].prs /\ new.heard = forge[Asked(p)].st
    BY <1>2 DEF Poll
  <1>7. PollOK(new, forge')
    BY <1>1, <1>2, <1>3, <1>6 DEF PollOK, Settled
  <1> HIDE DEF new
  <1> QED BY <1>1, <1>5, <1>7 DEF Typed

LEMMA NoPollOK == ASSUME NEW f PROVE NoPoll \in Poll /\ PollOK(NoPoll, f)
  BY DEF NoPoll, Poll, PollOK, ForgeStates, Final

LEMMA PollHearsOK ==
    ASSUME Typed, NEW p \in Polls, PollHears(p)
    PROVE  poll' \in [Polls -> Poll] /\ \A q \in Polls : poll'[q] = poll[q] \/ PollOK(poll'[q], forge')
  <1> DEFINE next(s) == [poll[p] EXCEPT !.at = s, !.heard = "none"]
             new(s) == IF s = 0 THEN NoPoll ELSE next(s)
  <1>1. PICK s \in NextSlots(poll[p].prs, poll[p].at) : poll' = [poll EXCEPT ![p] = new(s)]
    BY DEF PollHears
  <1>2. s \in Slots \cup {0} /\ (s # 0 => poll[p].prs[s] # 0)
    BY <1>1, NextSlotsIn
  <1>3. poll[p] \in Poll
    BY DEF Typed
  <1>4. next(s) \in Poll /\ next(s).at = s /\ next(s).prs = poll[p].prs /\ next(s).heard = "none"
    BY <1>2, <1>3 DEF Poll, ForgeStates
  <1>5. PollOK(next(s), forge')
    BY <1>2, <1>4 DEF PollOK, Final
  <1>6. new(s) \in Poll /\ PollOK(new(s), forge')
    BY <1>4, <1>5, NoPollOK
  <1> HIDE DEF new
  <1> QED BY <1>1, <1>6 DEF Typed

LEMMA PollsStep ==
    ASSUME Typed, Landings, [Next]_vars
    PROVE  poll' \in [Polls -> Poll] /\ \A q \in Polls : PollOK(poll'[q], forge')
  <1>1. poll' \in [Polls -> Poll] /\ \A q \in Polls : poll'[q] = poll[q] \/ PollOK(poll'[q], forge')
    <2>1. CASE poll' = poll
      BY <2>1 DEF Typed
    <2>2. CASE \E p \in Polls : PollFails(p)
      BY <2>2, NoPollOK DEF PollFails, Typed
    <2>3. CASE Restart
      BY <2>3, NoPollOK DEF Restart
    <2>4. \/ poll' = poll \/ Restart
          \/ \E p \in Polls : PollStarts(p) \/ ForgeAnswers(p) \/ PollHears(p) \/ PollFails(p)
      BY DEF Next, vars, Refresh, Launch, OpenReview, ReuseReviews, MetadataWritten,
             ReviewReady, NothingToReview, PublishFails, KilledEnds, BeginFix, FixEnds, DecideFix,
             ApproveGate, RejectGate, CancelGate, CloseGate, BeginTeardown, Reset, CloseReview,
             Reviewed, Stalls
    <2> QED BY <2>1, <2>2, <2>3, <2>4, PollStartsOK, ForgeAnswersOK, PollHearsOK
  <1>2. ASSUME NEW q \in Polls PROVE PollOK(poll[q], forge')
    BY SettledStays DEF Landings, PollOK
  <1> QED BY <1>1, <1>2

-----------------------------------------------------------------------------
(* The publishers.                                                         *)

PubOK(x, f) == x \in Pub /\ ArtsOK(x.kept, f) /\ ArtsOK(x.arts, f)

LEMMA PublisherOK ==
    ASSUME NEW stage \in {"launch", "fix"}, NEW kept \in Arts, NEW f, ArtsOK(kept, f)
    PROVE  PubOK(Publisher(stage, kept), f)
  <1>1. 1 \in Nat
    OBVIOUS
  <1> QED BY <1>1, Bounds, NoArtsOK DEF PubOK, Publisher, Pub

LEMMA NoPublisherOK == ASSUME NEW f PROVE PubOK(NoPublisher, f)
  <1>1. 0 \in Nat
    OBVIOUS
  <1> QED BY <1>1, Bounds, NoArtsOK DEF PubOK, NoPublisher, Pub

LEMMA StageOK ==
    ASSUME NEW x, NEW f, PubOK(x, f), NEW stage \in {"killed", "written"}
    PROVE  PubOK([x EXCEPT !.stage = stage], f)
  BY DEF PubOK, Pub

LEMMA WithArtsOK ==
    ASSUME NEW x \in Pub, NEW f, NEW at \in Nat, NEW arts \in Arts, ArtsOK(arts, f)
    PROVE  PubOK([x EXCEPT !.at = at, !.kept = NoArts, !.arts = arts], f)
  BY Bounds, NoArtsOK DEF PubOK, Pub

\* One more review is open.
LEMMA OpenedOK ==
    ASSUME NEW x, NEW f, PubOK(x, f), NEW s \in Slots, NEW p \in Prs
    PROVE  PubOK([x EXCEPT !.at = @ + 1, !.kept = NoArts,
                           !.arts = [@ EXCEPT ![s] = [pr |-> p, st |-> "open"]]], f)
  <1> DEFINE art == [pr |-> p, st |-> "open"]
             arts == [x.arts EXCEPT ![s] = art]
             at == x.at + 1
  <1>1. art \in Art /\ art.st # "approved"
    BY DEF Art, ArtStates
  <1>2. x \in Pub /\ x.arts \in Arts /\ ArtsOK(x.arts, f) /\ at \in Nat
    BY DEF PubOK, Pub
  <1> HIDE DEF art
  <1>3. arts \in Arts /\ ArtsOK(arts, f)
    BY <1>1, <1>2 DEF Arts, ArtsOK
  <1> HIDE DEF arts, at
  <1>4. PubOK([x EXCEPT !.at = at, !.kept = NoArts, !.arts = arts], f)
    BY <1>2, <1>3, WithArtsOK
  <1> QED BY <1>4 DEF art, arts, at

LEMMA ReusedOK ==
    ASSUME NEW x, NEW f, PubOK(x, f)
    PROVE  PubOK([x EXCEPT !.at = SlotCount + 1, !.kept = NoArts, !.arts = x.kept], f)
  <1>1. SlotCount + 1 \in Nat
    BY ReviewBoundsAssumption
  <1> QED BY <1>1, WithArtsOK DEF PubOK, Pub

LEMMA PubsOK ==
    ASSUME Typed, Landings, [Next]_vars, NEW g \in Gens
    PROVE  PubOK(pub[g], forge')
  BY CopiesStay DEF Typed, Landings, PubOK

LEMMA KilledOK ==
    ASSUME Typed, Landings, [Next]_vars, NEW h \in Gens, pub' = Killed(h), NEW g \in Gens
    PROVE  pub' \in [Gens -> Pub] /\ PubOK(pub'[g], forge')
  <1> DEFINE new == [pub[h] EXCEPT !.stage = IF @ = "launch" THEN "killed" ELSE @]
  <1>1. new = pub[h] \/ new = [pub[h] EXCEPT !.stage = "killed"]
    BY DEF Typed, Pub
  <1>2. PubOK(new, forge')
    BY <1>1, PubsOK, StageOK
  <1>3. pub' = [pub EXCEPT ![h] = new]
    BY DEF Killed
  <1> HIDE DEF new
  <1> QED BY <1>2, <1>3, PubsOK DEF Typed, PubOK

LEMMA PubsStep ==
    ASSUME Typed, Landings, [Next]_vars
    PROVE  pub' \in [Gens -> Pub] /\ \A g \in Gens : PubOK(pub'[g], forge')
  <1> USE DEF Works
  <1>1. ASSUME NEW g \in Gens, NEW x, PubOK(x, forge'), pub' = [pub EXCEPT ![g] = x]
        PROVE  pub' \in [Gens -> Pub] /\ \A h \in Gens : PubOK(pub'[h], forge')
    BY <1>1, PubsOK DEF Typed, PubOK
  <1>2. CASE pub' = pub
    BY <1>2, PubsOK DEF Typed
  <1>3. CASE Launch \/ DecideFix
    <2>1. row.gen \in Gens /\ row.arts \in Arts /\ ArtsOK(row.arts, forge')
      BY CopiesStay DEF Typed, Landings, Gate
    <2>2. PubOK(Publisher("launch", NoArts), forge') /\ PubOK(Publisher("fix", row.arts), forge')
      BY <2>1, PublisherOK, NoArtsOK, Bounds
    <2>3. \/ pub' = pub
          \/ pub' = [pub EXCEPT ![row.gen] = Publisher("launch", NoArts)]
          \/ pub' = [pub EXCEPT ![row.gen] = Publisher("fix", row.arts)]
      BY <1>3 DEF Launch, DecideFix
    <2> QED BY <1>1, <1>2, <2>1, <2>2, <2>3
  <1>4. ASSUME NEW g \in Gens, OpenReview(g)
        PROVE  pub' \in [Gens -> Pub] /\ \A h \in Gens : PubOK(pub'[h], forge')
    <2>1. pub[g].at \in Slots
      BY <1>4 DEF OpenReview, Published
    <2>2. PICK p \in Prs :
              pub' = [pub EXCEPT ![g].at = @ + 1, ![g].kept = NoArts,
                                 ![g].arts = [@ EXCEPT ![pub[g].at] = [pr |-> p, st |-> "open"]]]
      BY <1>4 DEF OpenReview
    <2>3. PubOK([pub[g] EXCEPT !.at = @ + 1, !.kept = NoArts,
                               !.arts = [@ EXCEPT ![pub[g].at] = [pr |-> p, st |-> "open"]]], forge')
      BY <2>1, PubsOK, OpenedOK
    <2>4. pub' = [pub EXCEPT ![g] = [pub[g] EXCEPT !.at = @ + 1, !.kept = NoArts,
                                        !.arts = [@ EXCEPT ![pub[g].at] = [pr |-> p, st |-> "open"]]]]
      BY <2>2 DEF Typed
    <2> QED BY <1>1, <2>3, <2>4
  <1>5. ASSUME NEW g \in Gens, ReuseReviews(g)
        PROVE  pub' \in [Gens -> Pub] /\ \A h \in Gens : PubOK(pub'[h], forge')
    <2>1. pub' = [pub EXCEPT ![g] = [pub[g] EXCEPT !.at = SlotCount + 1, !.kept = NoArts,
                                        !.arts = pub[g].kept]]
      BY <1>5 DEF ReuseReviews, Typed
    <2> QED BY <1>1, <2>1, PubsOK, ReusedOK
  <1>6. ASSUME NEW g \in Gens, MetadataWritten(g)
        PROVE  pub' \in [Gens -> Pub] /\ \A h \in Gens : PubOK(pub'[h], forge')
    <2>1. pub' = [pub EXCEPT ![g] = [pub[g] EXCEPT !.stage = "written"]]
      BY <1>6 DEF MetadataWritten, Typed
    <2> QED BY <1>1, <2>1, PubsOK, StageOK
  <1>7. ASSUME NEW g \in Gens, ReviewReady(g) \/ NothingToReview(g) \/ PublishFails(g) \/ KilledEnds(g)
        PROVE  pub' \in [Gens -> Pub] /\ \A h \in Gens : PubOK(pub'[h], forge')
    <2>1. pub' = [pub EXCEPT ![g] = NoPublisher]
      BY <1>7 DEF ReviewReady, NothingToReview, PublishFails, KilledEnds, Ended
    <2> QED BY <1>1, <2>1, NoPublisherOK
  <1>8. CASE CancelGate \/ Reset
    <2>1. pub' = Killed(row.gen) /\ row.gen \in Gens
      BY <1>8 DEF CancelGate, Reset, Typed, Gate
    <2>2. \E g : g \in Gens
      BY <2>1
    <2> QED BY <2>1, <2>2, KilledOK
  <1>9. CASE Restart
    BY <1>9, NoPublisherOK DEF Restart, PubOK
  <1>10. \/ pub' = pub \/ Launch \/ DecideFix \/ CancelGate \/ Reset \/ Restart
         \/ \E g \in Gens :
               \/ OpenReview(g) \/ ReuseReviews(g) \/ MetadataWritten(g) \/ ReviewReady(g)
               \/ NothingToReview(g) \/ PublishFails(g) \/ KilledEnds(g)
    BY DEF Next, vars, PollStarts, ForgeAnswers, PollHears, PollFails, Refresh, BeginFix,
           FixEnds, ApproveGate, RejectGate, CloseGate, BeginTeardown, CloseReview, Reviewed, Stalls
  <1> QED BY <1>2, <1>3, <1>4, <1>5, <1>6, <1>7, <1>8, <1>9, <1>10

-----------------------------------------------------------------------------
(* The gate.                                                               *)

GatesOK ==
    /\ row \in Gate /\ mem \in Gate /\ agent \in Nat
    /\ ArtsOK(row.arts, forge) /\ ArtsOK(mem.arts, forge)
    /\ Stages /\ CompletedOK

\* No launch begins, and where one publishes the status stays.
LEMMA QuietStages ==
    ASSUME Typed, Stages,
           row'.gen = row.gen, mem'.gen = row.gen, row'.st # "closed" => mem'.st = row'.st,
           \A g \in Gens : pub'[g].stage = "launch" => pub[g].stage = "launch",
           agent' \in {0, agent}, row'.st = "pending" => row.st = "pending",
           pub'[row.gen].stage = "launch" => row'.st = row.st
    PROVE  Stages' /\ agent' \in Nat
  <1>1. row.gen \in Gens /\ row.gen \in Nat /\ row.gen # 0
    BY Bounds DEF Typed, Gate
  <1>2. agent' <= row'.gen
    BY <1>1 DEF Typed, Stages
  <1>3. agent' = row'.gen => row'.st # "pending" /\ pub'[row'.gen].stage # "launch"
    BY <1>1 DEF Stages
  <1>4. \A g \in Gens : pub'[g].stage = "launch" => g <= row'.gen /\ (g = row'.gen => row'.st = "running")
    BY <1>1 DEF Stages
  <1>5. agent' \in Nat
    BY DEF Typed
  <1> QED BY <1>2, <1>3, <1>4, <1>5 DEF Stages

\* The steps that leave the gate alone.
LEMMA GatesUnchanged ==
    ASSUME IInv, [Next]_vars, row' = row, mem' = mem, agent' = agent,
           \A g \in Gens : pub'[g].stage = "launch" => pub[g].stage = "launch"
    PROVE  GatesOK'
  <1>1. Stages' /\ agent' \in Nat
    <2>1. row.gen \in Gens
      BY DEF IInv, Typed, Gate
    <2> QED BY <2>1, QuietStages DEF IInv, Stages
  <1>2. ArtsOK(row.arts, forge') /\ ArtsOK(mem.arts, forge')
    BY CopiesStay DEF IInv, Landings
  <1>3. CompletedOK'
    BY DEF IInv, CompletedOK, AllApproved, CurrentSlots, Current
  <1> QED BY <1>1, <1>2, <1>3 DEF GatesOK, IInv, Typed

LEMMA IdleSteps ==
    ASSUME IInv,
           \/ \E p \in Polls : PollStarts(p) \/ ForgeAnswers(p) \/ PollFails(p)
           \/ \E g \in Gens : OpenReview(g) \/ ReuseReviews(g) \/ KilledEnds(g)
           \/ BeginTeardown
           \/ \E p \in Prs : CloseReview(p) \/ Reviewed(p)
    PROVE  GatesOK'
  <1>1. row' = row /\ mem' = mem /\ agent' = agent
    BY DEF PollStarts, ForgeAnswers, PollFails, OpenReview, ReuseReviews, KilledEnds, BeginTeardown,
           CloseReview, Reviewed
  <1>2. ASSUME NEW g \in Gens, pub'[g].stage = "launch" PROVE pub[g].stage = "launch"
    <2>1. pub \in [Gens -> Pub]
      BY DEF IInv, Typed
    <2>2. CASE pub' = pub
      BY <1>2, <2>2
    <2>3. ASSUME NEW h \in Gens, OpenReview(h)
          PROVE  pub'[g].stage = pub[g].stage
      <3>1. PICK p \in Prs :
                pub' = [pub EXCEPT ![h].at = @ + 1, ![h].kept = NoArts,
                                   ![h].arts = [@ EXCEPT ![pub[h].at] = [pr |-> p, st |-> "open"]]]
        BY <2>3 DEF OpenReview
      <3> QED BY <2>1, <3>1 DEF Pub
    <2>4. ASSUME NEW h \in Gens, ReuseReviews(h)
          PROVE  pub'[g].stage = pub[g].stage
      BY <2>1, <2>4 DEF ReuseReviews, Pub
    <2>5. ASSUME NEW h \in Gens, KilledEnds(h)
          PROVE  pub'[g].stage \in {pub[g].stage, "none"}
      BY <2>1, <2>5 DEF KilledEnds, Ended, NoPublisher
    <2>6. pub' = pub \/ \E h \in Gens : OpenReview(h) \/ ReuseReviews(h) \/ KilledEnds(h)
      BY DEF PollStarts, ForgeAnswers, PollFails, BeginTeardown, CloseReview, Reviewed
    <2> QED BY <1>2, <2>2, <2>3, <2>4, <2>5, <2>6
  <1>3. [Next]_vars
    BY DEF Next
  <1> QED BY <1>1, <1>2, <1>3, GatesUnchanged

\* A step that writes the gate to the row and the cache, keeps its
\* generation and starts no launch.
LEMMA WrittenOK ==
    ASSUME IInv, [Next]_vars, NEW gate \in Gate, Write(gate),
           ArtsOK(gate.arts, forge'), gate.gen = row.gen,
           gate.st = "completed" => AllApproved(gate),
           \A g \in Gens : pub'[g].stage = "launch" => pub[g].stage = "launch",
           agent' \in {0, agent}, gate.st = "pending" => row.st = "pending",
           pub'[row.gen].stage = "launch" => gate.st = row.st
    PROVE  GatesOK'
  <1>1. row' = gate /\ mem' = gate
    BY DEF Write
  <1>2. Stages' /\ agent' \in Nat
    BY <1>1, QuietStages DEF IInv
  <1>3. CompletedOK'
    BY <1>1 DEF CompletedOK, AllApproved, CurrentSlots, Current
  <1> QED BY <1>1, <1>2, <1>3 DEF GatesOK

\* What the invariant says of the gate.
LEMMA RowFacts ==
    ASSUME IInv, [Next]_vars
    PROVE  /\ row \in Gate /\ mem \in Gate /\ row.gen \in Gens /\ pub \in [Gens -> Pub]
           /\ mem.gen = row.gen /\ (row.st # "closed" => mem.st = row.st)
           /\ ArtsOK(row.arts, forge') /\ ArtsOK(mem.arts, forge')
           /\ pub[row.gen].stage = "launch" => row.st = "running" /\ agent # row.gen
  <1>1. ArtsOK(row.arts, forge') /\ ArtsOK(mem.arts, forge')
    BY CopiesStay DEF IInv, Landings
  <1>2. pub[row.gen].stage = "launch" => row.st = "running" /\ agent # row.gen
    BY DEF IInv, Typed, Gate, Stages
  <1> QED BY <1>1, <1>2 DEF IInv, Typed, Gate, Stages

LEMMA CompletedGate ==
    ASSUME NEW gate \in Gate
    PROVE  /\ Completed(gate) \in Gate /\ Completed(gate).arts = gate.arts
           /\ Completed(gate).gen = gate.gen /\ Completed(gate).st = "completed"
  BY DEF Completed, Gate, Statuses, Entries

LEMMA RefreshStep == ASSUME IInv, Refresh PROVE GatesOK'
  <1> [Next]_vars
    BY DEF Next
  <1>1. row' = row /\ mem' = row /\ agent' = agent /\ pub' = pub
    BY DEF Refresh
  <1>2. Write(row)
    BY <1>1 DEF Write
  <1> QED BY <1>1, <1>2, RowFacts, WrittenOK DEF IInv, CompletedOK

\* An answer is written while the cache asks, so that no launch publishes and
\* the gate is not completed.
LEMMA PollHearsStep == ASSUME IInv, NEW p \in Polls, PollHears(p) PROVE GatesOK'
  <1> [Next]_vars
    BY DEF Next
  <1> DEFINE answer == poll[p].heard
             updated == Updated(mem, Asked(p), answer)
             written == [row EXCEPT !.arts = updated, !.active = mem.active,
                                    !.st = IF answer = "closed" THEN "closed" ELSE @]
  <1>1. /\ pub' = pub /\ agent' = agent /\ forge' = forge
        /\ poll[p].at # 0 /\ answer # "none"
    BY DEF PollHears
  <1>2. answer \in ForgeStates \ {"none"} /\ (answer = "merged" => Landed(Asked(p), forge'))
    BY <1>1 DEF IInv, Typed, Poll, Landings, PollOK, Asked, Landed, Final
  <1>3. updated \in Arts /\ ArtsOK(updated, forge')
    BY <1>2, RowFacts, UpdatedOK
  <1>4. PICK w : w = written
    OBVIOUS
  <1>5. mem.active \in Nat
    BY RowFacts DEF Gate
  <1> HIDE DEF updated
  <1>6. /\ w \in Gate /\ w.arts = updated /\ w.gen = row.gen
        /\ w.st \in {row.st, "closed"}
    <2>1. written \in Gate
      BY <1>3, <1>5, RowFacts DEF Gate, Statuses
    <2>2. written.arts = updated /\ written.gen = row.gen /\ written.st \in {row.st, "closed"}
      BY RowFacts DEF Gate
    <2> QED BY <1>4, <2>1, <2>2
  <1>7. \/ UNCHANGED <<row, mem>>
        \/ /\ Asks(mem)
           /\ \/ GateApproved(w) /\ Write(IF Asks(w) THEN Completed(w) ELSE w)
              \/ row' = w /\ mem' = mem
    BY <1>4 DEF PollHears, StillMatches, updated
  <1> HIDE DEF written
  <1>8. CASE UNCHANGED <<row, mem>>
    BY <1>1, <1>8, GatesUnchanged
  <1>9. ASSUME Asks(mem) PROVE pub[row.gen].stage # "launch" /\ row.st # "completed" /\ row.st # "pending"
    BY <1>9, RowFacts DEF Asks
  <1>10. CASE Asks(mem) /\ GateApproved(w) /\ Write(IF Asks(w) THEN Completed(w) ELSE w)
    <2>1. AllApproved(w)
      BY <1>10 DEF GateApproved, AllApproved
    <2>2. AllApproved(Completed(w))
      BY <2>1, <1>6, CompletedGate DEF AllApproved, CurrentSlots, Current
    <2>3. CASE Asks(w)
      BY <1>1, <1>3, <1>6, <1>9, <1>10, <2>2, <2>3, CompletedGate, WrittenOK
    <2>4. CASE ~Asks(w)
      BY <1>1, <1>3, <1>6, <1>9, <1>10, <2>1, <2>4, WrittenOK
    <2> QED BY <2>3, <2>4
  <1>11. CASE Asks(mem) /\ row' = w /\ mem' = mem
    <2>1. Stages' /\ agent' \in Nat
      BY <1>1, <1>6, <1>9, <1>11, RowFacts, QuietStages DEF IInv
    <2>2. row.st # "completed"
      BY <1>9, <1>11
    <2>3. CompletedOK'
      BY <1>6, <1>11, <2>2 DEF CompletedOK
    <2> QED BY <1>3, <1>6, <1>11, <2>1, <2>3, RowFacts DEF GatesOK
  <1> QED BY <1>7, <1>8, <1>10, <1>11

\* The executor writes its artifacts to a gate that runs.
LEMMA MetadataWrittenStep == ASSUME IInv, NEW g \in Gens, MetadataWritten(g) PROVE GatesOK'
  <1> [Next]_vars
    BY DEF Next
  <1>1. /\ mem' = mem /\ agent' = agent /\ pub[g].stage = "launch"
        /\ pub' = [pub EXCEPT ![g].stage = "written"]
        /\ row' = IF mem.gen = g THEN [row EXCEPT !.arts = pub[g].arts, !.active = g] ELSE row
    BY DEF MetadataWritten
  <1>2. \A h \in Gens : pub'[h].stage = "launch" => pub[h].stage = "launch" /\ h # g
    BY <1>1, RowFacts DEF Pub
  <1>3. CASE mem.gen # g
    BY <1>1, <1>2, <1>3, GatesUnchanged
  <1>4. CASE mem.gen = g
    <2>1. pub[g] \in Pub /\ pub[g].arts \in Arts /\ ArtsOK(pub[g].arts, forge') /\ g \in Nat
      BY RowFacts, PubsOK, Bounds DEF IInv, PubOK, Pub
    <2>2. row' \in Gate /\ row'.arts = pub[g].arts /\ row'.gen = row.gen /\ row'.st = row.st
      BY <1>1, <1>4, <2>1, RowFacts DEF Gate
    <2>3. row.st = "running"
      BY <1>1, <1>4, RowFacts
    <2>4. Stages' /\ agent' \in Nat
      BY <1>1, <1>2, <2>2, <2>3, RowFacts, QuietStages DEF IInv
    <2>5. CompletedOK'
      BY <2>2, <2>3 DEF CompletedOK
    <2> QED BY <1>1, <2>1, <2>2, <2>4, <2>5, RowFacts DEF GatesOK
  <1> QED BY <1>3, <1>4

\* The end of a publication.
LEMMA PublishedStep ==
    ASSUME IInv, NEW g \in Gens, ReviewReady(g) \/ NothingToReview(g) \/ PublishFails(g)
    PROVE  GatesOK'
  <1> [Next]_vars
    BY DEF Next
  <1>1. agent' = agent /\ pub' = [pub EXCEPT ![g] = NoPublisher]
    BY DEF ReviewReady, NothingToReview, PublishFails, Ended
  <1>2. \A h \in Gens : pub'[h].stage = "launch" => pub[h].stage = "launch" /\ h # g
    BY <1>1, RowFacts DEF NoPublisher
  <1>3. CASE Write(row)
    BY <1>1, <1>2, <1>3, RowFacts, WrittenOK DEF IInv, CompletedOK
  <1>4. ASSUME row.gen = g, NEW gate \in Gate, Write(gate), ArtsOK(gate.arts, forge'),
               gate.gen = row.gen, gate.st # "pending", gate.st = "completed" => AllApproved(gate)
        PROVE  GatesOK'
    BY <1>1, <1>2, <1>4, WrittenOK
  <1>5. pub[g].arts \in Arts /\ ArtsOK(pub[g].arts, forge') /\ g \in Nat
    BY RowFacts, PubsOK, Bounds DEF IInv, PubOK, Pub
  <1>6. CASE ReviewReady(g)
    <2>1. PICK gate : gate = UnderReview(row, g, pub[g].arts)
      OBVIOUS
    <2>2. Write(gate)
      BY <1>6, <2>1 DEF ReviewReady
    <2>3. CASE ~(row.gen = g /\ row.st = "running")
      BY <1>3, <2>1, <2>2, <2>3 DEF UnderReview
    <2>4. CASE row.gen = g /\ row.st = "running"
      <3>1. gate = [row EXCEPT !.st = "review_ready", !.arts = pub[g].arts, !.active = g]
        BY <2>1, <2>4 DEF UnderReview
      <3>2. gate \in Gate /\ gate.arts = pub[g].arts /\ gate.gen = row.gen /\ gate.st = "review_ready"
        BY <1>5, <3>1, RowFacts DEF Gate, Statuses
      <3> QED BY <1>4, <1>5, <2>2, <2>4, <3>2
    <2> QED BY <2>3, <2>4
  <1>7. CASE NothingToReview(g)
    <2>1. CASE row.gen # g \/ row.st # "running"
      BY <1>3, <1>7, <2>1 DEF NothingToReview
    <2>2. CASE row.gen = g /\ row.st = "running" /\ pub[g].stage = "fix"
      <3>1. PICK gate : gate = [row EXCEPT !.st = "review_ready"]
        OBVIOUS
      <3>2. Write(gate)
        BY <1>7, <2>2, <3>1 DEF NothingToReview
      <3>3. gate \in Gate /\ gate.arts = row.arts /\ gate.gen = row.gen /\ gate.st = "review_ready"
        BY <3>1, RowFacts DEF Gate, Statuses
      <3> QED BY <1>4, <2>2, <3>2, <3>3, RowFacts
    <2>3. CASE row.gen = g /\ row.st = "running" /\ pub[g].stage # "fix"
      <3>1. PICK gate : gate = [Completed(row) EXCEPT !.arts = NoArts, !.active = 0]
        OBVIOUS
      <3>2. Write(gate)
        BY <1>7, <2>3, <3>1 DEF NothingToReview
      <3>3. gate \in Gate /\ gate.arts = NoArts /\ gate.gen = row.gen /\ gate.st = "completed"
        BY <3>1, RowFacts, CompletedGate, Bounds DEF Gate, Statuses
      <3>4. AllApproved(gate)
        BY <3>3 DEF AllApproved, CurrentSlots, Current, NoArts, Nobody
      <3> QED BY <1>4, <2>3, <3>2, <3>3, <3>4, NoArtsOK
    <2> QED BY <2>1, <2>2, <2>3
  <1>8. CASE PublishFails(g)
    <2>1. CASE ~(row.gen = g /\ row.st = "running")
      BY <1>3, <1>8, <2>1 DEF PublishFails
    <2>2. CASE row.gen = g /\ row.st = "running"
      <3>1. PICK gate : gate = [row EXCEPT !.st = "failed"]
        OBVIOUS
      <3>2. Write(gate)
        BY <1>8, <2>2, <3>1 DEF PublishFails
      <3>3. gate \in Gate /\ gate.arts = row.arts /\ gate.gen = row.gen /\ gate.st = "failed"
        BY <3>1, RowFacts DEF Gate, Statuses
      <3> QED BY <1>4, <2>2, <3>2, <3>3, RowFacts
    <2> QED BY <2>1, <2>2
  <1> QED BY <1>6, <1>7, <1>8

LEMMA LaunchStep == ASSUME IInv, Launch PROVE GatesOK'
  <1> [Next]_vars
    BY DEF Next
  <1>1. PICK gate : gate = [row EXCEPT !.st = "running"]
    OBVIOUS
  <1>2. /\ row.st = "pending" /\ row' = gate /\ mem' = gate /\ agent' = agent
        /\ pub' = [pub EXCEPT ![row.gen] = Publisher("launch", NoArts)]
    BY <1>1 DEF Launch, Write
  <1>3. gate \in Gate /\ gate.arts = row.arts /\ gate.gen = row.gen /\ gate.st = "running"
    BY <1>1, RowFacts DEF Gate, Statuses
  <1>4. agent # row.gen
    BY <1>2 DEF IInv, Stages
  <1>5. ASSUME NEW g \in Gens, pub'[g].stage = "launch"
        PROVE  g <= gate.gen /\ (g = gate.gen => gate.st = "running")
    <2>1. CASE g = row.gen
      BY <1>3, <2>1, Bounds
    <2>2. CASE g # row.gen
      <3>1. pub'[g] = pub[g]
        BY <1>2, <2>2, RowFacts
      <3> QED BY <1>3, <1>5, <2>2, <3>1 DEF IInv, Stages
    <2> QED BY <2>1, <2>2
  <1>6. Stages'
    BY <1>2, <1>3, <1>4, <1>5 DEF IInv, Stages
  <1>7. CompletedOK'
    BY <1>2, <1>3 DEF CompletedOK
  <1> QED BY <1>2, <1>3, <1>6, <1>7, RowFacts DEF GatesOK, IInv, Typed

\* A fix session and a reset begin a generation nobody has published for.
LEMMA BeginFixStep == ASSUME IInv, BeginFix PROVE GatesOK'
  <1> [Next]_vars
    BY DEF Next
  <1>1. PICK gate : gate = [row EXCEPT !.st = "fixing_with_ai", !.entry = row.st, !.gen = @ + 1]
    OBVIOUS
  <1>2. /\ row' = gate /\ mem' = gate /\ agent' = row.gen + 1 /\ pub' = pub
        /\ row.gen < MaxGen /\ row.st \in {"review_ready", "awaiting_approval", "failed"}
    BY <1>1 DEF BeginFix, Write, Asks
  <1>3. row.gen + 1 \in Gens /\ row.gen \in Nat
    BY <1>2, RowFacts, ReviewBoundsAssumption DEF Gens
  <1>4. gate \in Gate /\ gate.arts = row.arts /\ gate.gen = row.gen + 1 /\ gate.st = "fixing_with_ai"
    BY <1>1, <1>2, <1>3, RowFacts DEF Gate, Statuses, Entries
  <1>5. \A g \in Gens : pub[g].stage = "launch" => g <= row.gen /\ g \in Nat
    BY Bounds DEF IInv, Stages
  <1>6. Stages'
    BY <1>2, <1>3, <1>4, <1>5 DEF Stages
  <1>7. CompletedOK'
    BY <1>2, <1>4 DEF CompletedOK
  <1> QED BY <1>2, <1>3, <1>4, <1>6, <1>7, RowFacts DEF GatesOK

LEMMA KilledStages ==
    ASSUME IInv, NEW h \in Gens, pub' = Killed(h)
    PROVE  \A g \in Gens : pub'[g].stage = "launch" => pub[g].stage = "launch" /\ g # h
  BY DEF IInv, Typed, Pub, Killed

LEMMA ResetStep == ASSUME IInv, Reset PROVE GatesOK'
  <1> [Next]_vars
    BY DEF Next
  <1>1. /\ row' = Discarded(row) /\ mem' = Discarded(row) /\ agent' = agent
        /\ pub' = Killed(row.gen) /\ row.gen < MaxGen
    BY DEF Reset, Write
  <1>2. /\ row' \in Gate /\ ArtsOK(row'.arts, forge')
        /\ row'.gen = row.gen + 1 /\ row'.st = "pending"
    BY <1>1, RowFacts, DiscardedOK
  <1>3. row.gen \in Nat /\ agent \in Nat /\ agent <= row.gen
    BY RowFacts, Bounds DEF IInv, Typed, Stages
  <1>4. \A g \in Gens : pub'[g].stage = "launch" => g <= row.gen /\ g \in Nat
    BY <1>1, KilledStages, RowFacts, Bounds DEF IInv, Stages
  <1>5. Stages'
    BY <1>1, <1>2, <1>3, <1>4 DEF Stages
  <1>6. CompletedOK'
    BY <1>2 DEF CompletedOK
  <1> QED BY <1>1, <1>2, <1>3, <1>5, <1>6 DEF GatesOK

\* The agent ends, a person decides about its fix, or it is found stalled.
LEMMA SessionSteps == ASSUME IInv, FixEnds \/ DecideFix \/ Stalls PROVE GatesOK'
  <1> [Next]_vars
    BY DEF Next
  <1>1. row \in Gate /\ ArtsOK(row.arts, forge')
    BY RowFacts
  <1>2. ASSUME NEW gate \in Gate, Write(gate), gate.arts = row.arts, gate.gen = row.gen,
               gate.st # "completed", gate.st = "pending" => row.st = "pending",
               agent' \in {0, agent}, pub[row.gen].stage # "launch",
               \A g \in Gens : pub'[g].stage = "launch" => pub[g].stage = "launch"
        PROVE  GatesOK'
    BY <1>1, <1>2, RowFacts, WrittenOK
  <1>3. ASSUME Write(Reverted(row)), row.st # "completed",
               agent' \in {0, agent}, pub' = pub, pub[row.gen].stage # "launch"
        PROVE  GatesOK'
    <2>1. /\ Reverted(row) \in Gate /\ Reverted(row).arts = row.arts /\ Reverted(row).gen = row.gen
          /\ Reverted(row).st # row.st => Reverted(row).st \in Entries \ {"none"}
      BY <1>1, RevertedOK
    <2>2. Reverted(row).st # "completed" /\ (Reverted(row).st = "pending" => row.st = "pending")
      BY <1>3, <2>1 DEF Entries
    <2> QED BY <1>2, <1>3, <2>1, <2>2
  <1>4. CASE FixEnds
    <2>1. agent' = 0 /\ pub' = pub /\ agent # 0
      BY <1>4 DEF FixEnds
    <2>2. CASE Write(row)
      BY <1>1, <2>1, <2>2, WrittenOK DEF IInv, CompletedOK
    <2>3. CASE row.gen = agent /\ Write(Reverted(row)) /\ row.st # "completed"
      BY <1>3, <2>1, <2>3, RowFacts
    <2>4. CASE row.gen = agent /\ Write(Reverted(row)) /\ row.st = "completed"
      <3>1. /\ Reverted(row) \in Gate /\ Reverted(row).arts = row.arts /\ Reverted(row).gen = row.gen
            /\ Reverted(row).st # row.st => Reverted(row).st \in Entries \ {"none"}
        BY <1>1, RevertedOK
      <3>2. Reverted(row).st = "completed" => AllApproved(Reverted(row))
        BY <2>4, <3>1 DEF IInv, CompletedOK, AllApproved, CurrentSlots, Current
      <3>3. Reverted(row).st # "pending"
        BY <2>4, <3>1 DEF Entries
      <3> QED BY <1>1, <2>1, <2>4, <3>1, <3>2, <3>3, RowFacts, WrittenOK
    <2>5. CASE /\ row.gen = agent /\ row.st = "fixing_with_ai"
               /\ Write([row EXCEPT !.st = "awaiting_approval", !.parked = TRUE])
      <3>1. PICK gate : gate = [row EXCEPT !.st = "awaiting_approval", !.parked = TRUE]
        OBVIOUS
      <3>2. gate \in Gate /\ gate.arts = row.arts /\ gate.gen = row.gen /\ gate.st = "awaiting_approval"
        BY <1>1, <3>1 DEF Gate, Statuses
      <3> QED BY <1>2, <2>1, <2>5, <3>1, <3>2, RowFacts
    <2> QED BY <1>4, <2>2, <2>3, <2>4, <2>5 DEF FixEnds
  <1>5. CASE DecideFix
    <2>1. row.st \in {"review_ready", "awaiting_approval"} /\ agent' = agent
      BY <1>5 DEF DecideFix, Asks
    <2>2. pub[row.gen].stage # "launch"
      BY <2>1, RowFacts
    <2>3. CASE Write(Reverted(row)) /\ pub' = pub
      BY <1>3, <2>1, <2>2, <2>3
    <2>4. CASE /\ Write([row EXCEPT !.st = "running", !.parked = FALSE, !.entry = "none"])
               /\ pub' = [pub EXCEPT ![row.gen] = Publisher("fix", row.arts)]
      <3>1. PICK gate : gate = [row EXCEPT !.st = "running", !.parked = FALSE, !.entry = "none"]
        OBVIOUS
      <3>2. gate \in Gate /\ gate.arts = row.arts /\ gate.gen = row.gen /\ gate.st = "running"
        BY <1>1, <3>1 DEF Gate, Statuses, Entries
      <3>3. \A g \in Gens : pub'[g].stage = "launch" => pub[g].stage = "launch"
        BY <2>4, RowFacts DEF Publisher
      <3> QED BY <1>2, <2>1, <2>2, <2>4, <3>1, <3>2, <3>3
    <2> QED BY <1>5, <2>3, <2>4 DEF DecideFix
  <1>6. CASE Stalls
    <2>1. /\ pub' = pub /\ agent' = agent /\ row.st \in {"running", "fixing_with_ai"}
          /\ pub[row.gen].stage # "launch"
      BY <1>6, RowFacts DEF Stalls
    <2>2. CASE Write(Reverted(row))
      BY <1>3, <2>1, <2>2
    <2>3. CASE Write([row EXCEPT !.st = "failed"])
      <3>1. PICK gate : gate = [row EXCEPT !.st = "failed"]
        OBVIOUS
      <3>2. gate \in Gate /\ gate.arts = row.arts /\ gate.gen = row.gen /\ gate.st = "failed"
        BY <1>1, <3>1 DEF Gate, Statuses
      <3> QED BY <1>2, <2>1, <2>3, <3>1, <3>2
    <2> QED BY <1>6, <2>2, <2>3 DEF Stalls
  <1> QED BY <1>4, <1>5, <1>6

\* Approvals, rejections, cancels, closes and the next owner.
LEMMA RequestSteps ==
    ASSUME IInv, ApproveGate \/ RejectGate \/ CancelGate \/ CloseGate \/ Restart
    PROVE  GatesOK'
  <1> [Next]_vars
    BY DEF Next
  <1>1. row \in Gate /\ ArtsOK(row.arts, forge') /\ row.gen \in Gens
    BY RowFacts
  <1>2. ASSUME NEW st \in {"failed", "closed"}, NEW entry \in {row.entry, "none"},
               NEW gate, gate = [row EXCEPT !.st = st, !.entry = entry]
        PROVE  gate \in Gate /\ gate.arts = row.arts /\ gate.gen = row.gen /\ gate.st = st
    BY <1>1, <1>2 DEF Gate, Statuses, Entries
  <1>3. CASE ApproveGate
    <2>1. Asks(row) /\ pub' = pub /\ agent' = agent
      BY <1>3 DEF ApproveGate
    <2>2. pub[row.gen].stage # "launch"
      BY <2>1, RowFacts DEF Asks
    <2>3. CASE AllApproved(row)
      <3>1. Write(Completed(row))
        BY <1>3, <2>3 DEF ApproveGate
      <3>2. AllApproved(Completed(row))
        BY <1>1, <2>3, CompletedGate DEF AllApproved, CurrentSlots, Current
      <3> QED BY <1>1, <2>1, <2>2, <3>1, <3>2, CompletedGate, WrittenOK
    <2>4. CASE ~AllApproved(row)
      <3>1. Write(row)
        BY <1>3, <2>4 DEF ApproveGate
      <3> QED BY <1>1, <2>1, <3>1, WrittenOK DEF IInv, CompletedOK
    <2> QED BY <2>3, <2>4
  <1>4. CASE RejectGate \/ CloseGate
    <2>1. /\ pub' = pub /\ agent' = agent
          /\ row.st \in {"review_ready", "awaiting_approval", "failed", "completed"}
      BY <1>4 DEF RejectGate, CloseGate, Asks
    <2>2. PICK st \in {"failed", "closed"}, entry \in {row.entry, "none"} :
              Write([row EXCEPT !.st = st, !.entry = entry])
      <3>1. CASE RejectGate
        BY <3>1 DEF RejectGate
      <3>2. CASE CloseGate
        <4>1. [row EXCEPT !.st = "closed"] = [row EXCEPT !.st = "closed", !.entry = row.entry]
          BY <1>1 DEF Gate
        <4> QED BY <3>2, <4>1 DEF CloseGate
      <3> QED BY <1>4, <3>1, <3>2
    <2>3. PICK gate : gate = [row EXCEPT !.st = st, !.entry = entry]
      OBVIOUS
    <2>4. gate \in Gate /\ gate.arts = row.arts /\ gate.gen = row.gen /\ gate.st = st
      BY <1>2, <2>3
    <2>5. pub[row.gen].stage # "launch"
      BY <2>1, RowFacts
    <2>6. Write(gate)
      BY <2>3, <2>2
    <2> QED BY <1>1, <2>1, <2>4, <2>5, <2>6, WrittenOK
  <1>5. CASE CancelGate
    <2>1. PICK gate : gate = [row EXCEPT !.st = "failed"]
      OBVIOUS
    <2>2. Write(gate) /\ agent' = agent /\ pub' = Killed(row.gen)
      BY <1>5, <2>1 DEF CancelGate
    <2>3. gate \in Gate /\ gate.arts = row.arts /\ gate.gen = row.gen /\ gate.st = "failed"
      BY <1>1, <2>1 DEF Gate, Statuses
    <2>4. \A g \in Gens : pub'[g].stage = "launch" => pub[g].stage = "launch" /\ g # row.gen
      BY <1>1, <2>2, KilledStages
    <2> QED BY <1>1, <2>2, <2>3, <2>4, WrittenOK
  <1>6. CASE Restart
    <2>1. Write(row) /\ agent' = 0 /\ \A g \in Gens : pub'[g].stage = "none"
      BY <1>6 DEF Restart, Write, NoPublisher
    <2> QED BY <1>1, <2>1, WrittenOK DEF IInv, CompletedOK
  <1> QED BY <1>3, <1>4, <1>5, <1>6

-----------------------------------------------------------------------------

LEMMA MovesStep == ASSUME Typed, [Next]_vars PROVE moves' \in Nat
  <1>1. moves' \in {moves, moves + 1}
    BY DEF Move, Next, vars, PollStarts, ForgeAnswers, PollHears, PollFails, Refresh, Launch,
           OpenReview, ReuseReviews, MetadataWritten, ReviewReady, NothingToReview, PublishFails,
           KilledEnds, BeginFix, FixEnds, DecideFix, ApproveGate, RejectGate, CancelGate,
           CloseGate, BeginTeardown, Reset, CloseReview, Reviewed, Restart, Stalls
  <1> QED BY <1>1 DEF Typed

\* Nothing is approved, launched or completed at first.
LEMMA InitIInv == Init => IInv
  <1> SUFFICES ASSUME Init PROVE IInv
    OBVIOUS
  <1>1. 1 \in Gens /\ 1 \in Nat /\ 0 \in Nat
    BY ReviewBoundsAssumption DEF Gens
  <1>2. row \in Gate /\ mem = row /\ row.arts = NoArts /\ row.st = "pending" /\ row.gen = 1 /\ agent = 0
    BY <1>1, Bounds DEF Init, Gate, Statuses, Entries
  <1>3. forge \in [Prs -> [slot : Nat, st : ForgeStates]]
    BY <1>1 DEF Init, ForgeStates
  <1>4. poll \in [Polls -> Poll] /\ \A p \in Polls : PollOK(poll[p], forge)
    BY NoPollOK DEF Init
  <1>5. pub \in [Gens -> Pub] /\ \A g \in Gens : PubOK(pub[g], forge) /\ pub[g].stage = "none"
    BY NoPublisherOK DEF Init, PubOK, NoPublisher
  <1>6. Typed
    <2>1. moves \in Nat
      BY <1>1 DEF Init
    <2> QED BY <1>1, <1>2, <1>3, <1>4, <1>5, <2>1 DEF Typed
  <1>7. Landings
    BY <1>2, <1>4, <1>5, NoArtsOK DEF Landings, PubOK
  <1>8. Stages
    BY <1>1, <1>2, <1>5 DEF Stages
  <1>9. CompletedOK
    BY <1>2 DEF CompletedOK
  <1> QED BY <1>6, <1>7, <1>8, <1>9 DEF IInv

\* Every step keeps the invariant.
LEMMA NextIInv == IInv /\ [Next]_vars => IInv'
  <1> SUFFICES ASSUME IInv, [Next]_vars PROVE IInv'
    OBVIOUS
  <1>1. GatesOK'
    <2>1. CASE UNCHANGED vars
      BY <2>1, GatesUnchanged DEF vars
    <2>2. CASE Next
      BY <2>2, IdleSteps, RefreshStep, PollHearsStep, MetadataWrittenStep, PublishedStep, LaunchStep,
         BeginFixStep, ResetStep, SessionSteps, RequestSteps DEF Next
    <2> QED BY <2>1, <2>2
  <1>2. forge' \in [Prs -> [slot : Nat, st : ForgeStates]]
    BY SettledStays DEF IInv
  <1>3. poll' \in [Polls -> Poll] /\ \A p \in Polls : PollOK(poll'[p], forge')
    BY PollsStep DEF IInv
  <1>4. pub' \in [Gens -> Pub] /\ \A g \in Gens : PubOK(pub'[g], forge')
    BY PubsStep DEF IInv
  <1>5. Typed'
    <2>1. moves' \in Nat
      BY MovesStep DEF IInv
    <2> QED BY <1>1, <1>2, <1>3, <1>4, <2>1 DEF Typed, GatesOK
  <1>6. Landings'
    BY <1>1, <1>3, <1>4 DEF Landings, GatesOK, PubOK
  <1> QED BY <1>1, <1>5, <1>6 DEF IInv, GatesOK

\* In every behaviour what is recorded as approved has landed, and nobody
\* writes artifacts into a gate that is completed.
THEOREM ReviewInvariant == Spec => []IInv
  BY InitIInv, NextIInv, PTL DEF Spec

\* A merge gate is completed only when the pull requests of its publication
\* are merged, whatever polls, approvals, fixes, retries, cancels and
\* restarts come in which order.
THEOREM ReviewCompletedIsLanded == Spec => []CompletedIsLanded
  <1>1. IInv => CompletedIsLanded
    BY DEF IInv, CompletedOK, AllApproved, CurrentSlots, Landings, ArtsOK, Landed, Settled, CompletedIsLanded
  <1> QED BY <1>1, ReviewInvariant, PTL

\* Only a poll that heard of a closed review closes the gate without a move.
LEMMA ClosingStep ==
    ASSUME IInv, [Next]_vars, row.st # "closed", row'.st = "closed", moves' = moves
    PROVE  \E p \in Polls : PollHears(p)
  <1>0. row \in Gate /\ moves \in Nat /\ moves + 1 # moves
    BY DEF IInv, Typed
  <1>1. row' # row /\ ~CloseGate
    BY <1>0 DEF CloseGate, Move
  <1>2. Reverted(row).st # "closed"
    BY <1>0, RevertedOK DEF Entries
  <1>3. \A g \in Gens : UnderReview(row, g, pub[g].arts).st # "closed"
    BY <1>0, UnderReviewStates
  <1>4. Completed(row).st # "closed" /\ [Completed(row) EXCEPT !.arts = NoArts, !.active = 0].st # "closed"
    BY <1>0, CompletedGate DEF Gate
  <1>5. \A st \in {"running", "failed", "review_ready"} : [row EXCEPT !.st = st].st # "closed"
    BY <1>0 DEF Gate
  <1>6. Discarded(row).st # "closed"
    BY DEF Discarded
  <1>7. /\ [row EXCEPT !.st = "fixing_with_ai", !.entry = row.st, !.gen = @ + 1].st # "closed"
        /\ [row EXCEPT !.st = "awaiting_approval", !.parked = TRUE].st # "closed"
        /\ [row EXCEPT !.st = "running", !.parked = FALSE, !.entry = "none"].st # "closed"
        /\ [row EXCEPT !.st = "failed", !.entry = "none"].st # "closed"
    BY <1>0 DEF Gate
  <1>8. ~BeginFix /\ ~FixEnds /\ ~DecideFix /\ ~Stalls /\ ~ApproveGate /\ ~RejectGate /\ ~CancelGate
    BY <1>1, <1>2, <1>4, <1>5, <1>7 DEF BeginFix, FixEnds, DecideFix, Stalls, ApproveGate, RejectGate, CancelGate, Write
  <1>9. \A g \in Gens : ~ReviewReady(g) /\ ~NothingToReview(g) /\ ~PublishFails(g)
    BY <1>1, <1>3, <1>4, <1>5 DEF ReviewReady, NothingToReview, PublishFails, Write
  <1>10. ~Launch /\ ~Reset
    BY <1>5, <1>6 DEF Launch, Reset, Write
  <1>11. \A g \in Gens : ~MetadataWritten(g)
    <2> SUFFICES ASSUME NEW g \in Gens, MetadataWritten(g) PROVE FALSE
      OBVIOUS
    <2>1. [row EXCEPT !.arts = pub[g].arts, !.active = g].st = row.st
      BY <1>0 DEF Gate
    <2> QED BY <2>1 DEF MetadataWritten
  <1>12. /\ ~Refresh /\ ~BeginTeardown /\ ~Restart
         /\ \A g \in Gens : ~OpenReview(g) /\ ~ReuseReviews(g) /\ ~KilledEnds(g)
         /\ \A p \in Prs : ~CloseReview(p) /\ ~Reviewed(p)
         /\ \A p \in Polls : ~PollStarts(p) /\ ~ForgeAnswers(p) /\ ~PollFails(p)
         /\ ~UNCHANGED vars
    BY <1>1 DEF Refresh, BeginTeardown, Restart, OpenReview, ReuseReviews, KilledEnds, CloseReview,
           Reviewed, PollStarts, ForgeAnswers, PollFails, vars
  <1> QED BY <1>1, <1>8, <1>9, <1>10, <1>11, <1>12 DEF Next

\* What it heard is one of the current reviews, which is closed.
LEMMA ClosedStep ==
    ASSUME IInv, NEW p \in Polls, PollHears(p), row.st # "closed", row'.st = "closed"
    PROVE  \E s \in CurrentSlots(row') : forge[row'.arts[s].pr].st = "closed"
  <1> [Next]_vars
    BY DEF Next
  <1> DEFINE answer == poll[p].heard
             updated == Updated(mem, Asked(p), answer)
             written == [row EXCEPT !.arts = updated, !.active = mem.active,
                                    !.st = IF answer = "closed" THEN "closed" ELSE @]
  <1>1. row \in Gate /\ mem \in Gate
    BY RowFacts
  <1>2. PICK w : w = written
    OBVIOUS
  <1>3. w.arts = updated /\ w.st = IF answer = "closed" THEN "closed" ELSE row.st
    BY <1>1, <1>2 DEF Gate
  <1>4. /\ StillMatches(poll[p], mem, Asked(p))
        /\ row' = w \/ row' = Completed(w)
    BY <1>2 DEF PollHears, Write
  <1>5. Completed(w).st = "completed"
    BY <1>1, <1>2 DEF Completed, Gate
  <1>6. row' = w /\ answer = "closed"
    BY <1>3, <1>4, <1>5
  <1>7. Settled(Asked(p), "closed", forge)
    BY <1>6 DEF IInv, Landings, PollOK, Asked, Final
  <1>8. PICK s \in Slots : Current(mem, s) /\ mem.arts[s].pr = Asked(p)
    BY <1>4 DEF StillMatches, CurrentSlots
  <1>9. updated[s] = [mem.arts[s] EXCEPT !.st = "closed"] /\ mem.arts[s] \in Art
    BY <1>1, <1>6, <1>8 DEF Updated, Gate, Arts
  <1>10. row'.arts[s].st = "closed" /\ row'.arts[s].pr = Asked(p)
    BY <1>3, <1>6, <1>8, <1>9 DEF Art
  <1> QED BY <1>7, <1>8, <1>10 DEF CurrentSlots, Current, Settled

\* Unless a person or the sweep closes it, a gate is closed only by a closed
\* review of its own publication.
THEOREM ReviewClosedForACause == Spec => ClosedForACause
  <1>1. IInv /\ [Next]_vars =>
            [(row.st # "closed" /\ row'.st = "closed" /\ moves' = moves) =>
                 \E s \in CurrentSlots(row') : forge[row'.arts[s].pr].st = "closed"]_vars
    BY ClosingStep, ClosedStep
  <1> QED BY <1>1, ReviewInvariant, PTL DEF Spec, ClosedForACause

=============================================================================
