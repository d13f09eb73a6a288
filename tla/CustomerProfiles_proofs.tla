----------------------- MODULE CustomerProfiles_proofs -----------------------
(***************************************************************************)
(* A call puts itself into one history only, and no copy of a profile tells  *)
(* of it before: that is why a lost update loses whole calls and never makes *)
(* a history that no run of calls could have left.                          *)
(***************************************************************************)
EXTENDS CustomerProfiles, TLAPS

\* The steps that work on a profile, and those of the clearing.
Holding ==
  {"write", "reread", "clear", "clearing", "extract", "extracting", "reclear", "reclearing",
   "backfill", "view", "fetch", "link"}
Clearing == {"clear", "clearing", "reclear", "reclearing"}

Placed ==
  \A p \in Procs :
    /\ pc[p] \in Holding => on[p] # 0
    /\ after[p] # "backfill"
    /\ pc[p] \in Clearing \/ after[p] \in Clearing => p \in Inbound

\* A request that has not named an identifier does not come to a step that needs it.
Asked ==
  \A r \in Requests :
    whom[r] = "none" => pc[r] \in {"idle", "view", "done", "backfill"} /\ after[r] = "done"

Typed == TypeOK /\ Placed /\ Asked

-----------------------------------------------------------------------------
LEMMA NewProfileType ==
  ASSUME NEW id \in Ids, NEW email \in Emails \union {"none"}, NEW phone \in Phones \union {"none"}
  PROVE  /\ NewProfile(id, email, phone) \in Profile
         /\ NewProfile(id, email, phone).recent = <<>>
         /\ NewProfile(id, email, phone).older = {}
         /\ NewProfile(id, email, phone).total = 0
         /\ NewProfile(id, email, phone).dnd = "unset"
         /\ ~NewProfile(id, email, phone).gone
<1>1. IF email = "none" /\ id \in Emails THEN id \in Emails ELSE email \in Emails \union {"none"}
  OBVIOUS
<1>2. IF phone = "none" /\ id \in Phones THEN id \in Phones ELSE phone \in Phones \union {"none"}
  OBVIOUS
<1>. QED
  BY <1>1, <1>2 DEF NewProfile, Profile

LEMMA NoProfileType ==
  /\ NoProfile \in Profile
  /\ NoProfile.recent = <<>> /\ NoProfile.older = {} /\ NoProfile.total = 0
  /\ NoProfile.dnd = "unset"
<1>1. "none" \notin Emails /\ "none" \notin Phones
  BY NamesAssumption DEF Ids
<1> DEFINE n == NewProfile("none", "none", "none")
<1>3. n \in Profile /\ n.recent = <<>> /\ n.older = {} /\ n.total = 0 /\ n.dnd = "unset"
  BY <1>1 DEF NewProfile, Profile
<1>4. NoProfile = [n EXCEPT !.gone = TRUE]
  BY DEF NoProfile
<1> HIDE DEF n
<1>. QED
  BY <1>3, <1>4 DEF Profile

\* What update_one does to each profile.
LEMMA UpdateEffect ==
  ASSUME profiles \in Seq(Profile), NEW i \in DOMAIN profiles, NEW new \in Profile, Update(i, new)
  PROVE  /\ profiles' \in Seq(Profile)
         /\ DOMAIN profiles' = DOMAIN profiles
         /\ \A j \in DOMAIN profiles :
              profiles'[j] = IF j = i /\ ~profiles[i].gone THEN new ELSE profiles[j]
  BY DEF Update

LEMMA InsertEffect ==
  ASSUME profiles \in Seq(Profile), NEW p \in Procs, NEW new \in Profile, NEW next,
         Insert(p, new, next)
  PROVE  /\ profiles' \in Seq(Profile)
         /\ DOMAIN profiles \subseteq DOMAIN profiles'
         /\ Len(profiles) + 1 \in DOMAIN profiles' /\ Len(profiles) + 1 # 0
         /\ DOMAIN profiles' = DOMAIN profiles \union {Len(profiles) + 1}
         /\ profiles'[Len(profiles) + 1] = new
         /\ \A j \in DOMAIN profiles : profiles'[j] = profiles[j]
  BY DEF Insert

LEMMA CanonicalIsLive ==
  ASSUME NEW id, NEW i \in Canonical(id)
  PROVE  i \in DOMAIN profiles /\ ~profiles[i].gone
  BY DEF Canonical, Matching

\* What a read does to the variables of the process that reads.
LEMMA ReadEffect ==
  ASSUME TypeOK, NEW p \in Procs, NEW i \in DOMAIN profiles, NEW next \in Steps, Read(p, i, next)
  PROVE  /\ profiles' = profiles
         /\ snap' \in [Procs -> Profile] /\ on' \in [Procs -> {0} \union DOMAIN profiles]
         /\ pc' \in [Procs -> Steps] /\ after' \in [Procs -> Steps]
         /\ \A q \in Procs \ {p} : /\ snap'[q] = snap[q] /\ on'[q] = on[q]
                                   /\ pc'[q] = pc[q] /\ after'[q] = after[q]
         /\ on'[p] = i /\ i # 0
         /\ snap'[p].recent = profiles[i].recent /\ snap'[p].older = profiles[i].older
         /\ snap'[p].total = profiles[i].total
         /\ snap'[p].dnd = IF profiles[i].dnd = "unset" THEN "clear" ELSE profiles[i].dnd
         /\ \/ profiles[i].dnd = "unset" /\ pc'[p] = "backfill" /\ after'[p] = next
            \/ profiles[i].dnd # "unset" /\ pc'[p] = next /\ after'[p] = after[p]
<1>1. profiles[i] \in Profile /\ i \in Nat \ {0}
  BY DEF TypeOK
<1>2. "backfill" \in Steps
  BY DEF Steps
<1>3. [profiles[i] EXCEPT !.dnd = IF profiles[i].dnd = "unset" THEN "clear" ELSE @] \in Profile
  BY <1>1 DEF Profile
<1>. QED
  BY <1>1, <1>2, <1>3 DEF TypeOK, Read, Profile

LEMMA GotoEffect ==
  ASSUME TypeOK, NEW p \in Procs, NEW next \in Steps, Goto(p, next)
  PROVE  /\ snap' \in [Procs -> Profile]
         /\ pc' \in [Procs -> Steps]
         /\ \A q \in Procs \ {p} : snap'[q] = snap[q] /\ pc'[q] = pc[q]
         /\ snap'[p] = NoProfile /\ pc'[p] = next
         /\ on' = on /\ after' = after
  BY NoProfileType DEF TypeOK, Goto

-----------------------------------------------------------------------------
(* Types.                                                                   *)

LEMMA InitTyped == Init => Typed
<1> SUFFICES ASSUME Init PROVE Typed
  OBVIOUS
<1>1. profiles \in Seq(Profile)
  <2>1. ASSUME NEW c \in Past, NEW dnd \in {"unset", "clear"} PROVE Known(c, dnd) \in Profile
    <3>1. Caller[c] \in Ids /\ c \in Calls /\ <<c>> \in Seq(Calls)
      BY CallsAssumption
    <3> DEFINE n == NewProfile(Caller[c], "none", "none")
    <3>2. n \in Profile
      BY <3>1, NewProfileType
    <3>3. Known(c, dnd) = [n EXCEPT !.recent = <<c>>, !.total = 1, !.dnd = dnd]
      BY DEF Known
    <3>4. dnd \in {"unset", "clear"} \union Calls /\ 1 \in Nat
      OBVIOUS
    <3> HIDE DEF n
    <3>5. [n EXCEPT !.recent = <<c>>, !.total = 1, !.dnd = dnd] \in Profile
      BY <3>1, <3>2, <3>4 DEF Profile
    <3>. QED
      BY <3>3, <3>5
  <2>2. ASSUME NEW c \in Past, NEW dnd \in {"unset", "clear"}, profiles = <<Known(c, dnd)>>
        PROVE  profiles \in Seq(Profile)
    <3>1. Known(c, dnd) \in Profile
      BY <2>1
    <3>. QED
      BY <2>2, <3>1
  <2>3. ASSUME profiles = <<>> PROVE profiles \in Seq(Profile)
    BY <2>3
  <2>. QED
    BY <2>2, <2>3 DEF Init
<1>2. TypeOK
  BY <1>1, NoProfileType DEF Init, TypeOK, Steps
<1>3. \A p \in Procs : pc[p] \in {"idle", "done", "dial", "lookup"} /\ after[p] = "done"
  BY DEF Init
<1>4. \A r \in Requests : pc[r] = "idle"
  BY NamesAssumption, CallsAssumption DEF Init, Procs
<1>5. Placed /\ Asked
  BY <1>3, <1>4 DEF Placed, Asked, Holding, Clearing, Procs
<1>. QED
  BY <1>2, <1>5 DEF Typed

\* A step of one process that leaves the others alone keeps the invariant if it
\* keeps what is said of that process.
LEMMA OneProcess ==
  ASSUME Typed, NEW p \in Procs,
         profiles' \in Seq(Profile), DOMAIN profiles \subseteq DOMAIN profiles',
         snap' \in [Procs -> Profile],
         pc' \in [Procs -> Steps], after' \in [Procs -> Steps],
         on' \in [Procs -> {0} \union DOMAIN profiles'],
         whom' \in [Requests -> Ids \union {"none"}],
         \A q \in Procs \ {p} : on'[q] = on[q] /\ pc'[q] = pc[q] /\ after'[q] = after[q],
         \A r \in Requests \ {p} : whom'[r] = whom[r],
         pc'[p] \in Holding => on'[p] # 0,
         after'[p] # "backfill",
         pc'[p] \in Clearing \/ after'[p] \in Clearing => p \in Inbound,
         p \in Requests =>
           (whom'[p] = "none" => pc'[p] \in {"idle", "view", "done", "backfill"} /\ after'[p] = "done")
  PROVE  Typed'
<1>1. TypeOK'
  BY DEF Typed, TypeOK
<1>2. Placed'
  BY DEF Typed, Placed
<1>3. Asked'
  BY DEF Typed, Asked, Procs
<1>. QED
  BY <1>1, <1>2, <1>3 DEF Typed

LEMMA ReadTyped ==
  ASSUME Typed, NEW p \in Procs, NEW i \in DOMAIN profiles, NEW next \in Steps, Read(p, i, next),
         next # "backfill",
         next \in Clearing => p \in Inbound,
         pc[p] # "backfill",
         whom' \in [Requests -> Ids \union {"none"}],
         \A r \in Requests \ {p} : whom'[r] = whom[r],
         p \in Requests => next = "done" \/ whom'[p] # "none",
         p \in Requests => whom'[p] = whom[p] \/ whom'[p] # "none"
  PROVE  Typed'
<1>1. TypeOK
  BY DEF Typed
<1>2. after[p] # "backfill" /\ (after[p] \in Clearing => p \in Inbound)
  BY DEF Typed, Placed
<1>3. "backfill" \notin Clearing
  BY DEF Clearing
<1>4. p \in Requests => (whom[p] = "none" => after[p] = "done")
  BY DEF Typed, Asked
<1>5. profiles' \in Seq(Profile) /\ DOMAIN profiles' = DOMAIN profiles
  BY <1>1, ReadEffect DEF TypeOK
<1>6. pc'[p] \in Holding => on'[p] # 0
  BY <1>1, ReadEffect
<1>7. after'[p] # "backfill" /\ (pc'[p] \in Clearing \/ after'[p] \in Clearing => p \in Inbound)
  BY <1>1, <1>2, <1>3, ReadEffect
<1>8. p \in Requests =>
        (whom'[p] = "none" => pc'[p] \in {"idle", "view", "done", "backfill"} /\ after'[p] = "done")
  BY <1>1, <1>4, ReadEffect
<1>9. /\ snap' \in [Procs -> Profile] /\ on' \in [Procs -> {0} \union DOMAIN profiles']
      /\ pc' \in [Procs -> Steps] /\ after' \in [Procs -> Steps]
      /\ \A q \in Procs \ {p} : on'[q] = on[q] /\ pc'[q] = pc[q] /\ after'[q] = after[q]
  BY <1>1, <1>5, ReadEffect
<1>. QED
  BY <1>5, <1>6, <1>7, <1>8, <1>9, OneProcess

LEMMA GotoTyped ==
  ASSUME Typed, NEW p \in Procs, NEW next \in Steps, Goto(p, next),
         profiles' \in Seq(Profile), DOMAIN profiles' = DOMAIN profiles,
         next \in Holding => on[p] # 0,
         next \in Clearing => p \in Inbound,
         whom' \in [Requests -> Ids \union {"none"}],
         \A r \in Requests \ {p} : whom'[r] = whom[r],
         p \in Requests =>
           whom'[p] # "none" \/ (whom' = whom /\ next \in {"idle", "view", "done", "backfill"})
  PROVE  Typed'
<1>1. TypeOK
  BY DEF Typed
<1>2. after[p] # "backfill" /\ (after[p] \in Clearing => p \in Inbound)
  BY DEF Typed, Placed
<1>3. p \in Requests => (whom[p] = "none" => after[p] = "done")
  BY DEF Typed, Asked
<1>4. on' \in [Procs -> {0} \union DOMAIN profiles'] /\ after' \in [Procs -> Steps]
  BY <1>1, GotoEffect DEF TypeOK
<1>. QED
  BY <1>1, <1>2, <1>3, <1>4, GotoEffect, OneProcess

\* A profile with a new identity, and a profile with another dnd object.
LEMMA ChangedProfileType ==
  ASSUME NEW p \in Profile
  PROVE  /\ \A id \in Ids : WithField(p, id) \in Profile
         /\ \A id \in Ids : [p EXCEPT !.linked = @ \union {id}] \in Profile
         /\ \A id \in Ids : [p EXCEPT !.linked = @ \ {id}] \in Profile
         /\ \A dnd \in {"unset", "clear"} \union Calls : [p EXCEPT !.dnd = dnd] \in Profile
  BY DEF WithField, Profile, Ids

LEMMA UpdateGotoTyped ==
  ASSUME Typed, NEW p \in Procs, on[p] # 0, NEW new \in Profile, Update(on[p], new),
         NEW next \in Steps, Goto(p, next),
         next \in Clearing => p \in Inbound,
         UNCHANGED whom,
         p \in Requests => whom[p] # "none" \/ next \in {"idle", "view", "done", "backfill"}
  PROVE  Typed'
<1>1. on[p] \in DOMAIN profiles /\ profiles \in Seq(Profile)
  BY DEF Typed, TypeOK
<1>2. profiles' \in Seq(Profile) /\ DOMAIN profiles' = DOMAIN profiles
  BY <1>1, UpdateEffect
<1>3. whom' \in [Requests -> Ids \union {"none"}] /\ \A r \in Requests \ {p} : whom'[r] = whom[r]
  BY DEF Typed, TypeOK
<1>. QED
  BY <1>2, <1>3, GotoTyped

LEMMA FetchTyped ==
  ASSUME Typed, NEW c \in Calls, NEW here \in Holding \ {"backfill"},
         NEW next \in Steps \ {"backfill"}, NEW missing \in Steps, Fetch(c, here, next, missing),
         missing \in Holding => missing # "backfill",
         next \in Clearing \/ missing \in Clearing => c \in Inbound
  PROVE  Typed'
<1>1. c \in Procs /\ c \notin Requests /\ pc[c] = here /\ on[c] \in DOMAIN profiles /\ on[c] # 0
  BY NamesAssumption DEF Procs, Fetch, Typed, Placed, TypeOK
<1>2. whom' = whom /\ whom \in [Requests -> Ids \union {"none"}] /\ profiles \in Seq(Profile)
  BY DEF Fetch, Typed, TypeOK
<1>3. CASE Goto(c, missing) /\ UNCHANGED profiles
  BY <1>1, <1>2, <1>3, GotoTyped
<1>4. CASE Read(c, on[c], next)
  BY <1>1, <1>2, <1>4, ReadTyped
<1>. QED
  BY <1>3, <1>4 DEF Fetch

LEMMA ClearTyped ==
  ASSUME Typed, NEW c \in Inbound, NEW here \in {"clear", "reclear"},
         NEW there \in {"clearing", "reclearing"}, NEW next \in {"extract", "done"},
         Clear(c, <<here, there>>, next)
  PROVE  Typed'
<1>1. c \in Calls /\ c \in Procs /\ c \notin Requests
  BY CallsAssumption, NamesAssumption DEF Procs
<1>2. CASE Fetch(c, here, there, next)
  BY <1>1, <1>2, FetchTyped DEF Holding, Clearing, Steps
<1>3. CASE /\ pc[c] = there
           /\ IF Blocked(snap[c]) THEN Update(on[c], [profiles[on[c]] EXCEPT !.dnd = "clear"])
              ELSE UNCHANGED profiles
           /\ Goto(c, next)
           /\ UNCHANGED whom
  <2>1. on[c] # 0 /\ on[c] \in DOMAIN profiles /\ profiles[on[c]] \in Profile
    BY <1>1, <1>3 DEF Typed, TypeOK, Placed, Holding
  <2>2. next \in Steps /\ next \notin Clearing
    BY DEF Steps, Clearing
  <2>3. CASE Update(on[c], [profiles[on[c]] EXCEPT !.dnd = "clear"])
    <3>1. [profiles[on[c]] EXCEPT !.dnd = "clear"] \in Profile
      BY <2>1, ChangedProfileType
    <3>. QED
      BY <1>1, <1>3, <2>1, <2>2, <2>3, <3>1, UpdateGotoTyped
  <2>4. CASE UNCHANGED profiles
    <3>1. /\ profiles' \in Seq(Profile) /\ DOMAIN profiles' = DOMAIN profiles
          /\ whom' \in [Requests -> Ids \union {"none"}]
          /\ whom' = whom
      BY <1>3, <2>4 DEF Typed, TypeOK
    <3>. QED
      BY <1>1, <1>3, <2>1, <2>2, <3>1, GotoTyped
  <2>. QED
    BY <1>3, <2>3, <2>4
<1>. QED
  BY <1>2, <1>3 DEF Clear

\* What a call writes of its history.
LEMMA WriteEffect ==
  ASSUME Typed, NEW c \in Calls, Write(c)
  PROVE  LET recent == <<c>> \o snap[c].recent
             full == Len(recent) > Window
         IN /\ on[c] # 0 /\ on[c] \in DOMAIN profiles
            /\ Goto(c, "reread") /\ UNCHANGED whom
            /\ \E new \in Profile, kept \in BOOLEAN :
                 /\ Update(on[c], new)
                 /\ new.recent = IF full THEN SubSeq(recent, 1, Len(recent) - 1) ELSE recent
                 /\ new.older = IF full /\ kept THEN snap[c].older \union {recent[Len(recent)]}
                                ELSE snap[c].older
                 /\ new.total = snap[c].total + 1
                 /\ new.dnd = profiles[on[c]].dnd
<1> DEFINE recent == <<c>> \o snap[c].recent
           full == Len(recent) > Window
           new(kept) == [profiles[on[c]] EXCEPT
                  !.recent = IF full THEN SubSeq(recent, 1, Len(recent) - 1) ELSE recent,
                  !.older = IF full /\ kept THEN snap[c].older \union {recent[Len(recent)]}
                            ELSE snap[c].older,
                  !.total = snap[c].total + 1]
<1>1. c \in Procs
  BY DEF Procs
<1>2. on[c] # 0 /\ on[c] \in DOMAIN profiles /\ profiles[on[c]] \in Profile /\ snap[c] \in Profile
  BY <1>1 DEF Write, Typed, TypeOK, Placed, Holding
<1>3. PICK kept \in BOOLEAN : Update(on[c], new(kept))
  BY DEF Write
<1> DEFINE r == IF full THEN SubSeq(recent, 1, Len(recent) - 1) ELSE recent
           o == IF full /\ kept THEN snap[c].older \union {recent[Len(recent)]} ELSE snap[c].older
           t == snap[c].total + 1
<1>4. /\ new(kept) \in Profile
      /\ new(kept).recent = r /\ new(kept).older = o /\ new(kept).total = t
      /\ new(kept).dnd = profiles[on[c]].dnd
  <2>1. recent \in Seq(Calls) /\ Len(recent) = Len(snap[c].recent) + 1 /\ Len(snap[c].recent) \in Nat
    BY <1>2 DEF Profile
  <2>2. recent[Len(recent)] \in Calls /\ SubSeq(recent, 1, Len(recent) - 1) \in Seq(Calls)
    BY <2>1
  <2>3. r \in Seq(Calls) /\ o \in SUBSET Calls /\ t \in Nat
    BY <1>2, <2>1, <2>2 DEF Profile
  <2>4. new(kept) = [profiles[on[c]] EXCEPT !.recent = r, !.older = o, !.total = t]
    BY Zenon
  <2>5. PICK p \in Profile : p = profiles[on[c]]
    BY <1>2
  <2>6. new(kept) = [p EXCEPT !.recent = r, !.older = o, !.total = t]
    BY <2>4, <2>5
  <2> HIDE DEF r, o, t, new
  <2>7. /\ new(kept) \in Profile
        /\ new(kept).recent = r /\ new(kept).older = o /\ new(kept).total = t
        /\ new(kept).dnd = p.dnd
    BY <2>3, <2>5, <2>6, ZenonT(60) DEF Profile
  <2>. QED
    BY <2>5, <2>7
<1>5. Goto(c, "reread") /\ UNCHANGED whom
  BY DEF Write
<1> HIDE DEF new
<1>. QED
  BY <1>2, <1>3, <1>4, <1>5

LEMMA CallTyped == ASSUME Typed, NEW c \in Calls, Call(c) PROVE Typed'
<1>1. c \in Procs /\ c \notin Requests
  BY NamesAssumption DEF Procs
<1>2. profiles \in Seq(Profile) /\ whom \in [Requests -> Ids \union {"none"}] /\ Caller[c] \in Ids
  BY CallsAssumption DEF Typed, TypeOK
<1>3. ASSUME NEW next \in Steps \ Holding, Goto(c, next), UNCHANGED <<profiles, whom>> PROVE Typed'
  <2>1. next \notin Clearing
    BY DEF Clearing, Holding
  <2>. QED
    BY <1>1, <1>2, <1>3, <2>1, GotoTyped
<1>4. ASSUME NEW i \in Canonical(Caller[c]), NEW next \in Steps \ (Clearing \union {"backfill"}),
             Read(c, i, next), pc[c] # "backfill", UNCHANGED whom
      PROVE  Typed'
  BY <1>1, <1>2, <1>4, CanonicalIsLive, ReadTyped
<1>5. CASE Dial(c)
  <2>1. pc[c] = "dial" /\ {"lookup", "refused"} \subseteq Steps \ Holding
        /\ {"lookup", "refused"} \subseteq Steps \ (Clearing \union {"backfill"})
    BY <1>5 DEF Dial, Steps, Holding, Clearing
  <2>. QED
    BY <1>3, <1>4, <1>5, <2>1 DEF Dial
<1>6. CASE Lookup(c)
  <2>1. pc[c] = "lookup" /\ "check" \in Steps \ Holding
        /\ "write" \in Steps \ (Clearing \union {"backfill"})
    BY <1>6 DEF Lookup, Steps, Holding, Clearing
  <2>. QED
    BY <1>3, <1>4, <1>6, <2>1 DEF Lookup
<1>7. CASE Check(c)
  <2>1. pc[c] = "check" /\ "insert" \in Steps \ Holding
        /\ "failed" \in Steps \ (Clearing \union {"backfill"})
    BY <1>7 DEF Check, Steps, Holding, Clearing
  <2>. QED
    BY <1>3, <1>4, <1>7, <2>1 DEF Check
<1>8. CASE InsertOwn(c)
  <2> DEFINE new == NewProfile(Caller[c], "none", "none")
  <2>1. new \in Profile /\ Insert(c, new, "write") /\ UNCHANGED whom
    BY <1>2, <1>8, NewProfileType DEF InsertOwn
  <2> HIDE DEF new
  <2>2. /\ profiles' \in Seq(Profile) /\ DOMAIN profiles \subseteq DOMAIN profiles'
        /\ Len(profiles) + 1 \in DOMAIN profiles' /\ Len(profiles) + 1 # 0
    BY <1>1, <1>2, <2>1, InsertEffect
  <2>3. /\ pc' = [pc EXCEPT ![c] = "write"] /\ on' = [on EXCEPT ![c] = Len(profiles) + 1]
        /\ snap' = [snap EXCEPT ![c] = new] /\ after' = after
    BY <2>1 DEF Insert
  <2>4. "write" \in Steps /\ "write" \notin Clearing
    BY DEF Steps, Clearing
  <2>5. /\ pc \in [Procs -> Steps] /\ after \in [Procs -> Steps] /\ snap \in [Procs -> Profile]
        /\ on \in [Procs -> {0} \union DOMAIN profiles]
        /\ after[c] # "backfill" /\ (after[c] \in Clearing => c \in Inbound)
    BY <1>1 DEF Typed, TypeOK, Placed
  <2>. QED
    BY <1>1, <1>2, <2>1, <2>2, <2>3, <2>4, <2>5, OneProcess
<1>9. CASE Write(c)
  <2>1. on[c] # 0 /\ on[c] \in DOMAIN profiles /\ profiles[on[c]] \in Profile /\ snap[c] \in Profile
    BY <1>1, <1>9 DEF Write, Typed, TypeOK, Placed, Holding
  <2>2. PICK new \in Profile : Update(on[c], new) /\ Goto(c, "reread") /\ UNCHANGED whom
    BY <1>9, WriteEffect
  <2>3. "reread" \in Steps /\ "reread" \notin Clearing
    BY DEF Steps, Clearing
  <2>. QED
    BY <1>1, <2>1, <2>2, <2>3, UpdateGotoTyped
<1>10. CASE Reread(c)
  BY <1>10, FetchTyped DEF Reread, Holding, Clearing, Steps
<1>11. CASE ClearAfterCall(c) \/ ClearAfterExtraction(c)
  <2>1. pc[c] \in Clearing
    BY <1>11 DEF ClearAfterCall, ClearAfterExtraction, Clear, Fetch, Clearing
  <2>2. c \in Inbound
    BY <1>1, <2>1 DEF Typed, Placed
  <2>. QED
    BY <1>11, <2>2, ClearTyped DEF ClearAfterCall, ClearAfterExtraction
<1>12. CASE Extract(c)
  BY <1>12, FetchTyped DEF Extract, AfterExtraction, Holding, Clearing, Steps
<1>13. CASE Extracted(c)
  <2>1. on[c] # 0 /\ on[c] \in DOMAIN profiles /\ profiles[on[c]] \in Profile
    BY <1>1, <1>13 DEF Extracted, Typed, TypeOK, Placed, Holding
  <2>2. AfterExtraction(c) \in Steps /\ (AfterExtraction(c) \in Clearing => c \in Inbound)
        /\ Goto(c, AfterExtraction(c)) /\ UNCHANGED whom
    BY <1>13 DEF Extracted, AfterExtraction, Steps, Clearing
  <2>3. CASE Update(on[c], [profiles[on[c]] EXCEPT !.dnd = c])
    <3>1. [profiles[on[c]] EXCEPT !.dnd = c] \in Profile
      BY <2>1, ChangedProfileType
    <3>. QED
      BY <1>1, <2>1, <2>2, <2>3, <3>1, UpdateGotoTyped
  <2>4. CASE UNCHANGED profiles
    BY <1>1, <1>2, <2>1, <2>2, <2>4, GotoTyped
  <2>. QED
    BY <1>13, <2>3, <2>4 DEF Extracted
<1>14. CASE Refuse(c)
  <2>1. "failed" \in Steps \ Holding
    BY DEF Steps, Holding
  <2>2. CASE Goto(c, "failed")
    BY <1>3, <1>14, <2>1, <2>2 DEF Refuse
  <2>3. CASE pc[c] \in {"clear", "clearing", "backfill"} /\ Goto(c, "extract")
    <3>1. "extract" \in Steps /\ "extract" \notin Clearing /\ on[c] # 0
      BY <1>1, <2>3 DEF Steps, Clearing, Typed, Placed, Holding
    <3>2. UNCHANGED <<profiles, whom>>
      BY <1>14 DEF Refuse
    <3>. QED
      BY <1>1, <1>2, <2>3, <3>1, <3>2, GotoTyped
  <2>. QED
    BY <1>14, <2>2, <2>3 DEF Refuse
<1>. QED
  BY <1>5, <1>6, <1>7, <1>8, <1>9, <1>10, <1>11, <1>12, <1>13, <1>14 DEF Call

LEMMA ChangeTyped ==
  ASSUME Typed, NEW r \in Requests, NEW i \in DOMAIN profiles, NEW new \in Profile,
         Change(r, i, new)
  PROVE  Typed'
<1>1. r \in Procs
  BY DEF Procs
<1>2. /\ profiles \in Seq(Profile) /\ whom' \in [Requests -> Ids \union {"none"}] /\ whom' = whom
      /\ pc \in [Procs -> Steps] /\ after' \in [Procs -> Steps] /\ snap' \in [Procs -> Profile]
      /\ on \in [Procs -> {0} \union DOMAIN profiles]
      /\ after' = after /\ pc[r] = "idle"
      /\ on' = [on EXCEPT ![r] = i]
      /\ pc' = [pc EXCEPT ![r] = IF profiles[i].gone THEN "done" ELSE "view"]
  BY DEF Typed, TypeOK, Change
<1>3. profiles' \in Seq(Profile) /\ DOMAIN profiles' = DOMAIN profiles /\ i # 0
  BY <1>2, UpdateEffect DEF Change
<1>4. /\ {"done", "view"} \subseteq Steps \ Clearing
      /\ after[r] # "backfill" /\ (after[r] \in Clearing => r \in Inbound)
      /\ (whom[r] = "none" => after[r] = "done")
  BY <1>1 DEF Steps, Clearing, Typed, Placed, Asked
<1>5. pc'[r] \in {"done", "view"} /\ on'[r] = i
  BY <1>1, <1>2
<1>6. on' \in [Procs -> {0} \union DOMAIN profiles'] /\ pc' \in [Procs -> Steps]
  BY <1>2, <1>3, <1>4
<1>7. \A q \in Procs \ {r} : on'[q] = on[q] /\ pc'[q] = pc[q] /\ after'[q] = after[q]
  BY <1>2
<1>. QED
  BY <1>1, <1>2, <1>3, <1>4, <1>5, <1>6, <1>7, OneProcess

LEMMA RequestTyped == ASSUME Typed, NEW r \in Requests, Request(r) PROVE Typed'
<1>1. r \in Procs
  BY DEF Procs
<1>2. /\ profiles \in Seq(Profile) /\ whom \in [Requests -> Ids \union {"none"}]
      /\ on \in [Procs -> {0} \union DOMAIN profiles] /\ 0 \notin DOMAIN profiles
      /\ pc \in [Procs -> Steps] /\ after \in [Procs -> Steps] /\ snap \in [Procs -> Profile]
      /\ after[r] # "backfill" /\ (after[r] \in Clearing => r \in Inbound)
      /\ (whom[r] = "none" => after[r] = "done")
  BY <1>1 DEF Typed, TypeOK, Placed, Asked
<1>3. /\ {"done", "view", "fetch", "link", "create"} \subseteq Steps \ (Clearing \union {"backfill"})
      /\ {"done", "create"} \subseteq Steps \ Holding
      /\ "none" \notin Ids
  BY NamesAssumption DEF Steps, Clearing, Holding
<1>4. \A i \in DOMAIN profiles : profiles[i] \in Profile
  BY <1>2
<1>5. CASE View(r)
  <2>1. pc[r] = "view" /\ on[r] # 0 /\ UNCHANGED whom
    BY <1>1, <1>5 DEF View, Typed, Placed, Holding
  <2>2. CASE Goto(r, "done") /\ UNCHANGED profiles
    BY <1>1, <1>2, <1>3, <2>1, <2>2, GotoTyped
  <2>3. CASE Read(r, on[r], "done")
    BY <1>1, <1>2, <1>3, <2>1, <2>3, ReadTyped
  <2>. QED
    BY <1>5, <2>2, <2>3 DEF View
<1>6. CASE Look(r)
  <2>1. PICK id \in Ids : \E i \in Canonical(id) : Read(r, i, "done")
    BY <1>6 DEF Look
  <2>2. PICK i \in Canonical(id) : Read(r, i, "done")
    BY <2>1
  <2>3. i \in DOMAIN profiles /\ pc[r] = "idle" /\ UNCHANGED whom
    BY <1>6, CanonicalIsLive DEF Look
  <2>. QED
    BY <1>1, <1>2, <1>3, <2>2, <2>3, ReadTyped
<1>7. CASE CreateCheck(r)
  <2>1. PICK id \in Ids :
          /\ whom' = [whom EXCEPT ![r] = id]
          /\ \/ Matching(id) = {} /\ Goto(r, "create") /\ UNCHANGED profiles
             \/ \E i \in Canonical(id) : Read(r, i, "done")
    BY <1>7 DEF CreateCheck
  <2>2. /\ whom' \in [Requests -> Ids \union {"none"}] /\ whom'[r] # "none" /\ pc[r] = "idle"
        /\ \A q \in Requests \ {r} : whom'[q] = whom[q]
    BY <1>2, <1>3, <1>7, <2>1 DEF CreateCheck
  <2>3. CASE Goto(r, "create") /\ UNCHANGED profiles
    BY <1>1, <1>2, <1>3, <2>2, <2>3, GotoTyped
  <2>4. ASSUME NEW i \in Canonical(id), Read(r, i, "done") PROVE Typed'
    BY <1>1, <1>2, <1>3, <2>2, <2>4, CanonicalIsLive, ReadTyped
  <2>. QED
    BY <2>1, <2>3, <2>4
<1>8. CASE Create(r)
  <2>1. pc[r] = "create" /\ UNCHANGED whom /\ whom[r] \in Ids
    BY <1>2, <1>8 DEF Create, Typed, Asked
  <2>2. PICK email \in Emails \union {"none"}, phone \in Phones \union {"none"} :
          Insert(r, NewProfile(whom[r], email, phone), "done")
    BY <1>8 DEF Create
  <2> DEFINE new == NewProfile(whom[r], email, phone)
  <2>3. new \in Profile
    BY <2>1, NewProfileType
  <2> HIDE DEF new
  <2>4. Insert(r, new, "done")
    BY <2>2 DEF new
  <2>5. /\ profiles' \in Seq(Profile) /\ DOMAIN profiles \subseteq DOMAIN profiles'
        /\ Len(profiles) + 1 \in DOMAIN profiles' /\ Len(profiles) + 1 # 0
    BY <1>1, <1>2, <2>3, <2>4, InsertEffect
  <2>6. /\ pc' = [pc EXCEPT ![r] = "done"] /\ on' = [on EXCEPT ![r] = Len(profiles) + 1]
        /\ snap' = [snap EXCEPT ![r] = new] /\ after' = after
    BY <2>4 DEF Insert
  <2>. QED
    BY <1>1, <1>2, <1>3, <2>1, <2>3, <2>5, <2>6, OneProcess
<1>9. CASE UpdateProfile(r)
  BY <1>4, <1>9, ChangedProfileType, ChangeTyped DEF UpdateProfile
<1>10. CASE Unlink(r)
  BY <1>4, <1>10, ChangedProfileType, ChangeTyped DEF Unlink
<1>11. CASE Delete(r)
  <2>1. PICK i \in DOMAIN profiles : profiles' = [profiles EXCEPT ![i].gone = TRUE]
    BY <1>11 DEF Delete
  <2>2. [profiles[i] EXCEPT !.gone = TRUE] \in Profile
    BY <1>4 DEF Profile
  <2>3. profiles' \in Seq(Profile) /\ DOMAIN profiles' = DOMAIN profiles
    BY <1>2, <2>1, <2>2
  <2>. QED
    BY <1>1, <1>2, <1>3, <1>11, <2>3, GotoTyped DEF Delete
<1>12. CASE LinkCheck(r)
  <2>1. PICK i \in DOMAIN profiles, id \in Ids :
          /\ whom' = [whom EXCEPT ![r] = id]
          /\ \/ /\ pc' = [pc EXCEPT ![r] = "fetch"]
                /\ on' = [on EXCEPT ![r] = i]
                /\ UNCHANGED <<profiles, after, snap>>
             \/ \E j \in Canonical(id) : Read(r, j, IF i = j THEN "fetch" ELSE "done")
    BY <1>12 DEF LinkCheck
  <2>2. /\ whom' \in [Requests -> Ids \union {"none"}] /\ whom'[r] # "none" /\ pc[r] = "idle"
        /\ \A q \in Requests \ {r} : whom'[q] = whom[q]
    BY <1>2, <1>3, <1>12, <2>1 DEF LinkCheck
  <2>3. CASE /\ pc' = [pc EXCEPT ![r] = "fetch"]
             /\ on' = [on EXCEPT ![r] = i]
             /\ UNCHANGED <<profiles, after, snap>>
    BY <1>1, <1>2, <1>3, <2>2, <2>3, OneProcess
  <2>4. ASSUME NEW j \in Canonical(id), Read(r, j, IF i = j THEN "fetch" ELSE "done") PROVE Typed'
    BY <1>1, <1>2, <1>3, <2>2, <2>4, CanonicalIsLive, ReadTyped
  <2>. QED
    BY <2>1, <2>3, <2>4
<1>13. CASE LinkFetch(r)
  <2>1. pc[r] = "fetch" /\ on[r] # 0 /\ UNCHANGED whom /\ whom[r] # "none"
    BY <1>1, <1>13 DEF LinkFetch, Typed, Placed, Asked, Holding
  <2>2. CASE Goto(r, "done") /\ UNCHANGED profiles
    BY <1>1, <1>2, <1>3, <2>1, <2>2, GotoTyped
  <2>3. CASE Read(r, on[r], IF whom[r] \in profiles[on[r]].linked THEN "done" ELSE "link")
    BY <1>1, <1>2, <1>3, <2>1, <2>3, ReadTyped
  <2>. QED
    BY <1>13, <2>2, <2>3 DEF LinkFetch
<1>14. CASE Link(r)
  <2>1. pc[r] = "link" /\ on[r] # 0 /\ UNCHANGED whom /\ whom[r] \in Ids /\ Goto(r, "view")
    BY <1>1, <1>2, <1>14 DEF Link, Typed, Placed, Asked, Holding
  <2>2. profiles[on[r]] \in Profile
    BY <1>1, <1>2, <2>1
  <2>3. PICK new \in Profile : Update(on[r], new)
    BY <1>14, <2>1, <2>2, ChangedProfileType DEF Link
  <2>. QED
    BY <1>1, <1>3, <2>1, <2>3, UpdateGotoTyped
<1>15. CASE RefuseRequest(r)
  <2>1. pc[r] \notin {"idle", "done"} /\ Goto(r, "done") /\ UNCHANGED <<profiles, whom>>
    BY <1>15 DEF RefuseRequest
  <2>. QED
    BY <1>1, <1>2, <1>3, <2>1, GotoTyped
<1>. QED
  BY <1>5, <1>6, <1>7, <1>8, <1>9, <1>10, <1>11, <1>12, <1>13, <1>14, <1>15 DEF Request

LEMMA BackfillTyped == ASSUME Typed, NEW p \in Procs, Backfill(p) PROVE Typed'
<1>1. /\ on[p] # 0 /\ on[p] \in DOMAIN profiles /\ profiles[on[p]] \in Profile
      /\ profiles \in Seq(Profile) /\ pc[p] = "backfill"
  BY DEF Backfill, Typed, TypeOK, Placed, Holding
<1>2. [profiles[on[p]] EXCEPT !.dnd = "clear"] \in Profile
  BY <1>1, ChangedProfileType
<1>3. profiles' \in Seq(Profile) /\ DOMAIN profiles' = DOMAIN profiles
  BY <1>1, <1>2, UpdateEffect DEF Backfill
<1>4. /\ pc' = [pc EXCEPT ![p] = after[p]] /\ after' = [after EXCEPT ![p] = "done"]
      /\ on' = on /\ snap' = snap /\ whom' = whom
  BY DEF Backfill
<1>5. /\ "done" \in Steps \ Clearing
      /\ after[p] \in Clearing => p \in Inbound
      /\ p \in Requests => (whom[p] = "none" => after[p] = "done")
      /\ pc \in [Procs -> Steps] /\ after \in [Procs -> Steps] /\ snap \in [Procs -> Profile]
      /\ on \in [Procs -> {0} \union DOMAIN profiles]
      /\ whom \in [Requests -> Ids \union {"none"}]
  BY DEF Steps, Clearing, Typed, TypeOK, Placed, Asked
<1>. QED
  BY <1>1, <1>3, <1>4, <1>5, OneProcess

LEMMA StepTyped == Typed /\ [Next]_vars => Typed'
<1> SUFFICES ASSUME Typed, [Next]_vars PROVE Typed'
  OBVIOUS
<1>1. CASE UNCHANGED vars
  BY <1>1 DEF vars, Typed, TypeOK, Placed, Asked
<1>. QED
  BY <1>1, CallTyped, RequestTyped, BackfillTyped DEF Next

\* Types, and that every process works on a profile that exists.
THEOREM TypeCorrect == Spec => []TypeOK
<1>1. Typed => TypeOK
  BY DEF Typed
<1>. QED
  BY <1>1, InitTyped, StepTyped, PTL DEF Spec

-----------------------------------------------------------------------------
(* History.                                                                 *)

Told(p) == p.older \union {p.recent[k] : k \in DOMAIN p.recent}

\* A call that has not yet written, and the write of a default dnd object on its way.
Unwritten == {"dial", "lookup", "check", "insert", "write"}
Early(c) == pc[c] \in Unwritten \/ (pc[c] = "backfill" /\ after[c] \in Unwritten)

History ==
  /\ \A i \in DOMAIN profiles : WholeHistory(profiles[i])
  /\ \A p \in Procs : WholeHistory(snap[p])

\* No profile, and no copy of one, tells of a call that has not written.
Untold ==
  \A c \in Calls : Early(c) =>
    /\ \A i \in DOMAIN profiles : c \notin Told(profiles[i])
    /\ \A p \in Procs : c \notin Told(snap[p])

HistInv == Typed /\ History /\ Untold

SameHistory(p, q) == p.recent = q.recent /\ p.older = q.older /\ p.total = q.total
NoHistory(p) == p.recent = <<>> /\ p.older = {} /\ p.total = 0

\* What every step but a call's write does to the histories.
QuietProfiles ==
  \A i \in DOMAIN profiles' :
    (i \in DOMAIN profiles /\ SameHistory(profiles'[i], profiles[i])) \/ NoHistory(profiles'[i])
QuietCopies ==
  \A p \in Procs :
    \/ SameHistory(snap'[p], snap[p]) \/ NoHistory(snap'[p])
    \/ \E i \in DOMAIN profiles : SameHistory(snap'[p], profiles[i])
QuietCalls == \A c \in Calls : Early(c)' => Early(c)
TellsNothing == QuietProfiles /\ QuietCopies /\ QuietCalls

LEMMA NoHistoryIsWhole == ASSUME NEW p, NoHistory(p) PROVE WholeHistory(p) /\ Told(p) = {}
  BY WindowAssumption DEF NoHistory, WholeHistory, Told

LEMMA SameHistoryIsWhole ==
  ASSUME NEW p, NEW q, SameHistory(p, q)
  PROVE  Told(p) = Told(q) /\ (WholeHistory(p) <=> WholeHistory(q))
  BY DEF SameHistory, WholeHistory, Told

LEMMA QuietHistory == ASSUME History, Untold, TellsNothing PROVE History' /\ Untold'
<1>1. ASSUME NEW i \in DOMAIN profiles'
      PROVE  /\ WholeHistory(profiles'[i])
             /\ \A c \in Calls : Early(c) => c \notin Told(profiles'[i])
  BY NoHistoryIsWhole, SameHistoryIsWhole DEF History, Untold, TellsNothing, QuietProfiles
<1>2. ASSUME NEW p \in Procs
      PROVE  /\ WholeHistory(snap'[p])
             /\ \A c \in Calls : Early(c) => c \notin Told(snap'[p])
  BY NoHistoryIsWhole, SameHistoryIsWhole DEF History, Untold, TellsNothing, QuietCopies
<1>3. History'
  BY <1>1, <1>2 DEF History, WholeHistory
<1>4. Untold'
  BY <1>1, <1>2 DEF Untold, TellsNothing, QuietCalls, Told
<1>. QED
  BY <1>3, <1>4

LEMMA UpdateQuiet ==
  ASSUME Typed, NEW i \in DOMAIN profiles, NEW new \in Profile, Update(i, new),
         SameHistory(new, profiles[i])
  PROVE  QuietProfiles
  BY UpdateEffect DEF Typed, TypeOK, QuietProfiles, SameHistory

LEMMA SameQuiet == ASSUME UNCHANGED profiles PROVE QuietProfiles
  BY DEF QuietProfiles, SameHistory

LEMMA InsertQuiet ==
  ASSUME Typed, NEW p \in Procs, NEW new \in Profile, NEW next \in Steps, Insert(p, new, next),
         NoHistory(new), p \in Calls => (next \in Unwritten => pc[p] \in Unwritten),
         next # "backfill"
  PROVE  TellsNothing
<1>1. profiles \in Seq(Profile) /\ snap \in [Procs -> Profile] /\ pc \in [Procs -> Steps]
  BY DEF Typed, TypeOK
<1>2. QuietProfiles
  BY <1>1, InsertEffect DEF QuietProfiles, SameHistory
<1>3. QuietCopies
  BY <1>1 DEF QuietCopies, SameHistory, Insert
<1>4. QuietCalls
  BY <1>1 DEF QuietCalls, Early, Insert
<1>. QED
  BY <1>2, <1>3, <1>4 DEF TellsNothing

LEMMA ReadQuiet ==
  ASSUME Typed, NEW p \in Procs, NEW i \in DOMAIN profiles, NEW next \in Steps, Read(p, i, next),
         pc[p] # "backfill", next # "backfill",
         p \in Calls => (next \in Unwritten => pc[p] \in Unwritten)
  PROVE  TellsNothing
<1>1. TypeOK
  BY DEF Typed
<1>2. QuietProfiles
  BY <1>1, ReadEffect DEF QuietProfiles, SameHistory
<1>3. QuietCopies
  BY <1>1, ReadEffect DEF QuietCopies, SameHistory
<1>4. QuietCalls
  <2>1. "backfill" \notin Unwritten
    BY DEF Unwritten
  <2>2. ASSUME NEW c \in Calls, Early(c)' PROVE Early(c)
    <3>1. c \in Procs
      BY DEF Procs
    <3>. QED
      BY <1>1, <2>1, <2>2, <3>1, ReadEffect DEF Early
  <2>. QED
    BY <2>2 DEF QuietCalls
<1>. QED
  BY <1>2, <1>3, <1>4 DEF TellsNothing

LEMMA GotoQuiet ==
  ASSUME Typed, NEW p \in Procs, NEW next \in Steps, Goto(p, next), QuietProfiles,
         next # "backfill", p \in Calls => (next \in Unwritten => Early(p))
  PROVE  TellsNothing
<1>1. TypeOK
  BY DEF Typed
<1>2. QuietCopies
  BY <1>1, GotoEffect, NoProfileType DEF QuietCopies, SameHistory, NoHistory
<1>3. QuietCalls
  BY <1>1, GotoEffect DEF QuietCalls, Early, Procs
<1>. QED
  BY <1>2, <1>3 DEF TellsNothing

LEMMA SameHistoryForms ==
  ASSUME NEW p \in Profile
  PROVE  /\ \A id \in Ids : SameHistory(WithField(p, id), p)
         /\ \A id \in Ids : SameHistory([p EXCEPT !.linked = @ \union {id}], p)
         /\ \A id \in Ids : SameHistory([p EXCEPT !.linked = @ \ {id}], p)
         /\ \A dnd : SameHistory([p EXCEPT !.dnd = dnd], p)
         /\ SameHistory([p EXCEPT !.gone = TRUE], p)
  BY DEF WithField, Profile, SameHistory

LEMMA DndQuiet ==
  ASSUME Typed, NEW i \in DOMAIN profiles, NEW dnd \in {"clear"} \union Calls,
         Update(i, [profiles[i] EXCEPT !.dnd = dnd])
  PROVE  QuietProfiles
<1>1. profiles[i] \in Profile
  BY DEF Typed, TypeOK
<1>. QED
  BY <1>1, ChangedProfileType, SameHistoryForms, UpdateQuiet

LEMMA FetchQuiet ==
  ASSUME Typed, NEW c \in Calls, NEW here \in Holding \ {"backfill"},
         NEW next \in Steps \ (Unwritten \union {"backfill"}),
         NEW missing \in Steps \ (Unwritten \union {"backfill"}), Fetch(c, here, next, missing)
  PROVE  TellsNothing
<1>1. c \in Procs /\ pc[c] = here /\ on[c] \in DOMAIN profiles
  BY DEF Procs, Fetch, Typed, Placed, TypeOK
<1>. QED
  BY <1>1, GotoQuiet, SameQuiet, ReadQuiet DEF Fetch

LEMMA ClearQuiet ==
  ASSUME Typed, NEW c \in Calls, NEW here \in {"clear", "reclear"},
         NEW there \in {"clearing", "reclearing"}, NEW next \in {"extract", "done"},
         Clear(c, <<here, there>>, next)
  PROVE  TellsNothing
<1>1. CASE Fetch(c, here, there, next)
  BY <1>1, FetchQuiet DEF Holding, Unwritten, Steps
<1>2. CASE /\ pc[c] = there
           /\ IF Blocked(snap[c]) THEN Update(on[c], [profiles[on[c]] EXCEPT !.dnd = "clear"])
              ELSE UNCHANGED profiles
           /\ Goto(c, next)
  <2>1. on[c] \in DOMAIN profiles /\ c \in Procs
    BY <1>2 DEF Typed, TypeOK, Placed, Holding, Procs
  <2>2. next \in Steps /\ next \notin Unwritten /\ next # "backfill"
    BY DEF Steps, Unwritten
  <2>3. QuietProfiles
    BY <1>2, <2>1, DndQuiet, SameQuiet
  <2>. QED
    BY <1>2, <2>1, <2>2, <2>3, GotoQuiet
<1>. QED
  BY <1>1, <1>2 DEF Clear

LEMMA CallQuiet == ASSUME Typed, NEW c \in Calls, Call(c), ~Write(c) PROVE TellsNothing
<1>1. c \in Procs
  BY DEF Procs
<1>2. ASSUME NEW id, NEW i \in Canonical(id), NEW next \in Steps, Read(c, i, next),
             pc[c] # "backfill", next # "backfill", next \in Unwritten => pc[c] \in Unwritten
      PROVE  TellsNothing
  BY <1>1, <1>2, CanonicalIsLive, ReadQuiet
<1>3. ASSUME NEW next \in Steps, Goto(c, next), UNCHANGED profiles,
             next # "backfill", next \in Unwritten => pc[c] \in Unwritten
      PROVE  TellsNothing
  BY <1>1, <1>3, GotoQuiet, SameQuiet DEF Early
<1>4. CASE Dial(c)
  BY <1>2, <1>3, <1>4 DEF Dial, Steps, Unwritten
<1>5. CASE Lookup(c)
  BY <1>2, <1>3, <1>5 DEF Lookup, Steps, Unwritten
<1>6. CASE Check(c)
  BY <1>2, <1>3, <1>6 DEF Check, Steps, Unwritten
<1>7. CASE InsertOwn(c)
  <2> DEFINE new == NewProfile(Caller[c], "none", "none")
  <2>1. new \in Profile /\ NoHistory(new) /\ Insert(c, new, "write") /\ pc[c] = "insert"
    BY <1>7, CallsAssumption, NewProfileType DEF InsertOwn, NoHistory
  <2>. QED
    BY <1>1, <2>1, InsertQuiet DEF Steps, Unwritten
<1>8. CASE Reread(c)
  BY <1>8, FetchQuiet DEF Reread, Holding, Unwritten, Steps
<1>9. CASE ClearAfterCall(c) \/ ClearAfterExtraction(c)
  BY <1>9, ClearQuiet DEF ClearAfterCall, ClearAfterExtraction
<1>10. CASE Extract(c)
  BY <1>10, FetchQuiet DEF Extract, AfterExtraction, Holding, Unwritten, Steps
<1>11. CASE Extracted(c)
  <2>1. on[c] \in DOMAIN profiles
    BY <1>1, <1>11 DEF Extracted, Typed, TypeOK, Placed, Holding
  <2>2. QuietProfiles
    BY <1>11, <2>1, DndQuiet, SameQuiet DEF Extracted
  <2>3. AfterExtraction(c) \in Steps /\ AfterExtraction(c) \notin Unwritten
        /\ AfterExtraction(c) # "backfill"
    BY DEF AfterExtraction, Steps, Unwritten
  <2>. QED
    BY <1>1, <1>11, <2>2, <2>3, GotoQuiet DEF Extracted
<1>12. CASE Refuse(c)
  BY <1>3, <1>12 DEF Refuse, Steps, Unwritten
<1>. QED
  BY <1>4, <1>5, <1>6, <1>7, <1>8, <1>9, <1>10, <1>11, <1>12 DEF Call

LEMMA ChangeQuiet ==
  ASSUME Typed, NEW r \in Requests, NEW i \in DOMAIN profiles, NEW new \in Profile,
         SameHistory(new, profiles[i]), Change(r, i, new)
  PROVE  TellsNothing
<1>1. QuietProfiles
  BY UpdateQuiet DEF Change
<1>2. QuietCopies
  BY DEF Change, QuietCopies, SameHistory
<1>3. QuietCalls
  BY NamesAssumption DEF Change, QuietCalls, Early, Typed, TypeOK, Procs
<1>. QED
  BY <1>1, <1>2, <1>3 DEF TellsNothing

LEMMA RequestQuiet == ASSUME Typed, NEW r \in Requests, Request(r) PROVE TellsNothing
<1>1. r \in Procs /\ r \notin Calls
  BY NamesAssumption DEF Procs
<1>2. \A i \in DOMAIN profiles : profiles[i] \in Profile
  BY DEF Typed, TypeOK
<1>3. ASSUME NEW i \in DOMAIN profiles, NEW next \in Steps, Read(r, i, next),
             pc[r] # "backfill", next # "backfill"
      PROVE  TellsNothing
  BY <1>1, <1>3, ReadQuiet
<1>4. ASSUME NEW next \in Steps, Goto(r, next), QuietProfiles, next # "backfill"
      PROVE  TellsNothing
  BY <1>1, <1>4, GotoQuiet
<1>5. pc[r] \in Holding => on[r] \in DOMAIN profiles
  BY <1>1 DEF Typed, TypeOK, Placed
<1>6. {"done", "create", "fetch", "link", "view"} \subseteq Steps \ {"backfill"}
  BY DEF Steps
<1>7. CASE View(r)
  BY <1>3, <1>4, <1>5, <1>6, <1>7, SameQuiet DEF View, Holding
<1>8. CASE Look(r)
  BY <1>3, <1>6, <1>8, CanonicalIsLive DEF Look
<1>9. CASE CreateCheck(r)
  BY <1>3, <1>4, <1>6, <1>9, CanonicalIsLive, SameQuiet DEF CreateCheck
<1>10. CASE Create(r)
  <2>1. pc[r] = "create" /\ whom[r] \in Ids
    BY <1>10 DEF Create, Typed, TypeOK, Asked
  <2>2. PICK email \in Emails \union {"none"}, phone \in Phones \union {"none"} :
          Insert(r, NewProfile(whom[r], email, phone), "done")
    BY <1>10 DEF Create
  <2>3. NewProfile(whom[r], email, phone) \in Profile /\ NoHistory(NewProfile(whom[r], email, phone))
    BY <2>1, NewProfileType DEF NoHistory
  <2>. QED
    BY <1>1, <1>6, <2>2, <2>3, InsertQuiet
<1>11. CASE UpdateProfile(r)
  BY <1>2, <1>11, ChangedProfileType, SameHistoryForms, ChangeQuiet DEF UpdateProfile
<1>12. CASE Unlink(r)
  BY <1>2, <1>12, ChangedProfileType, SameHistoryForms, ChangeQuiet DEF Unlink
<1>13. CASE Delete(r)
  <2>1. PICK i \in DOMAIN profiles : profiles' = [profiles EXCEPT ![i].gone = TRUE]
    BY <1>13 DEF Delete
  <2>2. SameHistory([profiles[i] EXCEPT !.gone = TRUE], profiles[i])
    BY <1>2, SameHistoryForms
  <2>3. QuietProfiles
    BY <2>1, <2>2 DEF QuietProfiles, SameHistory, Typed, TypeOK
  <2>. QED
    BY <1>4, <1>6, <1>13, <2>3 DEF Delete
<1>14. CASE LinkCheck(r)
  <2>1. PICK i \in DOMAIN profiles, id \in Ids :
          \/ /\ pc' = [pc EXCEPT ![r] = "fetch"]
             /\ UNCHANGED <<profiles, after, snap>>
          \/ \E j \in Canonical(id) : Read(r, j, IF i = j THEN "fetch" ELSE "done")
    BY <1>14 DEF LinkCheck
  <2>2. CASE /\ pc' = [pc EXCEPT ![r] = "fetch"]
             /\ UNCHANGED <<profiles, after, snap>>
    BY <1>1, <2>2, SameQuiet DEF TellsNothing, QuietCopies, QuietCalls, SameHistory, Early, Typed, TypeOK, Procs
  <2>3. ASSUME NEW j \in Canonical(id), Read(r, j, IF i = j THEN "fetch" ELSE "done") PROVE TellsNothing
    BY <1>3, <1>6, <1>14, <2>3, CanonicalIsLive DEF LinkCheck
  <2>. QED
    BY <2>1, <2>2, <2>3
<1>15. CASE LinkFetch(r)
  BY <1>3, <1>4, <1>5, <1>6, <1>15, SameQuiet DEF LinkFetch, Holding
<1>16. CASE Link(r)
  <2>1. whom[r] \in Ids /\ on[r] \in DOMAIN profiles /\ profiles[on[r]] \in Profile
    BY <1>2, <1>5, <1>16 DEF Link, Holding, Typed, TypeOK, Asked
  <2> DEFINE now == [profiles[on[r]] EXCEPT !.linked = @ \union {whom[r]}]
  <2>2. /\ now \in Profile /\ SameHistory(now, profiles[on[r]])
        /\ WithField(now, whom[r]) \in Profile /\ SameHistory(WithField(now, whom[r]), profiles[on[r]])
    <3>1. now \in Profile /\ SameHistory(now, profiles[on[r]])
      BY <2>1, ChangedProfileType, SameHistoryForms
    <3> HIDE DEF now
    <3>2. WithField(now, whom[r]) \in Profile /\ SameHistory(WithField(now, whom[r]), now)
      BY <2>1, <3>1, ChangedProfileType, SameHistoryForms
    <3>. QED
      BY <3>1, <3>2 DEF SameHistory
  <2>3. Update(on[r], now) \/ Update(on[r], WithField(now, whom[r]))
    BY <1>16 DEF Link
  <2> HIDE DEF now
  <2>4. QuietProfiles
    BY <2>1, <2>2, <2>3, UpdateQuiet
  <2>. QED
    BY <1>4, <1>6, <1>16, <2>4 DEF Link
<1>17. CASE RefuseRequest(r)
  BY <1>4, <1>6, <1>17, SameQuiet DEF RefuseRequest
<1>. QED
  BY <1>7, <1>8, <1>9, <1>10, <1>11, <1>12, <1>13, <1>14, <1>15, <1>16, <1>17 DEF Request

LEMMA BackfillQuiet == ASSUME Typed, NEW p \in Procs, Backfill(p) PROVE TellsNothing
<1>1. on[p] \in DOMAIN profiles
  BY DEF Backfill, Typed, TypeOK, Placed, Holding
<1>2. QuietProfiles
  BY <1>1, DndQuiet DEF Backfill
<1>3. QuietCopies
  BY DEF Backfill, QuietCopies, SameHistory
<1>4. QuietCalls
  BY DEF Backfill, QuietCalls, Early, Typed, TypeOK, Placed, Procs
<1>. QED
  BY <1>2, <1>3, <1>4 DEF TellsNothing

LEMMA FrontProperties ==
  ASSUME NEW S, NEW r \in Seq(S), NEW n \in Nat, Len(r) = n + 1
  PROVE  /\ Len(SubSeq(r, 1, n)) = n /\ DOMAIN SubSeq(r, 1, n) = 1 .. n
         /\ \A i \in 1 .. n : SubSeq(r, 1, n)[i] = r[i]
  OBVIOUS

\* The window moves by one call: what was told by the copy, and the call itself.
LEMMA WindowMoves ==
  ASSUME NEW c \in Calls, NEW s \in Profile, WholeHistory(s), c \notin Told(s),
         NEW kept \in BOOLEAN, NEW new \in Profile,
         LET recent == <<c>> \o s.recent
             full == Len(recent) > Window
         IN /\ new.recent = IF full THEN SubSeq(recent, 1, Len(recent) - 1) ELSE recent
            /\ new.older = IF full /\ kept THEN s.older \union {recent[Len(recent)]} ELSE s.older
            /\ new.total = s.total + 1
  PROVE  WholeHistory(new) /\ Told(new) \subseteq Told(s) \union {c}
<1> DEFINE recent == <<c>> \o s.recent
           n == Len(s.recent)
<1>1. /\ s.recent \in Seq(Calls) /\ n \in Nat /\ s.total \in Nat /\ Window \in Nat \ {0}
      /\ DOMAIN s.recent = 1 .. n
  BY WindowAssumption DEF Profile
<1>2. /\ recent \in Seq(Calls) /\ Len(recent) = n + 1 /\ DOMAIN recent = 1 .. n + 1
      /\ recent[1] = c /\ \A k \in 2 .. n + 1 : recent[k] = s.recent[k - 1]
  BY <1>1
<1>3. n = IF s.total < Window THEN s.total ELSE Window
  BY DEF WholeHistory
<1>4. \A i, j \in 1 .. n : i # j => s.recent[i] # s.recent[j]
  BY <1>1 DEF WholeHistory
<1>5. \A i \in 1 .. n : s.recent[i] \notin s.older /\ s.recent[i] # c
  BY <1>1 DEF WholeHistory, Told
<1>6. c \notin s.older
  BY DEF Told
<1>7. \A i, j \in 1 .. n + 1 : i # j => recent[i] # recent[j]
  <2> SUFFICES ASSUME NEW i \in 1 .. n + 1, NEW j \in 1 .. n + 1, i # j PROVE recent[i] # recent[j]
    OBVIOUS
  <2> HIDE DEF recent
  <2>1. CASE i = 1
    <3>1. j \in 2 .. n + 1 /\ j - 1 \in 1 .. n
      BY <1>1, <2>1
    <3>. QED
      BY <1>2, <1>5, <2>1, <3>1
  <2>2. CASE j = 1
    <3>1. i \in 2 .. n + 1 /\ i - 1 \in 1 .. n
      BY <1>1, <2>2
    <3>. QED
      BY <1>2, <1>5, <2>2, <3>1
  <2>3. CASE i # 1 /\ j # 1
    <3>1. i \in 2 .. n + 1 /\ i - 1 \in 1 .. n /\ j \in 2 .. n + 1 /\ j - 1 \in 1 .. n /\ i - 1 # j - 1
      BY <1>1, <2>3
    <3>. QED
      BY <1>2, <1>4, <3>1
  <2>. QED
    BY <2>1, <2>2, <2>3
<1>8. \A i \in 1 .. n + 1 : recent[i] \notin s.older /\ (recent[i] = c \/ \E k \in 1 .. n : recent[i] = s.recent[k])
  <2> SUFFICES ASSUME NEW i \in 1 .. n + 1
               PROVE  recent[i] \notin s.older /\ (recent[i] = c \/ \E k \in 1 .. n : recent[i] = s.recent[k])
    OBVIOUS
  <2> HIDE DEF recent
  <2>1. i = 1 \/ (i \in 2 .. n + 1 /\ i - 1 \in 1 .. n)
    BY <1>1
  <2>. QED
    BY <1>2, <1>5, <1>6, <2>1
<1>9. \A i \in 1 .. n + 1 : recent[i] \in Told(s) \union {c}
  BY <1>1, <1>8 DEF Told
<1>10. CASE n + 1 > Window
  <2>1. n = Window /\ s.total >= Window
    BY <1>1, <1>3, <1>10
  <2>2. /\ new.recent = SubSeq(recent, 1, n) /\ new.total = s.total + 1
        /\ new.older \subseteq s.older \union {recent[n + 1]}
    BY <1>2, <1>10
  <2> HIDE DEF recent, n
  <2>3. Len(new.recent) = n /\ DOMAIN new.recent = 1 .. n /\ \A i \in 1 .. n : new.recent[i] = recent[i]
    <3>1. n \in Nat /\ recent \in Seq(Calls) /\ Len(recent) = n + 1
      BY <1>1, <1>2
    <3>2. /\ Len(SubSeq(recent, 1, n)) = n /\ DOMAIN SubSeq(recent, 1, n) = 1 .. n
          /\ \A i \in 1 .. n : SubSeq(recent, 1, n)[i] = recent[i]
      BY <3>1, FrontProperties
    <3>. QED
      BY <2>2, <3>2
  <2>4. Len(new.recent) = IF new.total < Window THEN new.total ELSE Window
    BY <1>1, <2>1, <2>2, <2>3
  <2>5. \A i \in 1 .. n : i \in 1 .. n + 1 /\ i # n + 1 /\ n + 1 \in 1 .. n + 1
    BY <1>1
  <2>6. \A i \in DOMAIN new.recent : new.recent[i] \notin new.older
    BY <1>7, <1>8, <2>2, <2>3, <2>5, SMTT(30)
  <2>7. \A i, j \in DOMAIN new.recent : i # j => new.recent[i] # new.recent[j]
    BY <1>7, <2>3, <2>5
  <2>8. Told(new) \subseteq Told(s) \union {c}
    <3>1. recent[n + 1] \in Told(s) \union {c} /\ s.older \subseteq Told(s)
      BY <1>1, <1>9 DEF Told
    <3>2. new.older \subseteq Told(s) \union {c}
      BY <2>2, <3>1
    <3>3. \A i \in DOMAIN new.recent : new.recent[i] \in Told(s) \union {c}
      BY <1>9, <2>3, <2>5
    <3>. QED
      BY <3>2, <3>3 DEF Told
  <2>. QED
    BY <2>4, <2>6, <2>7, <2>8 DEF WholeHistory
<1>11. CASE ~(n + 1 > Window)
  <2>1. s.total < Window /\ n = s.total
    BY <1>1, <1>3, <1>11
  <2>2. new.recent = recent /\ new.total = s.total + 1 /\ new.older = s.older
    BY <1>2, <1>11
  <2> HIDE DEF recent
  <2>3. Len(new.recent) = IF new.total < Window THEN new.total ELSE Window
    BY <1>1, <1>2, <1>11, <2>1, <2>2
  <2>4. Told(new) \subseteq Told(s) \union {c}
    <3>1. new.older \subseteq Told(s)
      BY <2>2 DEF Told
    <3>2. \A i \in DOMAIN new.recent : new.recent[i] \in Told(s) \union {c}
      BY <1>2, <1>9, <2>2
    <3>. QED
      BY <3>1, <3>2 DEF Told
  <2>. QED
    BY <1>2, <1>7, <1>8, <2>2, <2>3, <2>4 DEF WholeHistory
<1>. QED
  BY <1>10, <1>11

LEMMA WriteHistory == ASSUME HistInv, NEW c \in Calls, Write(c) PROVE History' /\ Untold'
<1>1. Typed /\ c \in Procs /\ pc[c] = "write"
  BY DEF HistInv, Procs, Write
<1>2. on[c] \in DOMAIN profiles /\ Goto(c, "reread")
  BY <1>1, WriteEffect
<1>3. snap[c] \in Profile /\ WholeHistory(snap[c]) /\ c \notin Told(snap[c])
  BY <1>1 DEF Typed, TypeOK, HistInv, History, Untold, Early, Unwritten
<1>4. PICK new \in Profile :
        Update(on[c], new) /\ WholeHistory(new) /\ Told(new) \subseteq Told(snap[c]) \union {c}
  <2>1. PICK new \in Profile, kept \in BOOLEAN :
          LET recent == <<c>> \o snap[c].recent
              full == Len(recent) > Window
          IN /\ Update(on[c], new)
             /\ new.recent = IF full THEN SubSeq(recent, 1, Len(recent) - 1) ELSE recent
             /\ new.older = IF full /\ kept THEN snap[c].older \union {recent[Len(recent)]}
                            ELSE snap[c].older
             /\ new.total = snap[c].total + 1
    BY <1>1, WriteEffect
  <2>. QED
    BY <1>3, <2>1, WindowMoves
<1>5. /\ DOMAIN profiles' = DOMAIN profiles
      /\ \A j \in DOMAIN profiles : profiles'[j] = new \/ profiles'[j] = profiles[j]
  BY <1>1, <1>2, <1>4, UpdateEffect DEF Typed, TypeOK
<1>6. /\ \A q \in Procs : snap'[q] = snap[q] \/ snap'[q] = NoProfile
      /\ \A q \in Procs \ {c} : pc'[q] = pc[q]
      /\ pc'[c] = "reread" /\ after' = after
  BY <1>1, <1>2, GotoEffect DEF Typed, Steps
<1>7. WholeHistory(NoProfile) /\ Told(NoProfile) = {}
  BY NoProfileType, NoHistoryIsWhole DEF NoHistory
<1>8. History'
  <2>1. \A j \in DOMAIN profiles' : WholeHistory(profiles'[j])
    BY <1>4, <1>5 DEF HistInv, History
  <2>2. \A q \in Procs : WholeHistory(snap'[q])
    BY <1>6, <1>7 DEF HistInv, History
  <2>. QED
    BY <2>1, <2>2 DEF History, WholeHistory
<1>9. \A d \in Calls : Early(d)' => Early(d) /\ d # c
  BY <1>6 DEF Early, Unwritten, Procs
<1>10. Untold'
  <2>1. ASSUME NEW d \in Calls, Early(d)'
        PROVE  /\ \A j \in DOMAIN profiles' : d \notin Told(profiles'[j])
               /\ \A q \in Procs : d \notin Told(snap'[q])
    <3>1. /\ d # c /\ d \notin Told(snap[c])
          /\ \A j \in DOMAIN profiles : d \notin Told(profiles[j])
          /\ \A q \in Procs : d \notin Told(snap[q])
      BY <1>1, <1>9, <2>1 DEF HistInv, Untold
    <3>. QED
      BY <1>4, <1>5, <1>6, <1>7, <3>1
  <2>. QED
    BY <2>1 DEF Untold, Told
<1>. QED
  BY <1>8, <1>10

LEMMA InitHistory == Init => History /\ Untold
<1> SUFFICES ASSUME Init PROVE History /\ Untold
  OBVIOUS
<1>1. NoHistory(NoProfile)
  BY NoProfileType DEF NoHistory
<1>2. ASSUME NEW c \in Past, NEW dnd \in {"unset", "clear"}
      PROVE  WholeHistory(Known(c, dnd)) /\ Told(Known(c, dnd)) = {c}
  <2>1. Caller[c] \in Ids
    BY CallsAssumption
  <2> DEFINE n == NewProfile(Caller[c], "none", "none")
  <2>2. n \in Profile /\ n.older = {}
    BY <2>1, NewProfileType
  <2>3. Known(c, dnd) = [n EXCEPT !.recent = <<c>>, !.total = 1, !.dnd = dnd]
    BY DEF Known
  <2> HIDE DEF n
  <2>4. Known(c, dnd).recent = <<c>> /\ Known(c, dnd).total = 1 /\ Known(c, dnd).older = {}
    BY <2>2, <2>3 DEF Profile
  <2>. QED
    BY <2>4, WindowAssumption DEF WholeHistory, Told
<1>3. \A p \in Procs : snap[p] = NoProfile
  BY DEF Init
<1>4. \A c \in Past : ~Early(c)
  BY NamesAssumption, CallsAssumption DEF Init, Early, Unwritten, Procs
<1>5. CASE profiles = <<>>
  BY <1>1, <1>3, <1>5, NoHistoryIsWhole DEF History, Untold
<1>6. ASSUME NEW c \in Past, NEW dnd \in {"unset", "clear"}, profiles = <<Known(c, dnd)>>
      PROVE  History /\ Untold
  <2>1. DOMAIN profiles = {1} /\ profiles[1] = Known(c, dnd)
    BY <1>6
  <2>. QED
    BY <1>1, <1>2, <1>3, <1>4, <2>1, NoHistoryIsWhole DEF History, Untold
<1>. QED
  BY <1>5, <1>6 DEF Init

LEMMA StepHistory == HistInv /\ [Next]_vars => HistInv'
<1> SUFFICES ASSUME HistInv, [Next]_vars PROVE HistInv'
  OBVIOUS
<1>1. Typed'
  BY StepTyped DEF HistInv
<1>2. CASE TellsNothing
  BY <1>1, <1>2, QuietHistory DEF HistInv
<1>3. CASE UNCHANGED vars
  BY <1>1, <1>3 DEF vars, HistInv, History, Untold, Early, WholeHistory, Told
<1>4. ASSUME NEW c \in Calls, Call(c) PROVE HistInv'
  BY <1>1, <1>2, <1>4, CallQuiet, WriteHistory DEF HistInv
<1>5. ASSUME NEW r \in Requests, Request(r) PROVE HistInv'
  BY <1>2, <1>5, RequestQuiet DEF HistInv
<1>6. ASSUME NEW p \in Procs, Backfill(p) PROVE HistInv'
  BY <1>2, <1>6, BackfillQuiet DEF HistInv
<1>. QED
  BY <1>3, <1>4, <1>5, <1>6 DEF Next

\* Whatever interleaves, the history of a profile is one that some run of calls
\* could have left: record_call_completion replaces it as a whole.
THEOREM HistoriesAreWhole == Spec => []HistoryIsWhole
<1>1. Init => HistInv
  BY InitTyped, InitHistory DEF HistInv
<1>2. HistInv => HistoryIsWhole
  BY DEF HistInv, History, HistoryIsWhole
<1>. QED
  BY <1>1, <1>2, StepHistory, PTL DEF Spec

-----------------------------------------------------------------------------
(* Opt-outs.                                                                *)

\* A step that writes no dnd object but the null of a new profile.
DndKept ==
  /\ DOMAIN profiles \subseteq DOMAIN profiles'
  /\ \A i \in DOMAIN profiles' :
       IF i \in DOMAIN profiles
       THEN profiles'[i].dnd = profiles[i].dnd /\ (profiles[i].gone => profiles'[i].gone)
       ELSE profiles'[i].dnd = "unset"

\* p leaves the other processes alone.
Others(p) ==
  \A q \in Procs \ {p} : pc'[q] = pc[q] /\ on'[q] = on[q] /\ snap'[q] = snap[q]

LEMMA SameKept == ASSUME UNCHANGED profiles PROVE DndKept
  BY DEF DndKept

LEMMA UpdateKept ==
  ASSUME Typed, NEW i \in DOMAIN profiles, NEW new \in Profile, Update(i, new),
         new.dnd = profiles[i].dnd
  PROVE  DndKept
  BY UpdateEffect DEF Typed, TypeOK, DndKept

LEMMA InsertKept ==
  ASSUME Typed, NEW p \in Procs, NEW new \in Profile, NEW next, Insert(p, new, next),
         new.dnd = "unset"
  PROVE  DndKept /\ Others(p)
<1>1. profiles \in Seq(Profile)
  BY DEF Typed, TypeOK
<1>2. DndKept
  BY <1>1, InsertEffect DEF DndKept
<1>3. Others(p)
  BY DEF Insert, Others, Typed, TypeOK
<1>. QED
  BY <1>2, <1>3

LEMMA ReadKept ==
  ASSUME Typed, NEW p \in Procs, NEW i, NEW next, Read(p, i, next)
  PROVE  DndKept /\ Others(p)
  BY SameKept DEF Read, Others, Typed, TypeOK

LEMMA GotoOthers ==
  ASSUME Typed, NEW p \in Procs, NEW next, Goto(p, next)
  PROVE  Others(p) /\ on' = on /\ pc'[p] = next
  BY DEF Goto, Others, Typed, TypeOK

LEMMA FetchKept ==
  ASSUME Typed, NEW c \in Calls, NEW here, NEW next, NEW missing, Fetch(c, here, next, missing)
  PROVE  DndKept /\ Others(c)
  BY ReadKept, GotoOthers, SameKept DEF Fetch, Procs

\* A call that is neither clearing nor extracting writes no dnd object.
LEMMA CallKept ==
  ASSUME Typed, NEW c \in Calls, Call(c), pc[c] \notin {"clearing", "reclearing", "extracting"}
  PROVE  DndKept /\ Others(c)
<1>1. c \in Procs
  BY DEF Procs
<1>2. CASE Dial(c) \/ Lookup(c) \/ Check(c)
  BY <1>1, <1>2, ReadKept, GotoOthers, SameKept DEF Dial, Lookup, Check
<1>3. CASE InsertOwn(c)
  <2> DEFINE new == NewProfile(Caller[c], "none", "none")
  <2>1. new \in Profile /\ new.dnd = "unset" /\ Insert(c, new, "write")
    BY <1>3, CallsAssumption, NewProfileType DEF InsertOwn
  <2> HIDE DEF new
  <2>. QED
    BY <1>1, <2>1, InsertKept
<1>4. CASE Write(c)
  <2>1. PICK new \in Profile : Update(on[c], new) /\ new.dnd = profiles[on[c]].dnd
    BY <1>4, WriteEffect
  <2>2. on[c] \in DOMAIN profiles /\ Goto(c, "reread")
    BY <1>4, WriteEffect
  <2>. QED
    BY <1>1, <2>1, <2>2, UpdateKept, GotoOthers
<1>5. CASE Reread(c) \/ Extract(c)
  BY <1>5, FetchKept DEF Reread, Extract
<1>6. CASE ClearAfterCall(c) \/ ClearAfterExtraction(c)
  BY <1>6, FetchKept DEF ClearAfterCall, ClearAfterExtraction, Clear
<1>7. CASE Refuse(c)
  BY <1>1, <1>7, GotoOthers, SameKept DEF Refuse
<1>. QED
  BY <1>2, <1>3, <1>4, <1>5, <1>6, <1>7 DEF Call, Extracted

LEMMA SameDnd ==
  ASSUME NEW p \in Profile
  PROVE  /\ \A id \in Ids : WithField(p, id).dnd = p.dnd
         /\ \A id \in Ids : [p EXCEPT !.linked = @ \union {id}].dnd = p.dnd
         /\ \A id \in Ids : [p EXCEPT !.linked = @ \ {id}].dnd = p.dnd
         /\ [p EXCEPT !.gone = TRUE].dnd = p.dnd /\ [p EXCEPT !.gone = TRUE].gone
  BY DEF WithField, Profile

LEMMA ChangeKept ==
  ASSUME Typed, NEW r \in Requests, NEW i \in DOMAIN profiles, NEW new \in Profile,
         new.dnd = profiles[i].dnd, Change(r, i, new)
  PROVE  DndKept /\ Others(r)
<1>1. DndKept
  BY UpdateKept DEF Change
<1>2. Others(r)
  BY DEF Change, Others, Typed, TypeOK
<1>. QED
  BY <1>1, <1>2

LEMMA RequestKept == ASSUME Typed, NEW r \in Requests, Request(r) PROVE DndKept /\ Others(r)
<1>1. r \in Procs
  BY DEF Procs
<1>2. \A i \in DOMAIN profiles : profiles[i] \in Profile
  BY DEF Typed, TypeOK
<1>3. CASE View(r) \/ Look(r) \/ CreateCheck(r) \/ LinkFetch(r)
  BY <1>1, <1>3, ReadKept, GotoOthers, SameKept DEF View, Look, CreateCheck, LinkFetch
<1>4. CASE Create(r)
  <2>1. whom[r] \in Ids
    BY <1>4 DEF Create, Typed, TypeOK, Asked
  <2>2. PICK email \in Emails \union {"none"}, phone \in Phones \union {"none"} :
          Insert(r, NewProfile(whom[r], email, phone), "done")
    BY <1>4 DEF Create
  <2>3. NewProfile(whom[r], email, phone) \in Profile /\ NewProfile(whom[r], email, phone).dnd = "unset"
    BY <2>1, NewProfileType
  <2>. QED
    BY <1>1, <2>2, <2>3, InsertKept
<1>5. CASE UpdateProfile(r)
  BY <1>2, <1>5, ChangedProfileType, SameDnd, ChangeKept DEF UpdateProfile
<1>6. CASE Unlink(r)
  BY <1>2, <1>6, ChangedProfileType, SameDnd, ChangeKept DEF Unlink
<1>7. CASE Delete(r)
  <2>1. PICK i \in DOMAIN profiles : profiles' = [profiles EXCEPT ![i].gone = TRUE]
    BY <1>7 DEF Delete
  <2>2. [profiles[i] EXCEPT !.gone = TRUE].dnd = profiles[i].dnd /\ [profiles[i] EXCEPT !.gone = TRUE].gone
    BY <1>2, SameDnd
  <2>3. DndKept
    BY <2>1, <2>2 DEF DndKept, Typed, TypeOK
  <2>. QED
    BY <1>1, <1>7, <2>3, GotoOthers DEF Delete
<1>8. CASE LinkCheck(r)
  <2>1. PICK i \in DOMAIN profiles, id \in Ids :
          \/ /\ pc' = [pc EXCEPT ![r] = "fetch"] /\ on' = [on EXCEPT ![r] = i]
             /\ UNCHANGED <<profiles, after, snap>>
          \/ \E j \in Canonical(id) : Read(r, j, IF i = j THEN "fetch" ELSE "done")
    BY <1>8 DEF LinkCheck
  <2>2. CASE /\ pc' = [pc EXCEPT ![r] = "fetch"] /\ on' = [on EXCEPT ![r] = i]
             /\ UNCHANGED <<profiles, after, snap>>
    BY <1>1, <2>2, SameKept DEF Others, Typed, TypeOK
  <2>. QED
    BY <1>1, <2>1, <2>2, ReadKept
<1>9. CASE Link(r)
  <2>1. whom[r] \in Ids /\ on[r] \in DOMAIN profiles /\ profiles[on[r]] \in Profile
    BY <1>1, <1>2, <1>9 DEF Link, Typed, TypeOK, Asked, Placed, Holding
  <2> DEFINE now == [profiles[on[r]] EXCEPT !.linked = @ \union {whom[r]}]
  <2>2. /\ now \in Profile /\ now.dnd = profiles[on[r]].dnd
        /\ WithField(now, whom[r]) \in Profile /\ WithField(now, whom[r]).dnd = profiles[on[r]].dnd
    <3>1. now \in Profile /\ now.dnd = profiles[on[r]].dnd
      BY <2>1, ChangedProfileType, SameDnd
    <3> HIDE DEF now
    <3>. QED
      BY <2>1, <3>1, ChangedProfileType, SameDnd
  <2>3. (Update(on[r], now) \/ Update(on[r], WithField(now, whom[r]))) /\ Goto(r, "view")
    BY <1>9 DEF Link
  <2> HIDE DEF now
  <2>. QED
    BY <1>1, <2>1, <2>2, <2>3, UpdateKept, GotoOthers
<1>10. CASE RefuseRequest(r)
  BY <1>1, <1>10, GotoOthers, SameKept DEF RefuseRequest
<1>. QED
  BY <1>3, <1>4, <1>5, <1>6, <1>7, <1>8, <1>9, <1>10 DEF Request

\* What a clearing call writes, and what an extracting one does.
LEMMA DndWritten ==
  ASSUME Typed, NEW i \in DOMAIN profiles, NEW dnd \in {"clear"} \union Calls,
         Update(i, [profiles[i] EXCEPT !.dnd = dnd])
  PROVE  /\ DOMAIN profiles' = DOMAIN profiles
         /\ \A j \in DOMAIN profiles :
              /\ profiles'[j].dnd = IF j = i /\ ~profiles[i].gone THEN dnd ELSE profiles[j].dnd
              /\ profiles'[j].gone = profiles[j].gone
<1>1. profiles[i] \in Profile /\ profiles \in Seq(Profile)
  BY DEF Typed, TypeOK
<1>2. /\ [profiles[i] EXCEPT !.dnd = dnd] \in Profile
      /\ [profiles[i] EXCEPT !.dnd = dnd].dnd = dnd
      /\ [profiles[i] EXCEPT !.dnd = dnd].gone = profiles[i].gone
  BY <1>1, ChangedProfileType DEF Profile
<1>. QED
  BY <1>1, <1>2, UpdateEffect

LEMMA ClearingStep ==
  ASSUME Typed, NEW c \in Calls, Call(c), pc[c] \in {"clearing", "reclearing"}
  PROVE  /\ c \in Inbound /\ on[c] \in DOMAIN profiles /\ Others(c) /\ on' = on
         /\ pc'[c] \in {"extract", "done", "failed"}
         /\ \/ UNCHANGED profiles /\ (pc[c] = "reclearing" => ~Blocked(snap[c]) \/ pc'[c] = "failed")
            \/ Blocked(snap[c]) /\ Update(on[c], [profiles[on[c]] EXCEPT !.dnd = "clear"])
<1>1. c \in Procs /\ c \in Inbound /\ on[c] \in DOMAIN profiles
  BY DEF Procs, Typed, TypeOK, Placed, Holding, Clearing
<1>2. CASE ClearAfterCall(c)
  BY <1>1, <1>2, GotoOthers DEF ClearAfterCall, Clear, Fetch
<1>3. CASE ClearAfterExtraction(c)
  BY <1>1, <1>3, GotoOthers DEF ClearAfterExtraction, Clear, Fetch
<1>4. CASE Refuse(c)
  BY <1>1, <1>4, GotoOthers DEF Refuse
<1>. QED
  BY <1>2, <1>3, <1>4
     DEF Call, Dial, Lookup, Check, InsertOwn, Write, Reread, Extract, Extracted, Fetch

LEMMA ExtractingStep ==
  ASSUME Typed, NEW c \in Calls, Call(c), pc[c] = "extracting"
  PROVE  /\ on[c] \in DOMAIN profiles /\ Others(c) /\ on' = on
         /\ pc'[c] = AfterExtraction(c)
         /\ \/ UNCHANGED profiles
            \/ Update(on[c], [profiles[on[c]] EXCEPT !.dnd = c])
<1>1. c \in Procs /\ on[c] \in DOMAIN profiles
  BY DEF Procs, Typed, TypeOK, Placed, Holding
<1>2. Extracted(c)
  BY DEF Call, Dial, Lookup, Check, InsertOwn, Write, Reread, Extract, ClearAfterCall,
         ClearAfterExtraction, Clear, Fetch, Refuse
<1>. QED
  BY <1>1, <1>2, GotoOthers DEF Extracted

\* A default object on its way is written to the profile that was read.
LEMMA BackfillStep ==
  ASSUME Typed, NEW p \in Procs, Backfill(p)
  PROVE  /\ on[p] \in DOMAIN profiles /\ Others(p) /\ pc[p] = "backfill" /\ pc'[p] # "backfill"
         /\ Update(on[p], [profiles[on[p]] EXCEPT !.dnd = "clear"])
  BY DEF Backfill, Others, Typed, TypeOK, Placed, Holding

\* An opt-out that an inbound call has found and not yet taken back: the call
\* is on its way to clear it, on the profile that has it.
OwnOptOut ==
  \A c \in Inbound, i \in DOMAIN profiles :
    profiles[i].dnd = c /\ ~profiles[i].gone =>
      /\ on[c] = i
      /\ pc[c] \in {"reclear", "failed"} \/ (pc[c] = "reclearing" /\ Blocked(snap[c]))

DndInv == Typed /\ OwnOptOut

\* On its way, and the only step that leaves it there.
LEMMA ReclearStep ==
  ASSUME Typed, NEW c \in Inbound, Call(c), pc[c] \in {"reclear", "failed"},
         on[c] \in DOMAIN profiles, profiles[on[c]].dnd = c, ~profiles[on[c]].gone
  PROVE  on'[c] = on[c] /\ (pc'[c] = "failed" \/ (pc'[c] = "reclearing" /\ Blocked(snap'[c])))
<1>1. c \in Procs /\ c \in Calls /\ c # "unset" /\ "reclearing" \in Steps
  BY CallsAssumption, NamesAssumption DEF Procs, Steps
<1>2. Fetch(c, "reclear", "reclearing", "done") \/ (Refuse(c) /\ Goto(c, "failed"))
  BY DEF Call, Dial, Lookup, Check, InsertOwn, Write, Reread, Extract, Extracted, ClearAfterCall,
         ClearAfterExtraction, Clear, Fetch, Refuse
<1>3. CASE Fetch(c, "reclear", "reclearing", "done")
  <2>1. Read(c, on[c], "reclearing")
    BY <1>3 DEF Fetch
  <2>2. on'[c] = on[c] /\ pc'[c] = "reclearing" /\ snap'[c].dnd = c
    BY <1>1, <2>1, ReadEffect DEF Typed
  <2>. QED
    BY <1>1, <2>2 DEF Blocked
<1>4. CASE Refuse(c) /\ Goto(c, "failed")
  BY <1>1, <1>4, GotoOthers
<1>. QED
  BY <1>2, <1>3, <1>4

LEMMA StepOwn == DndInv /\ [Next]_vars => DndInv'
<1> SUFFICES ASSUME DndInv, [Next]_vars PROVE OwnOptOut'
  BY StepTyped DEF DndInv
<1>1. Typed /\ OwnOptOut /\ \A c \in Inbound : c \in Calls /\ c \in Procs /\ c # "unset" /\ c # "clear"
  BY CallsAssumption, NamesAssumption DEF DndInv, Procs
<1>2. CASE UNCHANGED vars
  BY <1>1, <1>2 DEF vars, OwnOptOut
<1>3. ASSUME NEW p \in Procs, DndKept, Others(p),
             p \in Inbound => pc[p] # "reclearing" /\ (pc[p] \in {"reclear", "failed"} => Call(p))
      PROVE  OwnOptOut'
  <2>1. ASSUME NEW c \in Inbound, NEW i \in DOMAIN profiles', profiles'[i].dnd = c, ~profiles'[i].gone
        PROVE  on'[c] = i /\ (pc'[c] \in {"reclear", "failed"} \/ (pc'[c] = "reclearing" /\ Blocked(snap'[c])))
    <3>1. i \in DOMAIN profiles /\ profiles[i].dnd = c /\ ~profiles[i].gone
      BY <1>1, <1>3, <2>1 DEF DndKept
    <3>2. on[c] = i /\ (pc[c] \in {"reclear", "failed"} \/ (pc[c] = "reclearing" /\ Blocked(snap[c])))
      BY <1>1, <3>1 DEF OwnOptOut
    <3>3. CASE c = p
      BY <1>1, <1>3, <3>1, <3>2, <3>3, ReclearStep
    <3>4. CASE c # p
      BY <1>1, <1>3, <3>2, <3>4 DEF Others
    <3>. QED
      BY <3>3, <3>4
  <2>. QED
    BY <2>1 DEF OwnOptOut, Blocked
<1>4. ASSUME NEW c \in Calls, Call(c) PROVE OwnOptOut'
  <2>1. CASE pc[c] \notin {"clearing", "reclearing", "extracting"}
    BY <1>1, <1>3, <1>4, <2>1, CallKept DEF Procs
  <2>2. CASE pc[c] \in {"clearing", "reclearing"}
    <3>1. /\ c \in Inbound /\ on[c] \in DOMAIN profiles /\ Others(c) /\ on' = on
          /\ \/ UNCHANGED profiles /\ (pc[c] = "reclearing" => ~Blocked(snap[c]) \/ pc'[c] = "failed")
             \/ Blocked(snap[c]) /\ Update(on[c], [profiles[on[c]] EXCEPT !.dnd = "clear"])
      BY <1>1, <1>4, <2>2, ClearingStep
    <3>2. ASSUME NEW d \in Inbound, NEW i \in DOMAIN profiles', profiles'[i].dnd = d, ~profiles'[i].gone
          PROVE  on'[d] = i /\ (pc'[d] \in {"reclear", "failed"} \/ (pc'[d] = "reclearing" /\ Blocked(snap'[d])))
      <4>1. i \in DOMAIN profiles /\ profiles[i].dnd = d /\ ~profiles[i].gone
            /\ \/ pc[c] = "reclearing" => ~Blocked(snap[c]) \/ pc'[c] = "failed"
               \/ i # on[c]
        BY SMTT(30), <1>1, <3>1, <3>2, DndWritten
      <4>2. on[d] = i /\ (pc[d] \in {"reclear", "failed"} \/ (pc[d] = "reclearing" /\ Blocked(snap[d])))
        BY <1>1, <4>1 DEF OwnOptOut
      <4>3. CASE d = c
        BY <2>2, <3>1, <4>1, <4>2, <4>3
      <4>4. CASE d # c
        BY <1>1, <3>1, <4>2, <4>4 DEF Others
      <4>. QED
        BY <4>3, <4>4
    <3>. QED
      BY <3>2 DEF OwnOptOut, Blocked
  <2>3. CASE pc[c] = "extracting"
    <3>1. /\ on[c] \in DOMAIN profiles /\ Others(c) /\ on' = on /\ pc'[c] = AfterExtraction(c)
          /\ (UNCHANGED profiles \/ Update(on[c], [profiles[on[c]] EXCEPT !.dnd = c]))
      BY <1>1, <1>4, <2>3, ExtractingStep
    <3>2. ASSUME NEW d \in Inbound, NEW i \in DOMAIN profiles', profiles'[i].dnd = d, ~profiles'[i].gone
          PROVE  on'[d] = i /\ (pc'[d] \in {"reclear", "failed"} \/ (pc'[d] = "reclearing" /\ Blocked(snap'[d])))
      <4>1. \/ d = c /\ i = on[c]
            \/ i \in DOMAIN profiles /\ profiles[i].dnd = d /\ ~profiles[i].gone
        BY <1>1, <3>1, <3>2, DndWritten
      <4>2. CASE d = c /\ i = on[c]
        BY <3>1, <4>2 DEF AfterExtraction
      <4>3. CASE i \in DOMAIN profiles /\ profiles[i].dnd = d /\ ~profiles[i].gone
        <5>1. on[d] = i /\ (pc[d] \in {"reclear", "failed"} \/ (pc[d] = "reclearing" /\ Blocked(snap[d])))
          BY <1>1, <4>3 DEF OwnOptOut
        <5>2. d # c
          BY <2>3, <5>1
        <5>. QED
          BY <1>1, <3>1, <5>1, <5>2 DEF Others
      <4>. QED
        BY <4>1, <4>2, <4>3
    <3>. QED
      BY <3>2 DEF OwnOptOut, Blocked
  <2>. QED
    BY <2>1, <2>2, <2>3
<1>5. ASSUME NEW r \in Requests, Request(r) PROVE OwnOptOut'
  BY <1>1, <1>3, <1>5, RequestKept, NamesAssumption DEF Procs
<1>6. ASSUME NEW p \in Procs, Backfill(p) PROVE OwnOptOut'
  <2>1. /\ on[p] \in DOMAIN profiles /\ Others(p) /\ pc[p] = "backfill"
        /\ Update(on[p], [profiles[on[p]] EXCEPT !.dnd = "clear"])
    BY <1>1, <1>6, BackfillStep
  <2>2. ASSUME NEW d \in Inbound, NEW i \in DOMAIN profiles', profiles'[i].dnd = d, ~profiles'[i].gone
        PROVE  on'[d] = i /\ (pc'[d] \in {"reclear", "failed"} \/ (pc'[d] = "reclearing" /\ Blocked(snap'[d])))
    <3>1. i \in DOMAIN profiles /\ profiles[i].dnd = d /\ ~profiles[i].gone
      BY <1>1, <2>1, <2>2, DndWritten
    <3>2. on[d] = i /\ (pc[d] \in {"reclear", "failed"} \/ (pc[d] = "reclearing" /\ Blocked(snap[d])))
      BY <1>1, <3>1 DEF OwnOptOut
    <3>. QED
      BY <1>1, <2>1, <3>2 DEF Others
  <2>. QED
    BY <2>2 DEF OwnOptOut, Blocked
<1>. QED
  BY <1>2, <1>4, <1>5, <1>6 DEF Next

LEMMA InitOwn == Init => DndInv
<1> SUFFICES ASSUME Init PROVE OwnOptOut
  BY InitTyped DEF DndInv
<1>1. ASSUME NEW c \in Past, NEW dnd \in {"unset", "clear"} PROVE Known(c, dnd).dnd = dnd
  <2> DEFINE n == NewProfile(Caller[c], "none", "none")
  <2>1. n \in Profile
    BY CallsAssumption, NewProfileType
  <2>2. Known(c, dnd) = [n EXCEPT !.recent = <<c>>, !.total = 1, !.dnd = dnd]
    BY DEF Known
  <2> HIDE DEF n
  <2>. QED
    BY <2>1, <2>2 DEF Profile
<1>2. \A i \in DOMAIN profiles : profiles[i].dnd \in {"unset", "clear"}
  <2>1. CASE profiles = <<>>
    BY <2>1
  <2>2. ASSUME NEW c \in Past, NEW dnd \in {"unset", "clear"}, profiles = <<Known(c, dnd)>>
        PROVE  \A i \in DOMAIN profiles : profiles[i].dnd \in {"unset", "clear"}
    <3>1. DOMAIN profiles = {1} /\ profiles[1] = Known(c, dnd)
      BY <2>2
    <3>. QED
      BY <1>1, <3>1
  <2>. QED
    BY <2>1, <2>2 DEF Init
<1>. QED
  BY <1>2, CallsAssumption, NamesAssumption DEF OwnOptOut

\* An inbound call that is over has taken back the opt-out it found itself
\* (the clearing after _extract_profile_ai_data), whoever wrote in between.
THEOREM InboundCallsEndClear == Spec => []InboundEndsClear
<1>1. DndInv => InboundEndsClear
  BY DEF DndInv, OwnOptOut, InboundEndsClear
<1>. QED
  BY <1>1, InitOwn, StepOwn, PTL DEF Spec

\* The opt-out extract_and_update_ai_data stored is taken back by an inbound
\* call's clearing or by a late default object, and by nothing else.
THEOREM OptOutsStand == Spec => OptOutStands
<1> DEFINE TakenBack(i) ==
      \E p \in Procs :
        /\ on[p] = i /\ pc'[p] # pc[p]
        /\ pc[p] = "backfill" \/ (p \in Inbound /\ Blocked(snap[p]))
<1>1. ASSUME Typed, Next, NEW i \in DOMAIN profiles, Blocked(profiles[i]), ~Blocked(profiles'[i])
      PROVE  TakenBack(i)
  <2>1. profiles[i].dnd \in Calls /\ profiles'[i].dnd \notin Calls
    BY <1>1 DEF Blocked
  <2>2. ~DndKept
    BY <1>1, <2>1 DEF DndKept
  <2>3. ASSUME NEW c \in Calls, Call(c) PROVE TakenBack(i)
    <3>1. pc[c] \in {"clearing", "reclearing", "extracting"}
      BY <1>1, <2>2, <2>3, CallKept
    <3>2. CASE pc[c] \in {"clearing", "reclearing"}
      <4>1. /\ c \in Inbound /\ c \in Procs /\ on[c] \in DOMAIN profiles
            /\ pc'[c] \in {"extract", "done", "failed"}
            /\ \/ UNCHANGED profiles
               \/ Blocked(snap[c]) /\ Update(on[c], [profiles[on[c]] EXCEPT !.dnd = "clear"])
        BY <1>1, <2>3, <3>2, ClearingStep DEF Procs
      <4>2. Blocked(snap[c]) /\ on[c] = i
        BY <1>1, <2>1, <4>1, DndWritten
      <4>. QED
        BY <3>2, <4>1, <4>2
    <3>3. ASSUME pc[c] = "extracting" PROVE FALSE
      <4>1. /\ on[c] \in DOMAIN profiles
            /\ UNCHANGED profiles \/ Update(on[c], [profiles[on[c]] EXCEPT !.dnd = c])
        BY <1>1, <2>3, <3>3, ExtractingStep
      <4>2. CASE UNCHANGED profiles
        BY <2>1, <4>2
      <4>3. CASE Update(on[c], [profiles[on[c]] EXCEPT !.dnd = c])
        <5>1. profiles'[i].dnd \in {c, profiles[i].dnd}
          BY <1>1, <4>1, <4>3, DndWritten
        <5>. QED
          BY <2>1, <5>1
      <4>. QED
        BY <4>1, <4>2, <4>3
    <3>. QED
      BY <3>1, <3>2, <3>3
  <2>4. ASSUME NEW r \in Requests, Request(r) PROVE TakenBack(i)
    BY <1>1, <2>2, <2>4, RequestKept
  <2>5. ASSUME NEW p \in Procs, Backfill(p) PROVE TakenBack(i)
    <3>1. /\ on[p] \in DOMAIN profiles /\ pc[p] = "backfill" /\ pc'[p] # "backfill"
          /\ Update(on[p], [profiles[on[p]] EXCEPT !.dnd = "clear"])
      BY <1>1, <2>5, BackfillStep
    <3>2. on[p] = i
      BY <1>1, <2>1, <3>1, DndWritten
    <3>. QED
      BY <3>1, <3>2
  <2>. QED
    BY <1>1, <2>3, <2>4, <2>5 DEF Next
<1>2. Typed /\ [Next]_vars =>
        [\A i \in DOMAIN profiles :
           Blocked(profiles[i]) /\ ~Blocked(profiles'[i]) => TakenBack(i)]_vars
  BY <1>1
<1>. QED
  BY <1>2, InitTyped, StepTyped, PTL DEF Spec, OptOutStands
=============================================================================
