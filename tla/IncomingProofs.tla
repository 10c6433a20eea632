--------------------------- MODULE IncomingProofs ---------------------------
(***************************************************************************)
(* Proofs about what becomes of a message before the chat: MessageRouter,  *)
(* for every number of messages under way, all messages and configurations *)
(* and whatever models the gateway lists; and ImageIntake, for every       *)
(* message, and whatever is refused, found, downloaded or announced.       *)
(***************************************************************************)
EXTENDS MCMessageRouter, FiniteSetTheorems, SequenceTheorems, WellFoundedInduction, TLAPS

(* decide_group_trigger agrees with the table of the README.               *)
LEMMA TableAgrees ==
  ASSUME NEW m PROVE Triggered(m) <=> InTable(m)
<1>1. CASE config.keywordOnly
  BY <1>1 DEF Triggered, InTable, Mode, CanRunCommand
<1>2. CASE ~config.keywordOnly /\ config.requireMention
  BY <1>2 DEF Triggered, InTable, Mode, CanRunCommand
<1>3. CASE ~config.keywordOnly /\ ~config.requireMention
  BY <1>3 DEF Triggered, InTable, Mode, CanRunCommand
<1> QED BY <1>1, <1>2, <1>3

-----------------------------------------------------------------------------
(* A message that is let in passes every check of handle_message; one that *)
(* is over has an answer just if it was let in, or was told it is blocked. *)
LetIn(h) ==
  /\ ~Nothing(msg[h]) /\ ~Blocked(msg[h])
  /\ msg[h].group => Triggered(msg[h])

Underway(h) ==
  /\ pc[h] \in {"dispatch", "listing", "chat"} => LetIn(h)
  /\ pc[h] = "listing" => MayRun(h) /\ msg[h].text \in {"list", "set"}
  /\ pc[h] = "done" =>
       \/ answer[h] \in {"none", "blocked"} /\ ~LetIn(h)
       \/ answer[h] \notin {"none", "blocked"} /\ LetIn(h)

(* What is selected was set by a handler that is over.                     *)
Chosen ==
  selected # NoModel =>
    \E h \in Handlers :
      msg[h].admin /\ msg[h].text = "set" /\ wanted[h] = selected /\ answer[h] = "switched"

RouterInv ==
  /\ TypeOK
  /\ \A h \in Handlers : Underway(h)
  /\ Chosen
  /\ \A h \in fresh : msg[h].admin

LEMMA InitRouterInv == Init => RouterInv
<1> SUFFICES ASSUME Init PROVE RouterInv
  OBVIOUS
<1>1. TypeOK
  BY DEF Init, TypeOK, Answers
<1>2. \A h \in Handlers : Underway(h)
  BY DEF Init, Underway
<1> QED BY <1>1, <1>2 DEF RouterInv, Init, Chosen

(* A step of one handler leaves the places and answers of all others, and  *)
(* what it selects it has been told to have.                               *)
LEMMA Moved ==
  ASSUME RouterInv, NEW h \in Handlers, NEW p \in {"dispatch", "listing", "chat", "done"},
         NEW a \in Answers,
         pc[h] \in {"new", "dispatch", "listing"},
         pc' = [pc EXCEPT ![h] = p], answer' = [answer EXCEPT ![h] = a],
         a # "none" => p = "done",
         p \in {"dispatch", "listing", "chat"} => LetIn(h),
         p = "listing" => MayRun(h) /\ msg[h].text \in {"list", "set"},
         p = "done" => \/ a \in {"none", "blocked"} /\ ~LetIn(h)
                       \/ a \notin {"none", "blocked"} /\ LetIn(h),
         \/ UNCHANGED selected
         \/ selected' = NoModel
         \/ /\ selected' = wanted[h] /\ a = "switched"
            /\ msg[h].admin /\ msg[h].text = "set",
         fresh' = fresh \/ (fresh' = fresh \cup {h} /\ msg[h].admin),
         UNCHANGED <<config, msg, wanted>>
  PROVE  RouterInv'
<1> USE DEF RouterInv
<1>1. /\ pc \in [Handlers -> {"new", "dispatch", "listing", "chat", "done"}]
      /\ answer \in [Handlers -> Answers]
  BY DEF TypeOK
<1>2. /\ \A g \in Handlers : pc'[g] = IF g = h THEN p ELSE pc[g]
      /\ \A g \in Handlers : answer'[g] = IF g = h THEN a ELSE answer[g]
  BY <1>1
<1>3. TypeOK'
  <2>1. /\ pc' \in [Handlers -> {"new", "dispatch", "listing", "chat", "done"}]
        /\ answer' \in [Handlers -> Answers]
    BY <1>1
  <2>2. \A g \in Handlers : answer'[g] # "none" => pc'[g] = "done"
    BY <1>2 DEF TypeOK
  <2>3. selected' \in Models \cup {NoModel}
    BY DEF TypeOK
  <2> QED BY <2>1, <2>2, <2>3 DEF TypeOK
<1>4. \A g \in Handlers : LetIn(g)' <=> LetIn(g)
  BY DEF LetIn, Nothing, Blocked, Triggered, CanRunCommand, IsCommand
<1>5. \A g \in Handlers : Underway(g)'
  BY <1>2, <1>4 DEF Underway, MayRun
<1>6. Chosen'
  <2>1. CASE UNCHANGED selected
    <3> SUFFICES ASSUME selected # NoModel PROVE Chosen'
      BY <2>1 DEF Chosen
    <3>1. PICK g \in Handlers :
            msg[g].admin /\ msg[g].text = "set" /\ wanted[g] = selected /\ answer[g] = "switched"
      BY DEF Chosen
    <3>2. g # h
      BY <3>1 DEF TypeOK
    <3> QED BY <1>2, <2>1, <3>1, <3>2 DEF Chosen
  <2>2. CASE selected' = NoModel
    BY <2>2 DEF Chosen
  <2>3. CASE selected' = wanted[h] /\ a = "switched" /\ msg[h].admin /\ msg[h].text = "set"
    BY <1>2, <2>3 DEF Chosen
  <2> QED BY <2>1, <2>2, <2>3
<1>7. \A g \in fresh' : msg'[g].admin
  OBVIOUS
<1> QED BY <1>3, <1>5, <1>6, <1>7

LEMMA StepRouterInv ==
  ASSUME RouterInv, NEW h \in Handlers, Step(h)
  PROVE  RouterInv'
<1>0. /\ pc \in [Handlers -> {"new", "dispatch", "listing", "chat", "done"}]
      /\ answer \in [Handlers -> Answers]
      /\ \A g \in Handlers : pc[g] # "done" => answer[g] = "none"
      /\ msg[h] \in AllMessages
  BY RouterAssumption DEF RouterInv, TypeOK
<1> DEFINE Same == answer' = [answer EXCEPT ![h] = "none"]
<1>a. pc[h] # "done" /\ UNCHANGED answer => Same
  BY <1>0
<1>b. pc[h] \in {"dispatch", "listing"} => LetIn(h)
  BY DEF RouterInv, Underway
<1> HIDE DEF Same
<1> USE DEF Goto, Answer, Answers, Command, Commands, AdminCommands, ModelCommands
<1>1. CASE Ignore(h)
  <2>1. ~LetIn(h) /\ pc[h] = "new" /\ Same
    BY <1>1, <1>a DEF Ignore, LetIn
  <2> QED BY <1>1, <2>1, Moved DEF Ignore, Same
<1>2. CASE Block(h)
  <2>1. ~LetIn(h) /\ pc[h] = "new"
    BY <1>2 DEF Block, LetIn
  <2>2. CASE UNCHANGED answer
    BY <1>2, <1>a, <2>1, <2>2, Moved DEF Block, Same
  <2>3. CASE answer' = [answer EXCEPT ![h] = "blocked"]
    BY <1>2, <2>1, <2>3, Moved DEF Block
  <2> QED BY <1>2, <2>2, <2>3 DEF Block
<1>3. CASE Trigger(h)
  <2>1. pc[h] = "new" /\ Same
    BY <1>3, <1>a DEF Trigger
  <2>2. CASE msg[h].group /\ ~Triggered(msg[h])
    BY <1>3, <2>1, <2>2, Moved DEF Trigger, Same, LetIn
  <2>3. CASE ~(msg[h].group /\ ~Triggered(msg[h]))
    BY <1>3, <2>1, <2>3, Moved DEF Trigger, Same, LetIn
  <2> QED BY <2>2, <2>3
<1>4. CASE Chat(h)
  BY <1>4, <1>a, <1>b, Moved DEF Chat, Same
<1>5. CASE Ping(h)
  BY <1>5, <1>b, Moved DEF Ping
<1>6. CASE Help(h)
  BY <1>6, <1>b, Moved DEF Help
<1>7. CASE Deny(h)
  BY <1>7, <1>b, Moved DEF Deny
<1>8. CASE NewSession(h)
  BY <1>8, <1>b, Moved DEF NewSession, MayRun
<1>9. CASE ShowModel(h)
  BY <1>9, <1>b, Moved DEF ShowModel
<1>10. CASE ResetModel(h)
  BY <1>10, <1>b, Moved DEF ResetModel
<1>11. CASE AskForModels(h)
  BY <1>11, <1>a, <1>b, Moved DEF AskForModels, Same
<1>12. CASE ModelsListed(h) \/ ListingFails(h)
  <2>1. pc[h] = "listing" /\ LetIn(h) /\ msg[h].admin /\ msg[h].text \in {"list", "set"}
    BY <1>12 DEF ModelsListed, ListingFails, RouterInv, Underway, MayRun
  <2>2. PICK a \in {"list", "no list", "unsupported", "switched"} :
          /\ answer' = [answer EXCEPT ![h] = a]
          /\ pc' = [pc EXCEPT ![h] = "done"]
          /\ \/ UNCHANGED selected
             \/ selected' = wanted[h] /\ a = "switched" /\ msg[h].text = "set"
    BY <1>12, <2>1 DEF ModelsListed, ListingFails
  <2>3. UNCHANGED <<config, msg, wanted, fresh>>
    BY <1>12 DEF ModelsListed, ListingFails
  <2> QED BY <2>1, <2>2, <2>3, Moved
<1> QED
  BY <1>1, <1>2, <1>3, <1>4, <1>5, <1>6, <1>7, <1>8, <1>9, <1>10, <1>11, <1>12 DEF Step

LEMMA NextRouterInv == RouterInv /\ [Next]_vars => RouterInv'
<1> SUFFICES ASSUME RouterInv, [Next]_vars PROVE RouterInv'
  OBVIOUS
<1>1. CASE \E h \in Handlers : Step(h)
  BY <1>1, StepRouterInv
<1>2. CASE UNCHANGED vars
  BY <1>2 DEF vars, RouterInv, TypeOK, Underway, Chosen, LetIn, MayRun, Nothing, Blocked,
              Triggered, CanRunCommand, IsCommand
<1> QED BY <1>1, <1>2 DEF Next, Terminated

LEMMA AlwaysRouterInv == Spec => []RouterInv
  BY InitRouterInv, NextRouterInv, PTL DEF Spec

-----------------------------------------------------------------------------
(* Types; a message has an answer only when it is over.                    *)
THEOREM RouterTypeCorrect == Spec => []TypeOK
<1>1. RouterInv => TypeOK
  BY DEF RouterInv
<1> QED BY <1>1, AlwaysRouterInv, PTL

(* In a group the bot reacts to exactly the messages of the README's       *)
(* table, whatever is configured.                                          *)
THEOREM TriggersByTheTable == Spec => []TriggerTable
<1>1. RouterInv => TriggerTable
  <2> SUFFICES ASSUME RouterInv, NEW h \in Handlers,
                      msg[h].group, pc[h] # "new", ~Nothing(msg[h]), ~Blocked(msg[h])
               PROVE  Reacted(h) <=> InTable(msg[h])
    BY DEF TriggerTable
  <2>1. LetIn(h) <=> Triggered(msg[h])
    BY DEF LetIn
  <2>2. pc[h] \in {"dispatch", "listing", "chat", "done"} /\ (answer[h] # "none" => pc[h] = "done")
    BY DEF RouterInv, TypeOK
  <2>3. Reacted(h) <=> LetIn(h)
    BY <2>2 DEF Reacted, RouterInv, Underway
  <2> QED BY <2>1, <2>3, TableAgrees
<1> QED BY <1>1, AlwaysRouterInv, PTL

(* However commands interleave with each other and with the gateway's      *)
(* lists of models, what is selected is what an administrator asked for,   *)
(* and under admin_only_chat nobody else gets past the notice.             *)
THEOREM AdminsDecide == Spec => []OnlyAdminsChangeThings
<1>1. RouterInv => OnlyAdminsChangeThings
  <2> SUFFICES ASSUME RouterInv PROVE OnlyAdminsChangeThings
    OBVIOUS
  <2>1. ASSUME NEW h \in Handlers, config.adminOnly, Reacted(h) PROVE msg[h].admin
    <3>1. \/ pc[h] \in {"dispatch", "listing", "chat"}
          \/ pc[h] = "done" /\ answer[h] \notin {"none", "blocked"}
      BY <2>1 DEF Reacted, RouterInv, TypeOK
    <3>2. LetIn(h)
      BY <3>1 DEF RouterInv, Underway
    <3> QED BY <2>1, <3>2 DEF LetIn, Blocked
  <2> QED BY <2>1 DEF OnlyAdminsChangeThings, RouterInv, Chosen
<1> QED BY <1>1, AlwaysRouterInv, PTL

-----------------------------------------------------------------------------
(* What may go to the model: links that are not refused, and contents of   *)
(* such links within the limit.                                            *)
Acceptable(image) ==
  /\ image[2] \notin Refused
  /\ image[1] = "content" => image[3] <= MAX

(* The results are a sequence of acceptable images, whatever items the     *)
(* segments, links and quoted messages are made of; and a download is of a *)
(* URL that is not refused, so that its content may be kept.               *)
ResultsAcceptable ==
  \E S : results \in Seq(S) /\ \A image \in S : Acceptable(image)

FetchesAllowed == waiting.call = "download" => waiting.on \notin Refused

IntakeInv == ResultsAcceptable /\ FetchesAllowed

LEMMA ImageKinds ==
  ASSUME NEW u, u \notin Refused
  PROVE  /\ Acceptable(Link(u))
         /\ \A n : n <= MAX => Acceptable(Content(u, n))
BY DEF Acceptable, Link, Content

(* An item that is dealt with gives an acceptable image or none.           *)
LEMMA SettledAcceptable ==
  ASSUME IntakeInv, NEW u, NEW image, Settle(u, image),
         image # Absent => Acceptable(image)
  PROVE  IntakeInv'
<1>1. FetchesAllowed'
  BY DEF Settle, NoCall, Idle, FetchesAllowed
<1>2. PICK S : results \in Seq(S) /\ \A i \in S : Acceptable(i)
  BY DEF IntakeInv, ResultsAcceptable
<1>3. CASE image = Absent
  BY <1>1, <1>2, <1>3 DEF Settle, IntakeInv, ResultsAcceptable, Acceptable
<1>4. CASE image # Absent
  <2>1. results' = Append(results, image)
    BY <1>4 DEF Settle
  <2>2. results \in Seq(S \cup {image})
    BY <1>2
  <2>3. results' \in Seq(S \cup {image})
    BY <2>1, <2>2
  <2>4. \A i \in S \cup {image} : Acceptable(i)
    BY <1>2, <1>4
  <2> QED BY <1>1, <2>3, <2>4 DEF IntakeInv, ResultsAcceptable, Acceptable
<1> QED BY <1>3, <1>4

(* process_image_url fetches or passes on only what is not refused.        *)
LEMMA ProcessedAcceptable ==
  ASSUME IntakeInv, NEW u, Process(u)
  PROVE  IntakeInv'
<1>1. CASE IsRefused(u)
  BY <1>1, SettledAcceptable DEF Process
<1>2. CASE ~IsRefused(u) /\ PassedOn(u)
  BY <1>2, SettledAcceptable, ImageKinds DEF Process, IsRefused
<1>3. CASE ~IsRefused(u) /\ ~PassedOn(u)
  <2>1. waiting' = [call |-> "download", on |-> u] /\ u \notin Refused /\ results' = results
    BY <1>3 DEF Process, IsRefused
  <2> QED BY <2>1 DEF IntakeInv, ResultsAcceptable, FetchesAllowed, Acceptable
<1> QED BY <1>1, <1>2, <1>3

LEMMA StepIntakeInv ==
  ASSUME IntakeInv, [IntakeNext]_intakeVars
  PROVE  IntakeInv'
<1>1. ASSUME UNCHANGED results, UNCHANGED waiting \/ waiting'.call # "download"
      PROVE  IntakeInv'
  BY <1>1 DEF IntakeInv, ResultsAcceptable, FetchesAllowed, Acceptable
<1>2. ASSUME TakeSegment PROVE IntakeInv'
  <2> DEFINE seg == Head(todo)
  <2>1. CASE UrlIn(seg) # Absent
    BY <1>2, <2>1, ProcessedAcceptable DEF TakeSegment
  <2>2. CASE UrlIn(seg) = Absent /\ seg.file \in Names
    <3>1. waiting' = [call |-> "get_image", on |-> seg.file] /\ results' = results
      BY <1>2, <2>2 DEF TakeSegment
    <3> QED BY <1>1, <3>1
  <2>3. CASE UrlIn(seg) = Absent /\ seg.file \notin Names
    BY <1>2, <2>3, SettledAcceptable DEF TakeSegment
  <2> QED BY <2>1, <2>2, <2>3
<1>3. ASSUME NEW u, ImageFound(u) PROVE IntakeInv'
  BY <1>3, SettledAcceptable, ProcessedAcceptable DEF ImageFound
<1>4. ASSUME NEW r \in Responses, Downloaded(r) PROVE IntakeInv'
  <2>1. waiting.on \notin Refused
    BY <1>4 DEF Downloaded, IntakeInv, FetchesAllowed
  <2>2. CASE Fits(r)
    BY <1>4, <2>1, <2>2, ImageKinds, SettledAcceptable DEF Downloaded, Fits
  <2>3. CASE ~Fits(r)
    BY <1>4, <2>3, SettledAcceptable DEF Downloaded
  <2> QED BY <2>2, <2>3
<1>5. ASSUME DownloadFails PROVE IntakeInv'
  BY <1>5, SettledAcceptable DEF DownloadFails
<1>6. ASSUME TakeLink PROVE IntakeInv'
  BY <1>1, <1>6, ProcessedAcceptable DEF TakeLink
<1>7. CASE ReadText \/ OwnDone \/ GetMsg \/ GetMsgFails \/ QuotesDone \/ Over \/ UNCHANGED intakeVars
  BY <1>1, <1>7 DEF ReadText, OwnDone, GetMsg, GetMsgFails, QuotesDone, Over, intakeVars
<1> QED BY <1>2, <1>3, <1>4, <1>5, <1>6, <1>7 DEF IntakeNext, IntakeStep

(* However a URL was found, one that is_ssrf_url refuses is neither        *)
(* fetched nor passed on, and no content beyond MAX_IMAGE_BYTES goes to    *)
(* the model, whatever length was announced.                               *)
THEOREM ImagesAcceptable == IntakeSpec => []OnlyAcceptableImages
<1>1. IntakeInit => IntakeInv
  <2> SUFFICES ASSUME IntakeInit PROVE IntakeInv
    OBVIOUS
  <2>1. results \in Seq({}) /\ waiting.call = "none"
    BY DEF IntakeInit, Idle
  <2> QED BY <2>1 DEF IntakeInv, ResultsAcceptable, FetchesAllowed
<1>2. IntakeInv /\ [IntakeNext]_intakeVars => IntakeInv'
  BY StepIntakeInv
<1>3. IntakeInv => OnlyAcceptableImages
  <2> SUFFICES ASSUME IntakeInv PROVE OnlyAcceptableImages
    OBVIOUS
  <2>1. PICK S : results \in Seq(S) /\ \A image \in S : Acceptable(image)
    BY DEF IntakeInv, ResultsAcceptable
  <2>2. \A i \in DOMAIN results : results[i] \in S
    BY <2>1
  <2> QED BY <2>1, <2>2 DEF IntakeInv, FetchesAllowed, OnlyAcceptableImages, Acceptable
<1> QED BY <1>1, <1>2, <1>3, PTL DEF IntakeSpec

-----------------------------------------------------------------------------
(* Every set of numbers with a member has a least one.                     *)
LEMMA Smallest ==
  ASSUME NEW T, T \subseteq Nat, T # {}
  PROVE  \E x \in T : \A y \in T : x <= y
<1>1. PICK x \in T : \A y \in T : ~(<<y, x>> \in OpToRel(<, Nat))
  BY NatLessThanWellFounded, WFMin
<1>2. \A y \in T : <<y, x>> \in Nat \X Nat
  OBVIOUS
<1>3. \A y \in T : ~(y < x)
  BY <1>1, <1>2 DEF OpToRel
<1> QED BY <1>3

(* What can go to the model, and what is noted of an item.                 *)
Images == {Link(u) : u \in Urls} \cup {Content(u, n) : u \in Urls, n \in Nat}

Notes ==
  [stage : {"segments", "links", "quoted"}, url : Urls \cup {Absent}, image : Images \cup {Absent}]

(* A step of the recursion in ImagesIn, and functions that follow it.      *)
ImageStep(notes, s, g, n) ==
  g[n] = IF n = 0 THEN <<>>
         ELSE IF notes[n].stage = s /\ notes[n].image # Absent
                THEN Append(g[n - 1], notes[n].image) ELSE g[n - 1]

ImagesUpTo(notes, s, n, g) ==
  g = [i \in 0 .. n |->
         IF i = 0 THEN <<>>
         ELSE IF notes[i].stage = s /\ notes[i].image # Absent
                THEN Append(g[i - 1], notes[i].image) ELSE g[i - 1]]

LEMMA ImagesDefined ==
  ASSUME NEW notes, NEW s
  PROVE  \A n \in Nat : \E g : ImagesUpTo(notes, s, n, g)
<1> DEFINE T == {n \in Nat : ~\E g : ImagesUpTo(notes, s, n, g)}
<1> SUFFICES ASSUME T # {} PROVE FALSE
  OBVIOUS
<1>1. PICK n \in T : \A m \in T : n <= m
  BY Smallest
<1>2. CASE n = 0
  <2> DEFINE g == [i \in 0 .. 0 |-> <<>>]
  <2>1. ImagesUpTo(notes, s, 0, g)
    BY DEF ImagesUpTo
  <2> QED BY <1>1, <1>2, <2>1
<1>3. CASE n # 0
  <2>1. n - 1 \in Nat /\ n - 1 \notin T
    BY <1>1, <1>3
  <2>2. PICK g : ImagesUpTo(notes, s, n - 1, g)
    BY <2>1
  <2> DEFINE h == [i \in 0 .. n |->
                     IF i = n
                       THEN (IF notes[n].stage = s /\ notes[n].image # Absent
                               THEN Append(g[n - 1], notes[n].image) ELSE g[n - 1])
                       ELSE g[i]]
  <2>3. \A i \in 0 .. n - 1 : h[i] = g[i]
    BY <1>1
  <2>4. \A i \in 0 .. n - 1 :
          g[i] = IF i = 0 THEN <<>>
                 ELSE IF notes[i].stage = s /\ notes[i].image # Absent
                        THEN Append(g[i - 1], notes[i].image) ELSE g[i - 1]
    BY <2>2, Zenon DEF ImagesUpTo
  <2>5. \A i \in 0 .. n :
          h[i] = IF i = 0 THEN <<>>
                 ELSE IF notes[i].stage = s /\ notes[i].image # Absent
                        THEN Append(h[i - 1], notes[i].image) ELSE h[i - 1]
    BY <1>1, <1>3, <2>1, <2>3, <2>4
  <2>6. ImagesUpTo(notes, s, n, h)
    BY <2>5 DEF ImagesUpTo
  <2> QED BY <1>1, <2>6
<1> QED BY <1>2, <1>3

LEMMA ImagesBySteps ==
  ASSUME NEW notes \in Seq(Notes), NEW s
  PROVE  \E g : ImagesIn(notes, s) = g[Len(notes)]
                /\ \A i \in 0 .. Len(notes) : ImageStep(notes, s, g, i)
<1> DEFINE n == Len(notes)
           f == CHOOSE g : ImagesUpTo(notes, s, n, g)
<1>1. n \in Nat
  OBVIOUS
<1>2. ImagesIn(notes, s) = f[n]
  BY DEF ImagesIn, ImagesUpTo
<1>3. ImagesUpTo(notes, s, n, f)
  <2> HIDE DEF n
  <2> QED BY <1>1, ImagesDefined, Zenon
<1> HIDE DEF f
<1>4. \A i \in 0 .. n : ImageStep(notes, s, f, i)
  BY <1>3, Zenon DEF ImagesUpTo, ImageStep
<1> QED BY <1>2, <1>4

LEMMA ImagesOfNone ==
  ASSUME NEW s
  PROVE  ImagesIn(<<>>, s) = <<>>
<1>1. <<>> \in Seq(Notes) /\ Len(<<>>) = 0
  OBVIOUS
<1>2. PICK g : ImagesIn(<<>>, s) = g[0] /\ \A i \in 0 .. 0 : ImageStep(<<>>, s, g, i)
  BY <1>1, ImagesBySteps
<1> QED BY <1>2 DEF ImageStep

(* One more note adds its image, if it is of the stage and has one.        *)
LEMMA ImagesOfOneMore ==
  ASSUME NEW notes \in Seq(Notes), NEW x \in Notes, NEW s
  PROVE  ImagesIn(Append(notes, x), s) =
           IF x.stage = s /\ x.image # Absent
             THEN Append(ImagesIn(notes, s), x.image) ELSE ImagesIn(notes, s)
<1> DEFINE t == Append(notes, x)
           n == Len(notes)
<1>1. /\ t \in Seq(Notes) /\ Len(t) = n + 1 /\ n \in Nat /\ t[n + 1] = x
      /\ \A i \in 1 .. n : t[i] = notes[i]
  OBVIOUS
<1>2. PICK g : ImagesIn(notes, s) = g[n] /\ \A i \in 0 .. n : ImageStep(notes, s, g, i)
  BY ImagesBySteps
<1>3. PICK h : ImagesIn(t, s) = h[n + 1] /\ \A i \in 0 .. n + 1 : ImageStep(t, s, h, i)
  BY <1>1, ImagesBySteps
<1> HIDE DEF t, n
<1>4. \A i \in 0 .. n : g[i] = h[i]
  <2> DEFINE T == {i \in 0 .. n : g[i] # h[i]}
  <2> SUFFICES ASSUME T # {} PROVE FALSE
    OBVIOUS
  <2>0. T \subseteq Nat
    BY <1>1
  <2>1. PICK i \in T : \A j \in T : i <= j
    BY <2>0, Smallest
  <2>2. ImageStep(notes, s, g, i) /\ ImageStep(t, s, h, i) /\ i \in 0 .. n /\ g[i] # h[i]
    BY <1>1, <1>2, <1>3
  <2>3. CASE i = 0
    BY <2>2, <2>3 DEF ImageStep
  <2>4. CASE i # 0
    <3>1. i - 1 \in 0 .. n /\ i - 1 \notin T /\ i \in 1 .. n
      BY <1>1, <2>1, <2>2, <2>4
    <3>2. g[i - 1] = h[i - 1] /\ t[i] = notes[i]
      BY <1>1, <3>1
    <3> QED BY <2>2, <2>4, <3>2 DEF ImageStep
  <2> QED BY <2>3, <2>4
<1>5. h[n + 1] = IF x.stage = s /\ x.image # Absent THEN Append(h[n], x.image) ELSE h[n]
  <2>1. ImageStep(t, s, h, n + 1) /\ n + 1 # 0 /\ (n + 1) - 1 = n
    BY <1>1, <1>3
  <2> QED BY <1>1, <2>1 DEF ImageStep
<1>6. g[n] = h[n]
  BY <1>1, <1>4
<1> QED BY <1>2, <1>3, <1>5, <1>6 DEF t

(* What is noted gives a sequence of images.                               *)
LEMMA ImagesType ==
  ASSUME NEW notes \in Seq(Notes), NEW s
  PROVE  ImagesIn(notes, s) \in Seq(Images)
<1> DEFINE n == Len(notes)
<1>1. PICK g : ImagesIn(notes, s) = g[n] /\ \A i \in 0 .. n : ImageStep(notes, s, g, i)
  BY ImagesBySteps
<1>2. \A i \in 1 .. n : notes[i] \in Notes
  OBVIOUS
<1>3. n \in Nat
  OBVIOUS
<1> HIDE DEF n
<1> DEFINE T == {i \in 0 .. n : g[i] \notin Seq(Images)}
<1> SUFFICES ASSUME T # {} PROVE FALSE
  BY <1>1, <1>3
<1>0. T \subseteq Nat
  BY <1>3
<1>a. \A i : i \in T <=> i \in 0 .. n /\ g[i] \notin Seq(Images)
  BY Zenon
<1> HIDE DEF T
<1>4. PICK i \in T : \A j \in T : i <= j
  BY <1>0, Smallest
<1>5. CASE i = 0
  <2>1. g[i] = <<>>
    BY <1>1, <1>a, <1>4, <1>5 DEF ImageStep
  <2>2. g[i] \in Seq(Images)
    BY <2>1, EmptySeq
  <2> QED BY <1>a, <1>4, <2>2
<1>6. CASE i # 0
  <2>1. i - 1 \in 0 .. n /\ i - 1 \notin T /\ i \in 1 .. n /\ i \in 0 .. n
    BY <1>3, <1>4, <1>6, <1>a
  <2>2. g[i - 1] \in Seq(Images)
    BY <1>a, <2>1
  <2>3. notes[i].image # Absent => notes[i].image \in Images
    BY <1>2, <2>1 DEF Notes
  <2>4. g[i] = g[i - 1] \/ (notes[i].image # Absent /\ g[i] = Append(g[i - 1], notes[i].image))
    BY <1>1, <1>6, <2>1 DEF ImageStep
  <2>5. g[i] \in Seq(Images)
    BY <2>2, <2>3, <2>4, AppendProperties
  <2> QED BY <1>a, <1>4, <2>5
<1> QED BY <1>5, <1>6

(* The same for the links of a text.                                       *)
LinkStep(text, g, k) ==
  g[k] = IF k = 0 THEN <<>>
         ELSE LET url == text[((k - 1) % Len(text)) + 1]
                  re  == LinkKinds[((k - 1) \div Len(text)) + 1]
              IN  IF url \in re /\ ~Contains(g[k - 1], url)
                    THEN Append(g[k - 1], url) ELSE g[k - 1]

LinksUpTo(text, n, g) ==
  g = [k \in 0 .. n |->
         IF k = 0 THEN <<>>
         ELSE LET url == text[((k - 1) % Len(text)) + 1]
                  re  == LinkKinds[((k - 1) \div Len(text)) + 1]
              IN  IF url \in re /\ ~Contains(g[k - 1], url)
                    THEN Append(g[k - 1], url) ELSE g[k - 1]]

LEMMA LinksDefined ==
  ASSUME NEW text
  PROVE  \A n \in Nat : \E g : LinksUpTo(text, n, g)
<1> DEFINE T == {n \in Nat : ~\E g : LinksUpTo(text, n, g)}
           url(k) == text[((k - 1) % Len(text)) + 1]
           re(k) == LinkKinds[((k - 1) \div Len(text)) + 1]
           More(s, k) == IF url(k) \in re(k) /\ ~Contains(s, url(k)) THEN Append(s, url(k)) ELSE s
<1>0. \A n, g : LinksUpTo(text, n, g) <=> g = [k \in 0 .. n |-> IF k = 0 THEN <<>> ELSE More(g[k - 1], k)]
  BY DEF LinksUpTo
<1> SUFFICES ASSUME T # {} PROVE FALSE
  OBVIOUS
<1>1. PICK n \in T : \A m \in T : n <= m
  BY Smallest
<1> HIDE DEF More
<1>2. CASE n = 0
  <2> DEFINE g == [i \in 0 .. 0 |-> <<>>]
  <2>1. g = [k \in 0 .. 0 |-> IF k = 0 THEN <<>> ELSE More(g[k - 1], k)]
    OBVIOUS
  <2> QED BY <1>0, <1>1, <1>2, <2>1
<1>3. CASE n # 0
  <2>1. n - 1 \in Nat /\ n - 1 \notin T
    BY <1>1, <1>3
  <2>2. PICK g : LinksUpTo(text, n - 1, g)
    BY <2>1
  <2> DEFINE h == [i \in 0 .. n |-> IF i = n THEN More(g[n - 1], n) ELSE g[i]]
  <2>3. \A i \in 0 .. n - 1 : h[i] = g[i]
    BY <1>1
  <2>4. \A i \in 0 .. n - 1 : g[i] = IF i = 0 THEN <<>> ELSE More(g[i - 1], i)
    <3>1. g = [k \in 0 .. n - 1 |-> IF k = 0 THEN <<>> ELSE More(g[k - 1], k)]
      BY <1>0, <2>2
    <3> QED BY <3>1, Zenon
  <2>5. \A i \in 0 .. n : h[i] = IF i = 0 THEN <<>> ELSE More(h[i - 1], i)
    BY <1>1, <1>3, <2>1, <2>3, <2>4
  <2>6. h = [k \in 0 .. n |-> IF k = 0 THEN <<>> ELSE More(h[k - 1], k)]
    BY <2>5
  <2> HIDE DEF h
  <2> QED BY <1>0, <1>1, <2>6
<1> QED BY <1>2, <1>3

LEMMA LinksBySteps ==
  ASSUME NEW text, NEW n \in Nat, n = Len(LinkKinds) * Len(text)
  PROVE  \E g : LinksIn(text) = g[n] /\ \A k \in 0 .. n : LinkStep(text, g, k)
<1> DEFINE f == CHOOSE g : LinksUpTo(text, n, g)
<1>1. LinksIn(text) = f[n]
  BY DEF LinksIn, LinksUpTo
<1>2. LinksUpTo(text, n, f)
  BY LinksDefined, Zenon
<1> HIDE DEF f
<1>3. \A k \in 0 .. n : LinkStep(text, f, k)
  BY <1>2, Zenon DEF LinksUpTo, LinkStep
<1> QED BY <1>1, <1>3

(* The links of a text are some of its URLs.                               *)
LEMMA LinksType ==
  ASSUME NEW text \in Seq(Urls)
  PROVE  LinksIn(text) \in Seq(Urls)
<1> DEFINE n == Len(LinkKinds) * Len(text)
<1>1. n \in Nat /\ Len(text) \in Nat
  BY IntakeAssumption
<1>2. \A k \in 1 .. n : text[((k - 1) % Len(text)) + 1] \in Urls
  <2> SUFFICES ASSUME NEW k \in 1 .. n PROVE text[((k - 1) % Len(text)) + 1] \in Urls
    OBVIOUS
  <2>1. Len(text) # 0
    <3> SUFFICES ASSUME Len(text) = 0 PROVE FALSE
      OBVIOUS
    <3>1. Len(LinkKinds) \in Nat
      BY IntakeAssumption
    <3>2. n = 0
      BY <3>1
    <3> QED BY <3>2
  <2> HIDE DEF n
  <2>2. ((k - 1) % Len(text)) + 1 \in 1 .. Len(text)
    BY <1>1, <2>1
  <2> QED BY <2>2
<1>3. PICK g : LinksIn(text) = g[n] /\ \A k \in 0 .. n : LinkStep(text, g, k)
  <2> HIDE DEF n
  <2>1. n = Len(LinkKinds) * Len(text)
    BY DEF n
  <2> QED BY <1>1, <2>1, LinksBySteps
<1> HIDE DEF n
<1> DEFINE T == {k \in 0 .. n : g[k] \notin Seq(Urls)}
<1> SUFFICES ASSUME T # {} PROVE FALSE
  BY <1>1, <1>3
<1>4. T \subseteq Nat
  BY <1>1
<1>5. \A k : k \in T <=> k \in 0 .. n /\ g[k] \notin Seq(Urls)
  BY Zenon
<1> HIDE DEF T
<1>6. PICK k \in T : \A j \in T : k <= j
  BY <1>4, Smallest
<1>7. CASE k = 0
  <2>1. g[k] = <<>>
    BY <1>3, <1>5, <1>6, <1>7 DEF LinkStep
  <2>2. g[k] \in Seq(Urls)
    BY <2>1, EmptySeq
  <2> QED BY <1>5, <1>6, <2>2
<1>8. CASE k # 0
  <2> DEFINE url == text[((k - 1) % Len(text)) + 1]
  <2>1. k - 1 \in 0 .. n /\ k - 1 \notin T /\ k \in 1 .. n /\ k \in 0 .. n
    BY <1>1, <1>5, <1>6, <1>8
  <2>2. g[k - 1] \in Seq(Urls)
    BY <1>5, <2>1
  <2>3. url \in Urls
    BY <1>2, <2>1
  <2>4. g[k] = g[k - 1] \/ g[k] = Append(g[k - 1], url)
    BY <1>3, <1>8, <2>1 DEF LinkStep
  <2> HIDE DEF url
  <2>5. g[k] \in Seq(Urls)
    BY <2>2, <2>3, <2>4, AppendProperties
  <2> QED BY <1>5, <1>6, <2>5
<1> QED BY <1>7, <1>8

-----------------------------------------------------------------------------
(* The handler awaits one call at a time, for the item it is at.           *)
OneByOne ==
  \/ waiting = Idle
  \/ /\ todo # <<>> /\ stage # "over"
     /\ \/ /\ waiting.call = "download" /\ waiting.on \in Urls
           /\ stage = "links" => waiting.on = Head(todo)
        \/ waiting.call = "get_image" /\ waiting.on \in Names /\ stage # "links"

GatherTypes ==
  /\ recognition \in BOOLEAN /\ mode \in {"url", "base64"} /\ post \in Posts
  /\ stage \in {"segments", "links", "quoted", "over"}
  /\ todo \in Seq(IF stage = "links" THEN Urls ELSE Segments)
  /\ quotes \in Seq(Seq(Segments))
  /\ results \in Seq(Images) /\ tried \in Seq(Notes)
  /\ OneByOne

(* Each segment is noted or still to be looked at; each link of the text   *)
(* is to be looked at, noted, or sent already.                             *)
SegmentsCounted ==
  Cardinality(At("segments")) + (IF stage = "segments" THEN Len(todo) ELSE 0) = Len(post.segments)

LookedAt(u) ==
  \/ Contains(results, Link(u))
  \/ \E i \in DOMAIN tried : tried[i].url = u /\ tried[i].stage = "links"

LinksCounted ==
  stage # "segments" =>
    \A u \in ToSet(LinksIn(post.links)) : (stage = "links" /\ u \in ToSet(todo)) \/ LookedAt(u)

(* The results are those of the stages so far; quoted messages come in     *)
(* only if there are no others.                                            *)
ResultsOfStages ==
  /\ stage = "segments" =>
       results = Had("segments") /\ Had("links") = <<>> /\ Had("quoted") = <<>> /\ At("quoted") = {}
  /\ stage = "links" => results = Own /\ Had("quoted") = <<>> /\ At("quoted") = {}
  /\ stage = "quoted" => Own = <<>> /\ results = Had("quoted")
  /\ stage = "over" =>
       results = (IF Own # <<>> THEN Own ELSE Had("quoted")) /\ (Own # <<>> => At("quoted") = {})

LinksOnce ==
  \A u \in Urls :
    Contains(Had("links"), Link(u)) =>
      \A i, j \in DOMAIN results : results[i] = Link(u) /\ results[j] = Link(u) => i = j

Gathered == SegmentsCounted /\ LinksCounted /\ ResultsOfStages /\ LinksOnce

GatherInv == GatherTypes /\ (recognition => Gathered)

LEMMA PostTypes ==
  ASSUME NEW p \in Posts
  PROVE  p.segments \in Seq(Segments) /\ LinksIn(p.links) \in Seq(Urls) /\ p.quoted \in Seq(Seq(Segments))
<1>1. p \in AllPosts
  BY IntakeAssumption
<1>2. p.segments \in Seq(Segments) /\ p.links \in Seq(Urls) /\ p.quoted \in Seq(Seq(Segments))
  BY <1>1 DEF AllPosts
<1> QED BY <1>2, LinksType

LEMMA ImageTypes ==
  /\ \A u \in Urls : Link(u) \in Images
  /\ \A u \in Urls, n \in Nat : Content(u, n) \in Images
  /\ \A u, v : Link(u) = Link(v) => u = v
  /\ \A u, v, n : Content(u, n) # Link(v)
<1>1. \A u \in Urls : Link(u) \in Images
  BY DEF Images
<1>2. \A u \in Urls, n \in Nat : Content(u, n) \in Images
  BY DEF Images
<1>3. \A u, v : Link(u) = Link(v) => u = v
  BY DEF Link
<1>4. \A u, v, n : Content(u, n) # Link(v)
  <2>1. \A u, v, n : Content(u, n)[1] # Link(v)[1]
    BY DEF Link, Content
  <2> QED BY <2>1
<1> QED BY <1>1, <1>2, <1>3, <1>4

LEMMA GatherKept ==
  ASSUME GatherInv, GatherTypes', Gathered => Gathered', recognition' = recognition
  PROVE  GatherInv'
BY Zenon DEF GatherInv

LEMMA InitGatherInv == IntakeInit => GatherInv
<1> SUFFICES ASSUME IntakeInit PROVE GatherInv
  OBVIOUS
<1>1. post.segments \in Seq(Segments)
  BY PostTypes DEF IntakeInit
<1>2. \A s : Had(s) = <<>> /\ At(s) = {}
  BY ImagesOfNone DEF IntakeInit, Had, At
<1>3. GatherTypes
  <2>1. /\ recognition \in BOOLEAN /\ mode \in {"url", "base64"} /\ post \in Posts /\ OneByOne
        /\ stage \in {"segments", "over"} /\ todo \in {post.segments, <<>>}
    BY DEF IntakeInit, OneByOne
  <2>2. quotes \in Seq(Seq(Segments)) /\ results \in Seq(Images) /\ tried \in Seq(Notes)
    BY EmptySeq DEF IntakeInit
  <2>3. todo \in Seq(Segments) /\ stage # "links"
    BY <1>1, <2>1, EmptySeq
  <2> QED BY <2>1, <2>2, <2>3 DEF GatherTypes
<1>4. ASSUME recognition PROVE Gathered
  <2>1. stage = "segments" /\ todo = post.segments /\ results = <<>>
    BY <1>4, Zenon DEF IntakeInit
  <2>2. SegmentsCounted
    <3>1. At("segments") = {} /\ Cardinality({}) = 0
      BY <1>2, FS_EmptySet
    <3>2. Len(post.segments) \in Nat
      BY <1>1
    <3>3. Cardinality(At("segments")) = 0
      BY <3>1, Zenon
    <3> QED BY <2>1, <3>2, <3>3 DEF SegmentsCounted
  <2>3. LinksCounted /\ ResultsOfStages
    BY <1>2, <2>1 DEF LinksCounted, ResultsOfStages
  <2>4. LinksOnce
    BY <1>2 DEF LinksOnce, Contains
  <2> QED BY <2>2, <2>3, <2>4 DEF Gathered
<1> QED BY <1>3, <1>4 DEF GatherInv

(* What one more note changes.                                             *)
LEMMA OneMoreNoted ==
  ASSUME GatherTypes, stage # "over",
         NEW u \in Urls \cup {Absent}, NEW image \in Images \cup {Absent}, Noted(u, image)
  PROVE  /\ tried' \in Seq(Notes)
         /\ Len(tried) \in Nat /\ DOMAIN tried = 1 .. Len(tried) /\ DOMAIN tried' = 1 .. Len(tried) + 1
         /\ \A i \in DOMAIN tried : tried'[i] = tried[i]
         /\ tried'[Len(tried) + 1].stage = stage /\ tried'[Len(tried) + 1].url = u
         /\ \A s : /\ Had(s)' = IF stage = s /\ image # Absent THEN Append(Had(s), image) ELSE Had(s)
                   /\ Had(s) \in Seq(Images)
                   /\ At(s)' = IF stage = s THEN At(s) \cup {Len(tried) + 1} ELSE At(s)
<1> DEFINE x == [stage |-> stage, url |-> u, image |-> image]
<1>1. x \in Notes /\ x.stage = stage /\ x.url = u /\ x.image = image
  BY DEF GatherTypes, Notes
<1>2. tried' = Append(tried, x) /\ tried \in Seq(Notes)
  BY DEF Noted, GatherTypes
<1> HIDE DEF x
<1>3. /\ tried' \in Seq(Notes)
      /\ Len(tried) \in Nat /\ DOMAIN tried = 1 .. Len(tried) /\ DOMAIN tried' = 1 .. Len(tried) + 1
      /\ \A i \in DOMAIN tried : tried'[i] = tried[i]
      /\ tried'[Len(tried) + 1] = x
  BY <1>1, <1>2
<1>4. ASSUME NEW s
      PROVE  /\ Had(s)' = IF stage = s /\ image # Absent THEN Append(Had(s), image) ELSE Had(s)
             /\ Had(s) \in Seq(Images)
  <2>1. Had(s)' = ImagesIn(tried', s) /\ Had(s) = ImagesIn(tried, s)
    BY DEF Had
  <2>2. ImagesIn(Append(tried, x), s) =
          IF x.stage = s /\ x.image # Absent THEN Append(ImagesIn(tried, s), x.image) ELSE ImagesIn(tried, s)
    BY <1>1, <1>2, ImagesOfOneMore
  <2>3. ImagesIn(tried, s) \in Seq(Images)
    BY <1>2, ImagesType
  <2> QED BY <1>1, <1>2, <2>1, <2>2, <2>3
<1>5. ASSUME NEW s
      PROVE  At(s)' = IF stage = s THEN At(s) \cup {Len(tried) + 1} ELSE At(s)
  <2>1. \A i : i \in At(s)' <=> i \in 1 .. Len(tried) + 1 /\ tried'[i].stage = s
    BY <1>3 DEF At
  <2>2. \A i : i \in At(s) <=> i \in 1 .. Len(tried) /\ tried[i].stage = s
    BY <1>3 DEF At
  <2>3. \A i : i \in 1 .. Len(tried) + 1 <=> i \in 1 .. Len(tried) \/ i = Len(tried) + 1
    BY <1>3
  <2>4. \A i : i \in At(s)' <=> i \in At(s) \/ (i = Len(tried) + 1 /\ stage = s)
    BY <1>1, <1>3, <2>1, <2>2, <2>3
  <2> QED BY <2>4
<1> QED BY <1>1, <1>3, <1>4, <1>5

(* An item is dealt with.                                                  *)
LEMMA SettledGathered ==
  ASSUME GatherInv, stage # "over", todo # <<>>,
         NEW u \in Urls \cup {Absent}, NEW image \in Images \cup {Absent}, Settle(u, image),
         stage = "links" =>
           u = Head(todo) /\ (image # Absent => \A v \in Urls : image = Link(v) => ~Known(v))
  PROVE  GatherInv'
<1>1. /\ Noted(u, image)
      /\ results' = IF image = Absent THEN results ELSE Append(results, image)
      /\ todo' = Tail(todo) /\ waiting' = Idle
      /\ UNCHANGED <<recognition, mode, post, stage, quotes>>
  BY DEF Settle, RestAfter, NoCall
<1>2. GatherTypes /\ OneByOne'
  BY <1>1 DEF GatherInv, OneByOne, Idle
<1>3. /\ tried' \in Seq(Notes)
      /\ Len(tried) \in Nat /\ DOMAIN tried = 1 .. Len(tried) /\ DOMAIN tried' = 1 .. Len(tried) + 1
      /\ \A i \in DOMAIN tried : tried'[i] = tried[i]
      /\ tried'[Len(tried) + 1].stage = stage /\ tried'[Len(tried) + 1].url = u
      /\ \A s : /\ Had(s)' = IF stage = s /\ image # Absent THEN Append(Had(s), image) ELSE Had(s)
                /\ Had(s) \in Seq(Images)
                /\ At(s)' = IF stage = s THEN At(s) \cup {Len(tried) + 1} ELSE At(s)
  BY <1>1, <1>2, OneMoreNoted
<1>4. /\ results \in Seq(Images) /\ results' \in Seq(Images)
      /\ image # Absent => image \in Images
  <2>1. results \in Seq(Images) /\ (image # Absent => image \in Images)
    BY <1>2 DEF GatherTypes
  <2>2. image # Absent => Append(results, image) \in Seq(Images)
    BY <2>1, AppendProperties
  <2> QED BY <1>1, <2>1, <2>2
<1>5. GatherTypes'
  <2>1. todo' \in Seq(IF stage' = "links" THEN Urls ELSE Segments)
    <3> DEFINE S == IF stage = "links" THEN Urls ELSE Segments
    <3>1. todo \in Seq(S)
      BY <1>2 DEF GatherTypes
    <3> HIDE DEF S
    <3>2. Tail(todo) \in Seq(S)
      BY <3>1, HeadTailProperties
    <3> QED BY <1>1, <3>2 DEF S
  <2> QED BY <1>1, <1>2, <1>3, <1>4, <2>1 DEF GatherTypes
<1>6. ASSUME Gathered PROVE SegmentsCounted'
  <2>1. Len(todo') = Len(todo) - 1 /\ Len(todo) \in Nat
    <3>1. PICK S : todo \in Seq(S)
      BY <1>2 DEF GatherTypes
    <3> QED BY <1>1, <3>1, HeadTailProperties
  <2>2. IsFiniteSet(At("segments")) /\ Len(tried) + 1 \notin At("segments")
    <3>1. At("segments") \subseteq 1 .. Len(tried)
      BY <1>3 DEF At
    <3>2. IsFiniteSet(1 .. Len(tried))
      BY <1>3, FS_Interval
    <3> QED BY <1>3, <3>1, <3>2, FS_Subset
  <2>3. Cardinality(At("segments")) \in Nat
    BY <2>2, FS_CardinalityType
  <2>4. CASE stage = "segments"
    <3>1. At("segments")' = At("segments") \cup {Len(tried) + 1}
      BY <1>3, <2>4
    <3>2. Cardinality(At("segments") \cup {Len(tried) + 1}) = Cardinality(At("segments")) + 1
      BY <2>2, FS_AddElement
    <3>3. Cardinality(At("segments"))' = Cardinality(At("segments")) + 1
      BY <3>1, <3>2
    <3>4. Cardinality(At("segments")) + Len(todo) = Len(post.segments)
      BY <1>6, <2>4 DEF Gathered, SegmentsCounted
    <3> QED BY <1>1, <2>1, <2>3, <2>4, <3>3, <3>4 DEF SegmentsCounted
  <2>5. CASE stage # "segments"
    <3>1. At("segments")' = At("segments")
      BY <1>3, <2>5
    <3> QED BY <1>1, <1>6, <2>5, <3>1 DEF Gathered, SegmentsCounted
  <2> QED BY <2>4, <2>5
<1>7. ASSUME Gathered PROVE LinksCounted'
  <2> SUFFICES ASSUME stage # "segments", NEW v \in ToSet(LinksIn(post.links))
               PROVE  (stage = "links" /\ v \in ToSet(todo')) \/ LookedAt(v)'
    BY <1>1 DEF LinksCounted
  <2>1. (stage = "links" /\ v \in ToSet(todo)) \/ LookedAt(v)
    BY <1>7 DEF Gathered, LinksCounted
  <2>2. CASE LookedAt(v)
    <3>1. CASE Contains(results, Link(v))
      <4>1. PICK i \in 1 .. Len(results) : results[i] = Link(v)
        BY <3>1 DEF Contains
      <4>2. i \in 1 .. Len(results') /\ results'[i] = Link(v)
        BY <1>1, <1>4, <4>1, AppendProperties
      <4> QED BY <4>2 DEF LookedAt, Contains
    <3>2. CASE \E i \in DOMAIN tried : tried[i].url = v /\ tried[i].stage = "links"
      <4>1. PICK i \in DOMAIN tried : tried[i].url = v /\ tried[i].stage = "links"
        BY <3>2
      <4>2. i \in DOMAIN tried' /\ tried'[i] = tried[i]
        BY <1>3, <4>1
      <4> QED BY <4>1, <4>2 DEF LookedAt
    <3> QED BY <2>2, <3>1, <3>2 DEF LookedAt
  <2>3. CASE stage = "links" /\ v \in ToSet(todo)
    <3>1. todo \in Seq(Urls)
      BY <1>2, <2>3 DEF GatherTypes
    <3>2. PICK i \in 1 .. Len(todo) : todo[i] = v
      BY <2>3, <3>1 DEF ToSet
    <3>3. CASE i = 1
      <4>1. u = v
        BY <2>3, <3>1, <3>2, <3>3
      <4>2. Len(tried) + 1 \in DOMAIN tried'
        BY <1>3
      <4> QED BY <1>3, <2>3, <4>1, <4>2 DEF LookedAt
    <3>4. CASE i # 1
      <4>1. i - 1 \in 1 .. Len(Tail(todo)) /\ Tail(todo)[i - 1] = v
        BY <3>1, <3>2, <3>4, HeadTailProperties
      <4>2. v \in ToSet(Tail(todo))
        <5>1. Tail(todo) \in Seq(Urls)
          BY <3>1, HeadTailProperties
        <5>2. DOMAIN Tail(todo) = 1 .. Len(Tail(todo))
          BY <5>1
        <5> QED BY <4>1, <5>2, Zenon DEF ToSet
      <4> QED BY <1>1, <2>3, <4>2
    <3> QED BY <3>3, <3>4
  <2> QED BY <2>1, <2>2, <2>3
<1>8. ASSUME Gathered PROVE ResultsOfStages'
  <2>1. /\ Had("segments") \in Seq(Images) /\ Had("links") \in Seq(Images) /\ Had("quoted") \in Seq(Images)
        /\ ResultsOfStages
    BY <1>3, <1>8 DEF Gathered
  <2>2. CASE stage = "segments"
    <3>1. results = Had("segments") /\ Had("links") = <<>> /\ Had("quoted") = <<>> /\ At("quoted") = {}
      BY <2>1, <2>2 DEF ResultsOfStages
    <3>2. results' = Had("segments")' /\ Had("links")' = <<>> /\ Had("quoted")' = <<>> /\ At("quoted")' = {}
      BY <1>1, <1>3, <2>2, <3>1
    <3> QED BY <1>1, <2>2, <3>2 DEF ResultsOfStages
  <2>3. CASE stage = "links"
    <3>1. results = Had("segments") \o Had("links") /\ Had("quoted") = <<>> /\ At("quoted") = {}
      BY <2>1, <2>3 DEF ResultsOfStages, Own
    <3>2. /\ Had("segments")' = Had("segments") /\ Had("quoted")' = <<>> /\ At("quoted")' = {}
          /\ Had("links")' = IF image # Absent THEN Append(Had("links"), image) ELSE Had("links")
      BY <1>3, <2>3, <3>1
    <3>3. image # Absent =>
            Append(Had("segments") \o Had("links"), image) = Had("segments") \o Append(Had("links"), image)
      <4> SUFFICES ASSUME image # Absent
                   PROVE  Append(Had("segments") \o Had("links"), image)
                            = Had("segments") \o Append(Had("links"), image)
        OBVIOUS
      <4>1. image \in Images /\ Had("segments") \in Seq(Images) /\ Had("links") \in Seq(Images)
        BY <1>4, <2>1
      <4> DEFINE a == Had("segments")
                 b == Had("links")
      <4>2. a \in Seq(Images) /\ b \in Seq(Images) /\ image \in Images
        BY <4>1
      <4> HIDE DEF a, b
      <4>3. Append(a \o b, image) = a \o Append(b, image)
        BY <4>2
      <4> QED BY <4>3 DEF a, b
    <3>4. results' = Had("segments")' \o Had("links")'
      BY <1>1, <3>1, <3>2, <3>3
    <3> QED BY <1>1, <2>3, <3>2, <3>4 DEF ResultsOfStages, Own
  <2>4. CASE stage = "quoted"
    <3>1. Own = <<>> /\ results = Had("quoted")
      BY <2>1, <2>4 DEF ResultsOfStages
    <3>2. Own' = <<>>
      BY <1>3, <2>4, <3>1 DEF Own
    <3>3. results' = Had("quoted")'
      BY <1>1, <1>3, <2>4, <3>1
    <3> QED BY <1>1, <2>4, <3>2, <3>3 DEF ResultsOfStages
  <2> QED BY <1>2, <2>2, <2>3, <2>4 DEF GatherTypes
<1>9. ASSUME Gathered PROVE LinksOnce'
  <2> SUFFICES ASSUME NEW v \in Urls, Contains(Had("links")', Link(v)),
                      NEW i \in DOMAIN results', NEW j \in DOMAIN results',
                      results'[i] = Link(v), results'[j] = Link(v)
               PROVE  i = j
    BY DEF LinksOnce
  <2>1. Had("links") \in Seq(Images) /\ Had("segments") \in Seq(Images) /\ ResultsOfStages /\ LinksOnce
    BY <1>3, <1>9 DEF Gathered
  <2>2. CASE stage # "links"
    <3>1. Had("links") = <<>>
      <4>1. CASE stage = "segments"
        BY <2>1, <4>1 DEF ResultsOfStages
      <4>2. CASE stage = "quoted"
        <5>1. Had("segments") \o Had("links") = <<>>
          BY <2>1, <4>2 DEF ResultsOfStages, Own
        <5> QED BY <2>1, <5>1, ConcatEmptySeq
      <4> QED BY <1>2, <2>2, <4>1, <4>2 DEF GatherTypes
    <3>2. Had("links")' = <<>>
      BY <1>3, <2>2, <3>1
    <3> QED BY <3>2 DEF Contains
  <2>3. CASE stage = "links" /\ image = Absent
    <3>1. Had("links")' = Had("links") /\ results' = results
      BY <1>1, <1>3, <2>3
    <3> QED BY <2>1, <3>1 DEF LinksOnce
  <2>4. CASE stage = "links" /\ image # Absent
    <3>1. Had("links")' = Append(Had("links"), image) /\ results' = Append(results, image)
      BY <1>1, <1>3, <2>4
    <3>2. /\ DOMAIN results = 1 .. Len(results) /\ DOMAIN results' = 1 .. Len(results) + 1 /\ Len(results) \in Nat
          /\ \A k \in 1 .. Len(results) : results'[k] = results[k]
          /\ results'[Len(results) + 1] = image
      BY <1>4, <2>4, <3>1, AppendProperties
    <3>3. CASE image = Link(v)
      <4>1. ~Contains(results, Link(v))
        BY <2>4, <3>3 DEF Known
      <4>2. i = Len(results) + 1 /\ j = Len(results) + 1
        BY <3>2, <4>1 DEF Contains
      <4> QED BY <4>2
    <3>4. CASE image # Link(v)
      <4>1. i \in DOMAIN results /\ j \in DOMAIN results /\ results[i] = Link(v) /\ results[j] = Link(v)
        BY <3>2, <3>4
      <4>2. PICK k \in 1 .. Len(Had("links")') : Had("links")'[k] = Link(v)
        BY DEF Contains
      <4>3. k \in 1 .. Len(Had("links")) /\ Had("links")[k] = Link(v)
        <5> DEFINE a == Had("links")
        <5>1. a \in Seq(Images) /\ image \in Images
          BY <1>4, <2>1, <2>4
        <5>2. k \in 1 .. Len(Append(a, image)) /\ Append(a, image)[k] = Link(v)
          BY <3>1, <4>2
        <5> HIDE DEF a
        <5>3. k \in 1 .. Len(a) /\ a[k] = Link(v)
          BY <3>4, <5>1, <5>2
        <5> QED BY <5>3 DEF a
      <4>4. Contains(Had("links"), Link(v))
        BY <4>3 DEF Contains
      <4> QED BY <2>1, <4>1, <4>4 DEF LinksOnce
    <3> QED BY <3>3, <3>4
  <2> QED BY <2>2, <2>3, <2>4
<1>10. recognition' = recognition
  BY <1>1
<1>11. recognition => Gathered
  BY Zenon DEF GatherInv
<1> QED BY <1>5, <1>6, <1>7, <1>8, <1>9, <1>10, <1>11, Zenon DEF GatherInv, Gathered

(* Steps that note nothing.                                                *)
LEMMA NothingNoted ==
  ASSUME UNCHANGED tried
  PROVE  /\ \A s : Had(s)' = Had(s) /\ At(s)' = At(s)
         /\ Own' = Own
BY DEF Had, At, Own

LEMMA GatheredUnchanged ==
  ASSUME Gathered, UNCHANGED <<post, stage, todo, results, tried>>
  PROVE  Gathered'
<1>1. SegmentsCounted'
  BY NothingNoted DEF Gathered, SegmentsCounted
<1>2. LinksCounted'
  BY DEF Gathered, LinksCounted, LookedAt
<1>3. ResultsOfStages'
  BY NothingNoted DEF Gathered, ResultsOfStages
<1>4. LinksOnce'
  BY NothingNoted DEF Gathered, LinksOnce
<1> QED BY <1>1, <1>2, <1>3, <1>4 DEF Gathered

LEMMA AllUnchanged ==
  ASSUME GatherInv, UNCHANGED intakeVars
  PROVE  GatherInv'
<1>1. GatherTypes'
  BY DEF GatherInv, GatherTypes, OneByOne, intakeVars
<1>2. Gathered => Gathered'
  BY GatheredUnchanged DEF intakeVars
<1>3. recognition' = recognition
  BY DEF intakeVars
<1> QED BY <1>1, <1>2, <1>3, GatherKept

LEMMA Awaiting ==
  ASSUME GatherInv, stage # "over", todo # <<>>, NEW c, waiting' = c,
         \/ c.call = "download" /\ c.on \in Urls /\ (stage = "links" => c.on = Head(todo))
         \/ c.call = "get_image" /\ c.on \in Names /\ stage # "links",
         UNCHANGED <<recognition, mode, post, stage, todo, quotes, results, tried>>
  PROVE  GatherInv'
<1>1. OneByOne'
  BY DEF OneByOne
<1>2. GatherTypes'
  BY <1>1 DEF GatherInv, GatherTypes
<1>3. Gathered => Gathered'
  BY GatheredUnchanged
<1>4. recognition' = recognition
  OBVIOUS
<1> QED BY <1>2, <1>3, <1>4, GatherKept

(* A link the results already have needs no look.                          *)
LEMMA KnownLeftOut ==
  ASSUME GatherInv, stage = "links", waiting = Idle, todo # <<>>, Known(Head(todo)), todo' = Tail(todo),
         UNCHANGED <<recognition, mode, post, stage, quotes, waiting, results, tried>>
  PROVE  GatherInv'
<1>0. GatherTypes /\ todo \in Seq(Urls)
  BY DEF GatherInv, GatherTypes
<1>1. GatherTypes'
  <2>1. todo' \in Seq(Urls)
    BY <1>0, HeadTailProperties
  <2>2. OneByOne'
    BY DEF OneByOne, Idle
  <2> QED BY <1>0, <2>1, <2>2 DEF GatherTypes
<1>2. ASSUME Gathered PROVE Gathered'
  <2>1. SegmentsCounted'
    BY <1>2, NothingNoted DEF Gathered, SegmentsCounted
  <2>2. LinksCounted'
    <3> SUFFICES ASSUME NEW v \in ToSet(LinksIn(post.links))
                 PROVE  v \in ToSet(todo') \/ LookedAt(v)'
      BY DEF LinksCounted
    <3>1. v \in ToSet(todo) \/ LookedAt(v)
      BY <1>2 DEF Gathered, LinksCounted
    <3>2. LookedAt(v) => LookedAt(v)'
      BY DEF LookedAt
    <3>3. ASSUME v \in ToSet(todo) PROVE v \in ToSet(todo') \/ LookedAt(v)'
      <4>1. PICK i \in 1 .. Len(todo) : todo[i] = v
        BY <1>0, <3>3 DEF ToSet
      <4>2. CASE i = 1
        <5>1. Known(v)
          BY <1>0, <4>1, <4>2
        <5> QED BY <3>2, <5>1 DEF LookedAt, Known
      <4>3. CASE i # 1
        <5>1. i - 1 \in 1 .. Len(Tail(todo)) /\ Tail(todo)[i - 1] = v
          BY <1>0, <4>1, <4>3, HeadTailProperties
        <5>2. Tail(todo) \in Seq(Urls)
          BY <1>0, HeadTailProperties
        <5>3. DOMAIN Tail(todo) = 1 .. Len(Tail(todo))
          BY <5>2
        <5>4. v \in ToSet(Tail(todo))
          BY <5>1, <5>3, Zenon DEF ToSet
        <5> QED BY <5>4
      <4> QED BY <4>2, <4>3
    <3> QED BY <3>1, <3>2, <3>3
  <2>3. ResultsOfStages'
    BY <1>2, NothingNoted DEF Gathered, ResultsOfStages
  <2>4. LinksOnce'
    BY <1>2, NothingNoted DEF Gathered, LinksOnce
  <2> QED BY <2>1, <2>2, <2>3, <2>4 DEF Gathered
<1>3. recognition' = recognition
  OBVIOUS
<1> QED BY <1>1, <1>2, <1>3, GatherKept

(* The next stage, or the next quoted message.                             *)
LEMMA StageChanged ==
  ASSUME GatherInv, ReadText \/ OwnDone \/ GetMsg \/ GetMsgFails \/ QuotesDone
  PROVE  GatherInv'
<1>0. GatherTypes /\ OneByOne
  BY DEF GatherInv, GatherTypes
<1>1. /\ waiting = Idle /\ todo = <<>> /\ stage # "over"
      /\ UNCHANGED <<recognition, mode, post, waiting, results, tried>>
  BY DEF ReadText, OwnDone, GetMsg, GetMsgFails, QuotesDone, Ready
<1>2. GatherTypes'
  <2>1. OneByOne'
    BY <1>1 DEF OneByOne
  <2>2. LinksIn(post.links) \in Seq(Urls) /\ post.quoted \in Seq(Seq(Segments))
    BY <1>0, PostTypes DEF GatherTypes
  <2>3. todo \in Seq(Segments)
    BY <1>1, EmptySeq
  <2>4. CASE ReadText
    BY <1>0, <1>1, <2>1, <2>2, <2>4 DEF ReadText, GatherTypes
  <2>5. CASE OwnDone
    BY <1>0, <1>1, <2>1, <2>2, <2>3, <2>5 DEF OwnDone, GatherTypes
  <2>6. CASE GetMsg
    <3>1. quotes # <<>> /\ quotes \in Seq(Seq(Segments)) /\ stage = "quoted"
      BY <1>0, <2>6 DEF GetMsg, Ready, GatherTypes
    <3>2. Head(quotes) \in Seq(Segments) /\ Tail(quotes) \in Seq(Seq(Segments))
      BY <3>1, HeadTailProperties
    <3> QED BY <1>0, <1>1, <2>1, <2>6, <3>1, <3>2 DEF GetMsg, GatherTypes
  <2>7. CASE GetMsgFails
    <3>1. quotes # <<>> /\ quotes \in Seq(Seq(Segments)) /\ stage = "quoted"
      BY <1>0, <2>7 DEF GetMsgFails, Ready, GatherTypes
    <3>2. Tail(quotes) \in Seq(Seq(Segments))
      BY <3>1, HeadTailProperties
    <3> QED BY <1>0, <1>1, <2>1, <2>7, <3>1, <3>2 DEF GetMsgFails, GatherTypes
  <2>8. CASE QuotesDone
    BY <1>0, <1>1, <2>1, <2>3, <2>8 DEF QuotesDone, Ready, GatherTypes
  <2> QED BY <2>4, <2>5, <2>6, <2>7, <2>8
<1>3. ASSUME Gathered PROVE Gathered'
  <2>0. /\ stage \in {"segments", "links", "quoted"}
        /\ stage = "segments" => stage' = "links"
        /\ stage = "links" => stage' \in {"quoted", "over"}
        /\ stage = "quoted" => stage' \in {"quoted", "over"}
    BY <1>0, <1>1 DEF ReadText, OwnDone, GetMsg, GetMsgFails, QuotesDone, Ready, GatherTypes
  <2>1. SegmentsCounted'
    <3>1. Len(todo) = 0 /\ At("segments")' = At("segments")
      BY <1>1, NothingNoted
    <3>2. Cardinality(At("segments")) \in Nat
      <4>1. PICK n \in Nat : DOMAIN tried = 1 .. n
        BY <1>0 DEF GatherTypes
      <4>2. IsFiniteSet(1 .. n) /\ At("segments") \subseteq 1 .. n
        BY <4>1, FS_Interval DEF At
      <4> QED BY <4>2, FS_Subset, FS_CardinalityType
    <3>3. Cardinality(At("segments")) = Len(post.segments)
      BY <1>3, <2>0, <3>1, <3>2 DEF Gathered, SegmentsCounted
    <3>4. stage' # "segments"
      BY <2>0
    <3> QED BY <1>1, <3>1, <3>2, <3>3, <3>4 DEF SegmentsCounted
  <2>2. LinksCounted'
    <3>1. \A v : LookedAt(v) <=> LookedAt(v)'
      BY <1>1 DEF LookedAt
    <3>2. CASE stage = "segments"
      <4>1. todo' = LinksIn(post.links) /\ stage' = "links" /\ post' = post
        BY <1>1, <3>2 DEF ReadText, OwnDone, GetMsg, GetMsgFails, QuotesDone, Ready
      <4> QED BY <4>1 DEF LinksCounted
    <3>3. CASE stage # "segments"
      <4>1. \A v : v \notin ToSet(todo)
        BY <1>1 DEF ToSet
      <4> QED BY <1>1, <1>3, <3>1, <3>3, <4>1 DEF Gathered, LinksCounted
    <3> QED BY <3>2, <3>3
  <2>3. ResultsOfStages'
    <3>0. /\ \A s : Had(s)' = Had(s) /\ At(s)' = At(s)
          /\ Own' = Own /\ results' = results
          /\ \A s : Had(s) \in Seq(Images)
      BY <1>0, <1>1, NothingNoted, ImagesType DEF Had, GatherTypes
    <3>1. CASE stage = "segments"
      <4>1. results = Had("segments") /\ Had("links") = <<>> /\ Had("quoted") = <<>> /\ At("quoted") = {}
        BY <1>3, <3>1 DEF Gathered, ResultsOfStages
      <4>2. Own = Had("segments")
        BY <3>0, <4>1, ConcatEmptySeq DEF Own
      <4>3. stage' = "links"
        BY <2>0, <3>1
      <4> QED BY <3>0, <4>1, <4>2, <4>3 DEF ResultsOfStages
    <3>2. CASE stage = "links"
      <4>1. results = Own /\ Had("quoted") = <<>> /\ At("quoted") = {}
        BY <1>3, <3>2 DEF Gathered, ResultsOfStages
      <4>2. stage' = "over" \/ (stage' = "quoted" /\ results = <<>>)
        BY <3>2 DEF ReadText, OwnDone, GetMsg, GetMsgFails, QuotesDone, Ready, LooksAtQuotes
      <4> QED BY <3>0, <4>1, <4>2 DEF ResultsOfStages
    <3>3. CASE stage = "quoted"
      <4>1. Own = <<>> /\ results = Had("quoted")
        BY <1>3, <3>3 DEF Gathered, ResultsOfStages
      <4>2. stage' \in {"quoted", "over"}
        BY <2>0, <3>3
      <4> QED BY <3>0, <4>1, <4>2 DEF ResultsOfStages
    <3> QED BY <2>0, <3>1, <3>2, <3>3
  <2>4. LinksOnce'
    BY <1>1, <1>3, NothingNoted DEF Gathered, LinksOnce
  <2> QED BY <2>1, <2>2, <2>3, <2>4 DEF Gathered
<1>4. recognition' = recognition
  BY <1>1
<1> QED BY <1>2, <1>3, <1>4, GatherKept

(* process_image_url deals with the item or waits for its download.        *)
LEMMA ProcessedGathered ==
  ASSUME GatherInv, stage # "over", todo # <<>>, NEW u \in Urls, Process(u),
         stage = "links" => u = Head(todo) /\ ~Known(u)
  PROVE  GatherInv'
<1>1. CASE IsRefused(u)
  BY <1>1, SettledGathered DEF Process
<1>2. CASE ~IsRefused(u) /\ PassedOn(u)
  <2>1. Settle(u, Link(u)) /\ Link(u) \in Images \cup {Absent} /\ u \in Urls \cup {Absent}
    BY <1>2, ImageTypes DEF Process
  <2>2. \A v \in Urls : Link(u) = Link(v) => u = v
    BY ImageTypes
  <2>3. stage = "links" => \A v \in Urls : Link(u) = Link(v) => ~Known(v)
    BY <2>2
  <2> QED BY <2>1, <2>3, SettledGathered
<1>3. CASE ~IsRefused(u) /\ ~PassedOn(u)
  <2>1. /\ waiting' = [call |-> "download", on |-> u]
        /\ UNCHANGED <<recognition, mode, post, stage, todo, quotes, results, tried>>
    BY <1>3 DEF Process
  <2> QED BY <2>1, Awaiting
<1> QED BY <1>1, <1>2, <1>3

LEMMA StepGatherInv ==
  ASSUME GatherInv, [IntakeNext]_intakeVars
  PROVE  GatherInv'
<1>0. GatherTypes /\ OneByOne
  BY DEF GatherInv, GatherTypes
<1>1. ASSUME TakeSegment PROVE GatherInv'
  <2> DEFINE seg == Head(todo)
  <2>1. stage \in {"segments", "quoted"} /\ todo # <<>> /\ todo \in Seq(Segments)
    BY <1>0, <1>1 DEF TakeSegment, Ready, GatherTypes
  <2>2. UrlIn(seg) \in Urls \cup {Absent}
    BY DEF UrlIn
  <2>3. CASE UrlIn(seg) # Absent
    BY <1>1, <2>1, <2>2, <2>3, ProcessedGathered DEF TakeSegment
  <2>4. CASE UrlIn(seg) = Absent /\ seg.file \in Names
    <3>1. /\ waiting' = [call |-> "get_image", on |-> seg.file]
          /\ UNCHANGED <<recognition, mode, post, stage, todo, quotes, results, tried>>
      BY <1>1, <2>4 DEF TakeSegment
    <3> QED BY <2>1, <2>4, <3>1, Awaiting
  <2>5. CASE UrlIn(seg) = Absent /\ seg.file \notin Names
    <3>1. Settle(Absent, Absent)
      BY <1>1, <2>5 DEF TakeSegment
    <3> QED BY <2>1, <3>1, SettledGathered
  <2> QED BY <2>3, <2>4, <2>5
<1>2. ASSUME NEW u \in Urls \cup {Absent}, ImageFound(u) PROVE GatherInv'
  <2>1. stage # "over" /\ todo # <<>> /\ stage # "links"
    BY <1>0, <1>2 DEF ImageFound, OneByOne, Idle
  <2>2. CASE u = Absent
    BY <1>2, <2>1, <2>2, SettledGathered DEF ImageFound
  <2>3. CASE u # Absent
    BY <1>2, <2>1, <2>3, ProcessedGathered DEF ImageFound
  <2> QED BY <2>2, <2>3
<1>3. ASSUME DownloadFails \/ \E r \in Responses : Downloaded(r) PROVE GatherInv'
  <2>1. /\ stage # "over" /\ todo # <<>> /\ waiting.on \in Urls
        /\ stage = "links" => waiting.on = Head(todo)
    BY <1>0, <1>3 DEF DownloadFails, Downloaded, OneByOne, Idle
  <2>2. PICK n \in Nat : Settle(waiting.on, Absent) \/ Settle(waiting.on, Content(waiting.on, n))
    <3>1. CASE DownloadFails
      BY <3>1 DEF DownloadFails
    <3>2. CASE \E r \in Responses : Downloaded(r)
      <4>1. PICK r \in Responses : Downloaded(r)
        BY <3>2
      <4>2. r.length \in Nat
        BY DEF Responses, MAX
      <4>3. Settle(waiting.on, IF Fits(r) THEN Content(waiting.on, r.length) ELSE Absent)
        BY <4>1 DEF Downloaded
      <4>4. Settle(waiting.on, Absent) \/ Settle(waiting.on, Content(waiting.on, r.length))
        <5>1. CASE Fits(r)
          BY <4>3, <5>1
        <5>2. CASE ~Fits(r)
          BY <4>3, <5>2
        <5> QED BY <5>1, <5>2
      <4> QED BY <4>2, <4>4
    <3> QED BY <1>3, <3>1, <3>2
  <2>3. CASE Settle(waiting.on, Absent)
    BY <2>1, <2>3, SettledGathered
  <2>4. CASE Settle(waiting.on, Content(waiting.on, n))
    <3>1. Content(waiting.on, n) \in Images /\ \A v \in Urls : Content(waiting.on, n) # Link(v)
      BY <2>1, ImageTypes
    <3> QED BY <2>1, <2>4, <3>1, SettledGathered
  <2> QED BY <2>2, <2>3, <2>4
<1>4. ASSUME TakeLink PROVE GatherInv'
  <2>1. stage = "links" /\ todo # <<>> /\ todo \in Seq(Urls) /\ Head(todo) \in Urls
    BY <1>0, <1>4 DEF TakeLink, Ready, GatherTypes
  <2>2. CASE ~Known(Head(todo))
    BY <1>4, <2>1, <2>2, ProcessedGathered DEF TakeLink
  <2>3. CASE Known(Head(todo))
    <3>1. /\ todo' = Tail(todo) /\ waiting = Idle
          /\ UNCHANGED <<recognition, mode, post, stage, quotes, waiting, results, tried>>
      BY <1>4, <2>3 DEF TakeLink, Ready
    <3> QED BY <2>1, <2>3, <3>1, KnownLeftOut
  <2> QED BY <2>2, <2>3
<1>5. CASE ReadText \/ OwnDone \/ GetMsg \/ GetMsgFails \/ QuotesDone
  BY <1>5, StageChanged
<1>6. CASE Over \/ UNCHANGED intakeVars
  BY <1>6, AllUnchanged DEF Over
<1> QED BY <1>1, <1>2, <1>3, <1>4, <1>5, <1>6 DEF IntakeNext, IntakeStep

LEMMA AlwaysGathered == IntakeSpec => []GatherInv
<1>1. GatherInv /\ [IntakeNext]_intakeVars => GatherInv'
  BY StepGatherInv
<1> QED BY InitGatherInv, <1>1, PTL DEF IntakeSpec

(* Types, and one call at a time, for whatever a message is made of.       *)
THEOREM IntakeTypeCorrect == IntakeSpec => []IntakeTypeOK
<1>1. GatherInv => IntakeTypeOK
  <2> SUFFICES ASSUME GatherInv PROVE IntakeTypeOK
    OBVIOUS
  <2>1. \A i \in DOMAIN tried : tried[i].url \in Urls \cup {Absent}
    <3>1. \A i \in DOMAIN tried : tried[i] \in Notes
      BY DEF GatherInv, GatherTypes
    <3> QED BY <3>1 DEF Notes
  <2> QED BY <2>1 DEF GatherInv, GatherTypes, OneByOne, IntakeTypeOK
<1> QED BY <1>1, AlwaysGathered, PTL

(* However many segments, links and quoted messages there are and whatever *)
(* fails on the way, each is looked at, the images that could be had go    *)
(* out in order, and no link is sent again because the text has it, too.   *)
THEOREM ImagesTried == IntakeSpec => []AllImagesTried
<1>1. GatherInv => AllImagesTried
  <2> SUFFICES ASSUME GatherInv, stage = "over", recognition PROVE AllImagesTried
    BY DEF AllImagesTried
  <2>1. Gathered
    BY Zenon DEF GatherInv
  <2>2. Cardinality(At("segments")) = Len(post.segments)
    <3>1. GatherTypes /\ IsFiniteSet(At("segments"))
      <4>1. PICK n \in Nat : DOMAIN tried = 1 .. n
        BY DEF GatherInv, GatherTypes
      <4>2. IsFiniteSet(1 .. n) /\ At("segments") \subseteq 1 .. n
        BY <4>1, FS_Interval DEF At
      <4> QED BY <4>2, FS_Subset DEF GatherInv
    <3>2. Cardinality(At("segments")) \in Nat
      BY <3>1, FS_CardinalityType
    <3> QED BY <2>1, <3>2 DEF Gathered, SegmentsCounted
  <2>3. NoLinkTwice
    <3> SUFFICES ASSUME NEW u \in Urls, Contains(Had("links"), Link(u))
                 PROVE  ~(Cardinality({i \in DOMAIN results : results[i] = Link(u)}) > 1)
      BY DEF NoLinkTwice
    <3> DEFINE same == {i \in DOMAIN results : results[i] = Link(u)}
    <3>1. \A i, j \in same : i = j
      BY <2>1 DEF Gathered, LinksOnce
    <3> HIDE DEF same
    <3>2. CASE same = {}
      <4>1. Cardinality(same) = 0
        BY <3>2, FS_EmptySet, Zenon
      <4> QED BY <4>1 DEF same
    <3>3. CASE same # {}
      <4>1. PICK i : same = {i}
        BY <3>1, <3>3
      <4>2. Cardinality(same) = 1
        BY <4>1, FS_Singleton, Zenon
      <4> QED BY <4>2 DEF same
    <3> QED BY <3>2, <3>3
  <2>4. \A u \in ToSet(LinksIn(post.links)) : LookedAt(u)
    BY <2>1 DEF Gathered, LinksCounted
  <2>5. /\ results = IF Own # <<>> THEN Own ELSE Had("quoted")
        /\ Own # <<>> => At("quoted") = {}
    BY <2>1 DEF Gathered, ResultsOfStages
  <2> QED BY <2>2, <2>3, <2>4, <2>5 DEF AllImagesTried, LookedAt
<1> QED BY <1>1, AlwaysGathered, PTL
-----------------------------------------------------------------------------
(* How far the handler has come with the images of a message: what stages  *)
(* are left, then quoted messages, then items, then calls for the item.    *)
StagesLeft(s) == CASE s = "segments" -> 3 [] s = "links" -> 2 [] s = "quoted" -> 1 [] OTHER -> 0

CallsLeft(c) == CASE c = "none" -> 2 [] c = "get_image" -> 1 [] OTHER -> 0

Advances ==
  \/ StagesLeft(stage') < StagesLeft(stage)
  \/ stage' = stage /\ Len(quotes') < Len(quotes)
  \/ UNCHANGED <<stage, quotes>> /\ Len(todo') < Len(todo)
  \/ UNCHANGED <<stage, quotes, todo>> /\ CallsLeft(waiting'.call) < CallsLeft(waiting.call)

LEMMA TailShorter == ASSUME NEW S, NEW s \in Seq(S), s # <<>> PROVE Len(Tail(s)) < Len(s)
<1>1. Len(Tail(s)) = Len(s) - 1 /\ Len(s) \in Nat
  BY HeadTailProperties
<1> QED BY <1>1

LEMMA SettledAdvances ==
  ASSUME GatherInv, todo # <<>>, NEW u, NEW image, Settle(u, image)
  PROVE  Advances
<1>1. todo' = Tail(todo) /\ UNCHANGED <<stage, quotes>>
  BY DEF Settle, RestAfter
<1>2. todo \in Seq(IF stage = "links" THEN Urls ELSE Segments)
  BY DEF GatherInv, GatherTypes
<1>3. Len(todo') < Len(todo)
  <2> DEFINE S == IF stage = "links" THEN Urls ELSE Segments
  <2>1. todo \in Seq(S)
    BY <1>2
  <2> HIDE DEF S
  <2> QED BY <1>1, <2>1, TailShorter
<1> QED BY <1>1, <1>3 DEF Advances

LEMMA ProcessedAdvances ==
  ASSUME GatherInv, todo # <<>>, NEW u, Process(u), waiting.call \in {"none", "get_image"}
  PROVE  Advances
<1>1. CASE Settle(u, Absent) \/ Settle(u, Link(u))
  BY <1>1, SettledAdvances
<1>2. CASE waiting' = [call |-> "download", on |-> u] /\ UNCHANGED <<stage, quotes, todo>>
  <2>1. waiting'.call = "download"
    BY <1>2
  <2> QED BY <1>2, <2>1 DEF Advances, CallsLeft
<1> QED BY <1>1, <1>2 DEF Process

(* Every step of the intake brings it on, whatever the calls answer and    *)
(* however often they fail: nothing is fetched over and over again.        *)
THEOREM IntakeAdvances == IntakeSpec => [][Advances]_intakeVars
<1>1. ASSUME GatherInv, IntakeStep PROVE Advances
  <2>0. GatherTypes /\ OneByOne
    BY <1>1 DEF GatherInv, GatherTypes
  <2>1. CASE TakeSegment
    <3>1. todo # <<>> /\ waiting = Idle /\ waiting.call = "none"
      BY <2>1 DEF TakeSegment, Ready, Idle
    <3>2. \/ Process(UrlIn(Head(todo)))
          \/ waiting' = [call |-> "get_image", on |-> Head(todo).file] /\ UNCHANGED <<stage, quotes, todo>>
          \/ Settle(Absent, Absent)
      BY <2>1 DEF TakeSegment
    <3>3. CASE Process(UrlIn(Head(todo)))
      BY <1>1, <3>1, <3>3, ProcessedAdvances
    <3>4. CASE waiting' = [call |-> "get_image", on |-> Head(todo).file] /\ UNCHANGED <<stage, quotes, todo>>
      <4>1. waiting'.call = "get_image"
        BY <3>4
      <4> QED BY <3>1, <3>4, <4>1 DEF Advances, CallsLeft
    <3>5. CASE Settle(Absent, Absent)
      BY <1>1, <3>1, <3>5, SettledAdvances
    <3> QED BY <3>2, <3>3, <3>4, <3>5
  <2>2. ASSUME NEW u \in Urls \cup {Absent}, ImageFound(u) PROVE Advances
    <3>1. todo # <<>> /\ waiting.call = "get_image" /\ (Settle(Absent, Absent) \/ Process(u))
      BY <2>0, <2>2 DEF ImageFound, OneByOne, Idle
    <3> QED BY <1>1, <3>1, SettledAdvances, ProcessedAdvances
  <2>3. CASE DownloadFails \/ \E r \in Responses : Downloaded(r)
    <3>1. todo # <<>>
      BY <2>0, <2>3 DEF DownloadFails, Downloaded, OneByOne, Idle
    <3>2. \E image : Settle(waiting.on, image)
      BY <2>3 DEF DownloadFails, Downloaded
    <3> QED BY <1>1, <3>1, <3>2, SettledAdvances
  <2>4. CASE ReadText \/ OwnDone \/ QuotesDone
    BY <2>4 DEF ReadText, OwnDone, QuotesDone, Ready, Advances, StagesLeft
  <2>5. CASE TakeLink
    <3>1. todo # <<>> /\ waiting.call = "none" /\ stage = "links" /\ todo \in Seq(Urls)
      BY <2>0, <2>5 DEF TakeLink, Ready, Idle, GatherTypes
    <3>2. CASE Process(Head(todo))
      BY <1>1, <3>1, <3>2, ProcessedAdvances
    <3>3. CASE todo' = Tail(todo) /\ UNCHANGED <<stage, quotes>>
      BY <3>1, <3>3, TailShorter DEF Advances
    <3> QED BY <2>5, <3>2, <3>3 DEF TakeLink
  <2>6. CASE GetMsg \/ GetMsgFails
    <3>1. quotes # <<>> /\ quotes' = Tail(quotes) /\ stage' = stage /\ quotes \in Seq(Seq(Segments))
      BY <2>0, <2>6 DEF GetMsg, GetMsgFails, GatherTypes
    <3> QED BY <3>1, TailShorter DEF Advances
  <2> QED BY <1>1, <2>1, <2>2, <2>3, <2>4, <2>5, <2>6 DEF IntakeStep
<1>2. GatherInv /\ [IntakeNext]_intakeVars => [Advances]_intakeVars
  BY <1>1 DEF IntakeNext, Over
<1> QED BY <1>2, AlwaysGathered, PTL DEF IntakeSpec
-----------------------------------------------------------------------------
(* MCMessageRouter gathers the images of a message before any is routed:   *)
(* each of its behaviours is one of MessageRouter and one of ImageIntake,  *)
(* so every theorem about either holds of it.                              *)
THEOREM IncomingComposed == MCSpec => Spec /\ IntakeSpec
<1>1. MCInit => Init /\ IntakeInit
  BY DEF MCInit
<1>2. [GatheringStep \/ RoutingStep \/ BothDone]_<<vars, intakeVars>> => [Next]_vars
  BY DEF GatheringStep, RoutingStep, BothDone, Next
<1>3. [GatheringStep \/ RoutingStep \/ BothDone]_<<vars, intakeVars>> => [IntakeNext]_intakeVars
  BY DEF GatheringStep, RoutingStep, BothDone, IntakeNext, Over
<1> QED BY <1>1, <1>2, <1>3, PTL DEF MCSpec, Spec, IntakeSpec

(* The types of both, whatever messages and images come in.                *)
THEOREM MCTypesCorrect == MCSpec => []MCTypeOK
<1>1. TypeOK /\ IntakeTypeOK => MCTypeOK
  BY DEF MCTypeOK
<1> QED BY <1>1, IncomingComposed, RouterTypeCorrect, IntakeTypeCorrect, PTL
=============================================================================
