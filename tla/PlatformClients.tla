--------------------------- MODULE PlatformClients ---------------------------
(***************************************************************************)
(* The clients of Mastodon, LinkedIn and X (mastodon.go, linkedin.go,      *)
(* twitter.go), as callPlatformPublish of scheduler.go uses them: which    *)
(* HTTP exchanges a publish call makes, in which order, and what it makes  *)
(* of each reply.  An image is fetched and uploaded first, in one exchange *)
(* for Mastodon and in three for X.  Meanwhile create_platform_config may  *)
(* replace the client (SocialService).                                     *)
(*                                                                         *)
(* Abstractions.  A reply is an HTTP status and what its body is good for; *)
(* the status 401 stands for 401, 403 and 422, 500 for the other errors,   *)
(* 204 for the other successes.  An image of more than 10 MB is uploaded   *)
(* cut off; that and the texts are left out.                               *)
(***************************************************************************)
EXTENDS Naturals, PublishReports

CONSTANTS
  Callers,  \* the scheduler and concurrent publish_now calls
  Servers,  \* Mastodon instances
  None      \* no client

ASSUME NoneAssumption == None \notin Servers /\ None # "api"

VARIABLES
  clients,  \* the target of s.mastodon, s.linkedin and s.twitter
  calls,    \* the call of each caller
  uploads,  \* exchanges of an upload that its platform completed
  copy,     \* the copy the platform took in the last call of each caller
  copies,   \* how many it took in that call
  answer    \* of that call

vars == <<clients, calls, uploads, copy, copies, answer>>

Platforms == {"mastodon", "linkedin", "x"}

\* Where a client sends its requests.
Targets(p) == IF p = "mastodon" THEN Servers ELSE {"api"}

AllTargets == Servers \cup {"api", None}

NoReply == [status |-> 0, body |-> "none"]

Broken == [status |-> 0, body |-> "unreadable"]  \* no answer, or a timeout

Replies ==
  {Broken} \cup [status: {401, 429, 500}, body: {"unreadable"}]
    \cup [status: {200, 201, 202, 204}, body: {"id", "blank", "unreadable"}]

Uploading == {"upload", "INIT", "APPEND", "FINALIZE"}

Exchanges == {"fetch", "post"} \cup Uploading

NoCopy == [target |-> None, attached |-> "none"]

MediaIDs == {"none", "id", "blank"}

Idle == [pc |-> "idle", platform |-> "other", target |-> None, image |-> FALSE, fit |-> FALSE,
         mediaID |-> "none", reply |-> NoReply]

Calls ==
  [pc: {"idle", "dispatch"} \cup Exchanges, platform: Platforms \cup {"other"},
   target: AllTargets, image: BOOLEAN, fit: BOOLEAN, mediaID: MediaIDs,
   reply: Replies \cup {NoReply}]

TypeOK ==
  /\ clients \in [Platforms -> AllTargets]
  /\ calls \in [Callers -> Calls]
  /\ uploads \in [Callers -> SUBSET (Uploading \X (AllTargets \ {None}))]
  /\ copy \in [Callers -> [target: AllTargets, attached: MediaIDs]]
  /\ copies \in [Callers -> Nat]
  /\ answer \in [Callers -> Answers \cup {"none", "open"}]

Init ==
  /\ clients \in {f \in [Platforms -> AllTargets] :
                   \A p \in Platforms : f[p] \in Targets(p) \cup {None}}
  /\ calls = [c \in Callers |-> Idle]
  /\ uploads = [c \in Callers |-> {}]
  /\ copy = [c \in Callers |-> NoCopy]
  /\ copies = [c \in Callers |-> 0]
  /\ answer = [c \in Callers |-> "none"]

-----------------------------------------------------------------------------
reloadPlatformClient(p, t) ==
  /\ t # clients[p]
  /\ clients' = [clients EXCEPT ![p] = t]
  /\ UNCHANGED <<calls, uploads, copy, copies, answer>>

\* A call starts with the client there is.  fit is FALSE for a text too long
\* for X and for a LinkedIn credential without an actor.
callPlatformPublish(c, p, image, fit) ==
  /\ calls[c].pc = "idle"
  /\ calls' = [calls EXCEPT ![c] =
       [pc |-> "dispatch", platform |-> p, target |-> IF p \in Platforms THEN clients[p] ELSE None,
        image |-> image, fit |-> fit, mediaID |-> "none", reply |-> NoReply]]
  /\ uploads' = [uploads EXCEPT ![c] = {}]
  /\ copy' = [copy EXCEPT ![c] = NoCopy]
  /\ copies' = [copies EXCEPT ![c] = 0]
  /\ answer' = [answer EXCEPT ![c] = "open"]
  /\ UNCHANGED clients

Goto(c, stage, id) ==
  /\ calls' = [calls EXCEPT ![c].pc = stage, ![c].mediaID = id, ![c].reply = NoReply]
  /\ UNCHANGED answer

Return(c, a) ==
  /\ calls' = [calls EXCEPT ![c].pc = "idle", ![c].reply = NoReply]
  /\ answer' = [answer EXCEPT ![c] = a]

\* Mutation: no test for a client.
DispatchUnchecked(c) ==
  /\ calls[c].pc = "dispatch"
  /\ Goto(c, IF calls[c].image /\ calls[c].platform # "linkedin" THEN "fetch" ELSE "post", "none")
  /\ UNCHANGED <<clients, uploads, copy, copies>>

\* What is refused without asking the platform.  LinkedIn's client sends no
\* image.
Dispatch(c) ==
  LET r == calls[c] IN
  /\ r.pc = "dispatch"
  /\ IF r.target = None \/ (r.platform \in {"linkedin", "x"} /\ ~r.fit)
     THEN Return(c, "terminal")
     ELSE Goto(c, IF r.image /\ r.platform # "linkedin" THEN "fetch" ELSE "post", "none")
  /\ UNCHANGED <<clients, uploads, copy, copies>>

-----------------------------------------------------------------------------
(***************************************************************************)
(* An exchange: the platform's reply, then what the client makes of it.    *)
(***************************************************************************)

\* Mutation: the post goes through the client there is when the upload is done.
TargetReread(c) == clients[calls[c].platform]

Target(c) == calls[c].target

\* postStatus leaves a blank media id out.
Attached(c) ==
  LET r == calls[c] IN
  IF r.platform = "mastodon" /\ r.mediaID = "blank" THEN "none" ELSE r.mediaID

\* The platform; external.  It may have done what it reports as failed with
\* 500 or does not get to report.
Serve(c) ==
  LET stage == calls[c].pc IN
  /\ stage \in Exchanges
  /\ calls[c].reply = NoReply
  /\ \E reply \in Replies, done \in BOOLEAN :
       /\ reply.status \in {200, 201, 202, 204} => done
       /\ reply.status \in {401, 429} => ~done
       /\ calls' = [calls EXCEPT ![c].reply = reply]
       /\ uploads' = IF done /\ stage \in Uploading
                     THEN [uploads EXCEPT ![c] = @ \cup {<<stage, Target(c)>>}] ELSE uploads
       /\ copy' = IF done /\ stage = "post"
                  THEN [copy EXCEPT ![c] = [target |-> Target(c), attached |-> Attached(c)]]
                  ELSE copy
       /\ copies' = IF done /\ stage = "post" THEN [copies EXCEPT ![c] = @ + 1] ELSE copies
  /\ UNCHANGED <<clients, answer>>

\* The statuses an exchange goes on with.
Success(p, stage) ==
  CASE stage = "fetch" -> {200}
    [] stage = "upload" -> {200, 202}
    [] stage \in {"INIT", "FINALIZE"} -> {200, 201}
    [] stage = "APPEND" -> {200, 201, 202, 204}
    [] stage = "post" -> IF p = "mastodon" THEN {200} ELSE {200, 201}

\* The exchanges whose body must parse.  LinkedIn's post need not.
Parses(p, stage) == stage \notin {"fetch", "APPEND"} /\ ~(stage = "post" /\ p = "linkedin")

Succeeds(c) ==
  LET r == calls[c] IN
  /\ r.reply.status \in Success(r.platform, r.pc)
  /\ Parses(r.platform, r.pc) => r.reply.body # "unreadable"

\* Mutation: whatever is no success and no rate limit is final.
FailureFinal(c) ==
  IF calls[c].reply.status = 429 /\ calls[c].pc = "post" THEN "limited" ELSE "terminal"

\* The error of an exchange that failed.  Only the post itself turns 429 into
\* a rateLimitError; an image that cannot be fetched is no publishError.
Failure(c) ==
  LET status == calls[c].reply.status IN
  IF status = 429 /\ calls[c].pc = "post" THEN "limited"
  ELSE IF status = 401 /\ calls[c].pc # "fetch" THEN "terminal"
  ELSE "transient"

Step(c, stage, next) ==
  /\ calls[c].pc = stage
  /\ calls[c].reply # NoReply
  /\ IF Succeeds(c) THEN next ELSE Return(c, Failure(c))
  /\ UNCHANGED <<clients, uploads, copy, copies>>

FetchMedia(c) ==
  Step(c, "fetch", Goto(c, IF calls[c].platform = "mastodon" THEN "upload" ELSE "INIT", "none"))

uploadMedia(c) == Step(c, "upload", Goto(c, "post", calls[c].reply.body))

\* Mutation: INIT is tried until it succeeds.
InitXMediaPersistent(c) ==
  /\ calls[c].pc = "INIT"
  /\ calls[c].reply # NoReply
  /\ Goto(c, IF Succeeds(c) THEN "APPEND" ELSE "INIT", calls[c].reply.body)
  /\ UNCHANGED <<clients, uploads, copy, copies>>

InitXMedia(c) == Step(c, "INIT", Goto(c, "APPEND", calls[c].reply.body))

AppendXMedia(c) == Step(c, "APPEND", Goto(c, "FINALIZE", calls[c].mediaID))

FinalizeXMedia(c) == Step(c, "FINALIZE", Goto(c, "post", calls[c].reply.body))

\* Mutation: a post that failed for the moment is sent again at once.
postStatusInsistent(c) ==
  /\ calls[c].pc = "post"
  /\ calls[c].reply # NoReply
  /\ \/ Succeeds(c) /\ Return(c, "ok")
     \/ ~Succeeds(c) /\ Failure(c) # "transient" /\ Return(c, Failure(c))
     \/ ~Succeeds(c) /\ Failure(c) = "transient" /\ Goto(c, "post", calls[c].mediaID)
  /\ UNCHANGED <<clients, uploads, copy, copies>>

postStatus(c) == Step(c, "post", Return(c, "ok"))

-----------------------------------------------------------------------------
Receive(c) ==
  \/ Dispatch(c) \/ FetchMedia(c) \/ uploadMedia(c)
  \/ InitXMedia(c) \/ AppendXMedia(c) \/ FinalizeXMedia(c) \/ postStatus(c)

Next ==
  \/ \E p \in Platforms : \E t \in Targets(p) : reloadPlatformClient(p, t)
  \/ \E c \in Callers :
       \/ \E p \in Platforms \cup {"other"}, image, fit \in BOOLEAN :
            callPlatformPublish(c, p, image, fit)
       \/ Serve(c) \/ Receive(c)

Safety == Init /\ [][Next]_vars

\* A reply comes, if only the timeout of the HTTP client, and the goroutine
\* goes on.
Spec == Safety /\ \A c \in Callers : WF_vars(Serve(c)) /\ WF_vars(Receive(c))

-----------------------------------------------------------------------------
(***************************************************************************)
(* Properties.                                                             *)
(***************************************************************************)

\* A publish call keeps the promise of PublishCall, whatever the platform
\* replies and whenever a client is replaced: it has the platform take one copy
\* at most and returns once, and what it reports is in Reports.
Promise == INSTANCE PublishCall WITH copies <- copies, answer <- answer
KeepsPromise == Promise!Safety

\* Whatever a publish call reports, with a copy or without one, is among the
\* outcomes that PostScheduler counts with on a network that loses answers:
\* success is never reported of a post that was not taken, and no error called
\* terminal or a rate limit hides a copy, so that to retry after either is safe.
ReportsExpected ==
  \A c \in Callers :
    answer[c] \in Answers
      => [took |-> copies[c] > 0, answer |-> answer[c]] \in Outcomes(TRUE)

\* Every publish call returns, as PublishCall promises.
CallsReturn == Promise!Liveness

\* The exchanges that upload an image.
UploadOf(p) == IF p = "mastodon" THEN {"upload"} ELSE {"INIT", "APPEND", "FINALIZE"}

\* A copy of a post with an image on Mastodon or X carries it, wholly uploaded
\* to the server that took the copy, also when the client was replaced between
\* the upload and the post.  Unless the platform confirms an upload and names
\* no image.
ImageAttached ==
  \A c \in Callers :
    LET r == calls[c] IN
    copy[c] # NoCopy /\ r.image /\ r.platform # "linkedin"
      => /\ r.mediaID = "blank" \/ copy[c].attached = "id"
         /\ UploadOf(r.platform) \X {copy[c].target} \subseteq uploads[c]

=============================================================================
