------------------------ MODULE PlatformClientsProofs ------------------------
(***************************************************************************)
(* Proofs about PlatformClients, for any callers and instances: types, the *)
(* promise of PublishCall, and the images of posts.                        *)
(***************************************************************************)
EXTENDS PlatformClients, TLAPS

Delivered == {200, 201, 202, 204}

HasImage(c) == calls[c].image /\ calls[c].platform # "linkedin"

Uploaded(c, stages) == stages \X {calls[c].target} \subseteq uploads[c]

\* A call and its answer; whom it talks to.
CallSound(c) ==
  LET r == calls[c] IN
  /\ (r.pc = "idle") <=> (answer[c] # "open")
  /\ r.pc \in {"idle", "dispatch"} => r.reply = NoReply
  /\ r.target # None => r.platform \in Platforms
  /\ r.pc \in Exchanges => r.target # None
  /\ r.pc \in {"fetch"} \cup Uploading => HasImage(c)
  /\ r.pc = "upload" => r.platform = "mastodon"
  /\ r.pc \in {"INIT", "APPEND", "FINALIZE"} => r.platform = "x"

\* The copy and the reply that came with it.
CopySound(c) ==
  LET r == calls[c] IN
  /\ copy[c] # NoCopy /\ r.pc # "idle"
       => r.pc = "post" /\ r.reply # NoReply /\ r.reply.status \notin {401, 429}
  /\ r.pc = "post" /\ r.reply.status \in Delivered => copy[c] # NoCopy
  /\ copy[c] # NoCopy => copy[c].target = r.target /\ copy[c].attached = Attached(c)
  /\ copies[c] = IF copy[c] = NoCopy THEN 0 ELSE 1

\* How far the upload has come.
UploadSound(c) ==
  LET r == calls[c] IN
  /\ r.pc \in Uploading /\ r.reply.status \in Delivered => Uploaded(c, {r.pc})
  /\ r.pc = "APPEND" => Uploaded(c, {"INIT"})
  /\ r.pc = "FINALIZE" => Uploaded(c, {"INIT", "APPEND"})
  /\ HasImage(c) /\ (r.pc = "post" \/ copy[c] # NoCopy)
       => r.mediaID \in {"id", "blank"} /\ Uploaded(c, UploadOf(r.platform))

Sound == \A c \in Callers : CallSound(c) /\ CopySound(c) /\ UploadSound(c)

Inv == TypeOK /\ Sound

-----------------------------------------------------------------------------
\* What the actions do to one call.

LEMMA ReplyBody ==
  ASSUME NEW r \in Replies, r.status \in Delivered, r.body # "unreadable"
  PROVE  r.body \in {"id", "blank"}
BY DEF Replies, Broken, Delivered

LEMMA ReplyStatus ==
  ASSUME NEW r \in Replies \cup {NoReply}
  PROVE  /\ r.status \in {0, 200, 201, 202, 204, 401, 429, 500}
         /\ r.status \in Delivered => r # NoReply
BY DEF Replies, NoReply, Broken, Delivered

\* What a call was asked to do, and with which client.
SameOrder(c) ==
  /\ calls'[c].platform = calls[c].platform
  /\ calls'[c].target = calls[c].target
  /\ calls'[c].image = calls[c].image

\* A call whose state does not change stays sound.
LEMMA Frame ==
  ASSUME Sound, NEW d \in Callers, calls'[d] = calls[d], uploads'[d] = uploads[d],
         copy'[d] = copy[d], copies'[d] = copies[d], answer'[d] = answer[d]
  PROVE  CallSound(d)' /\ CopySound(d)' /\ UploadSound(d)'
BY DEF Sound, CallSound, CopySound, UploadSound, Uploaded, HasImage, Attached

LEMMA GotoStep ==
  ASSUME TypeOK, NEW c \in Callers, NEW stage \in Exchanges, NEW id \in MediaIDs,
         Goto(c, stage, id), UNCHANGED <<clients, uploads, copy, copies>>
  PROVE  /\ TypeOK'
         /\ calls'[c].pc = stage /\ calls'[c].mediaID = id /\ calls'[c].reply = NoReply
         /\ SameOrder(c)
         /\ \A d \in Callers \ {c} : calls'[d] = calls[d]
<1> DEFINE r == [calls[c] EXCEPT !.pc = stage, !.mediaID = id, !.reply = NoReply]
<1>0. calls[c] \in Calls
  BY DEF TypeOK
<1>1. r \in Calls
  BY <1>0 DEF Calls
<1>2. calls' = [calls EXCEPT ![c] = r]
  BY DEF Goto, TypeOK
<1>3. calls' \in [Callers -> Calls]
  BY <1>1, <1>2 DEF TypeOK
<1>4. TypeOK'
  BY <1>3 DEF Goto, TypeOK
<1> QED
  BY <1>0, <1>2, <1>4 DEF TypeOK, Calls, SameOrder

LEMMA ReturnStep ==
  ASSUME TypeOK, NEW c \in Callers, NEW a \in {"ok", "terminal", "transient", "limited"},
         Return(c, a), UNCHANGED <<clients, uploads, copy, copies>>
  PROVE  /\ TypeOK'
         /\ calls'[c].pc = "idle" /\ calls'[c].reply = NoReply
         /\ calls'[c].mediaID = calls[c].mediaID
         /\ SameOrder(c)
         /\ answer'[c] = a
         /\ \A d \in Callers \ {c} : calls'[d] = calls[d] /\ answer'[d] = answer[d]
<1> DEFINE r == [calls[c] EXCEPT !.pc = "idle", !.reply = NoReply]
<1>0. calls[c] \in Calls
  BY DEF TypeOK
<1>1. r \in Calls
  BY <1>0 DEF Calls
<1>2. calls' = [calls EXCEPT ![c] = r]
  BY DEF Return, TypeOK
<1>3. calls' \in [Callers -> Calls]
  BY <1>1, <1>2 DEF TypeOK
<1>4. TypeOK'
  BY <1>3 DEF Return, TypeOK, Answers
<1> QED
  BY <1>0, <1>2, <1>4 DEF Return, TypeOK, Calls, SameOrder

\* A call that returns stays sound.
LEMMA ReturnSound ==
  ASSUME Inv, NEW c \in Callers, NEW a \in {"ok", "terminal", "transient", "limited"},
         Return(c, a), UNCHANGED <<clients, uploads, copy, copies>>
  PROVE  Inv'
<1>1. /\ TypeOK'
      /\ calls'[c].pc = "idle" /\ calls'[c].reply = NoReply
      /\ calls'[c].mediaID = calls[c].mediaID
      /\ SameOrder(c)
      /\ answer'[c] = a
      /\ \A d \in Callers \ {c} : calls'[d] = calls[d] /\ answer'[d] = answer[d]
  BY ReturnStep DEF Inv
<1>2. \A d \in Callers \ {c} : CallSound(d)' /\ CopySound(d)' /\ UploadSound(d)'
  BY <1>1, Frame DEF Inv
<1>3. calls[c] \in Calls
  BY DEF Inv, TypeOK
<1>4. CallSound(c)'
  BY <1>1, <1>3 DEF Inv, Sound, CallSound, SameOrder, Exchanges, Uploading
<1>5. CopySound(c)'
  BY <1>1, <1>3 DEF Inv, Sound, CopySound, SameOrder, Attached
<1>6. UploadSound(c)'
  BY <1>1, <1>3 DEF Inv, Sound, UploadSound, SameOrder, Uploading, Uploaded, HasImage
<1> QED
  BY <1>1, <1>2, <1>4, <1>5, <1>6 DEF Inv, Sound

\* A call that goes on to its next exchange stays sound, if its upload has come
\* far enough for it.
LEMMA GotoSound ==
  ASSUME Inv, NEW c \in Callers, NEW stage \in Exchanges, NEW id \in MediaIDs,
         Goto(c, stage, id), UNCHANGED <<clients, uploads, copy, copies>>,
         calls[c].pc # "idle", calls[c].target # None, copy[c] = NoCopy,
         stage # "post" => HasImage(c),
         stage = "upload" => calls[c].platform = "mastodon",
         stage \in {"INIT", "APPEND", "FINALIZE"} => calls[c].platform = "x",
         stage = "APPEND" => Uploaded(c, {"INIT"}),
         stage = "FINALIZE" => Uploaded(c, {"INIT", "APPEND"}),
         stage = "post" /\ HasImage(c) =>
           id \in {"id", "blank"} /\ Uploaded(c, UploadOf(calls[c].platform))
  PROVE  Inv'
<1>1. /\ TypeOK'
      /\ calls'[c].pc = stage /\ calls'[c].mediaID = id /\ calls'[c].reply = NoReply
      /\ SameOrder(c)
      /\ \A d \in Callers \ {c} : calls'[d] = calls[d]
  BY GotoStep DEF Inv
<1>2. /\ answer' = answer /\ uploads' = uploads /\ copy' = copy /\ copies' = copies
  BY DEF Goto
<1>3. \A d \in Callers \ {c} : CallSound(d)' /\ CopySound(d)' /\ UploadSound(d)'
  BY <1>1, <1>2, Frame DEF Inv
<1>4. NoReply.status = 0
  BY DEF NoReply
<1>5. CallSound(c)'
  BY <1>1, <1>2 DEF Inv, Sound, CallSound, SameOrder, Exchanges, Uploading, HasImage
<1>6. CopySound(c)'
  BY <1>1, <1>2, <1>4 DEF Inv, Sound, CopySound, Delivered
<1>7. UploadSound(c)'
  <2>1. HasImage(c)' <=> HasImage(c)
    BY <1>1 DEF SameOrder, HasImage
  <2>2. \A s : Uploaded(c, s)' <=> Uploaded(c, s)
    BY <1>1, <1>2 DEF SameOrder, Uploaded
  <2> QED
    BY <1>1, <1>2, <1>4, <2>1, <2>2 DEF UploadSound, SameOrder, Delivered
<1> QED
  BY <1>1, <1>3, <1>5, <1>6, <1>7 DEF Inv, Sound

-----------------------------------------------------------------------------
\* One lemma for each action.

LEMMA InitSound == Init => Inv
<1> SUFFICES ASSUME Init PROVE Inv
  OBVIOUS
<1>1. Idle \in Calls
  BY DEF Idle, Calls, Replies, AllTargets, MediaIDs
<1>2. TypeOK
  <2>1. NoCopy \in [target: AllTargets, attached: MediaIDs]
    BY DEF NoCopy, AllTargets, MediaIDs
  <2> QED
    BY <1>1, <2>1 DEF Init, TypeOK
<1>3. ASSUME NEW c \in Callers PROVE CallSound(c) /\ CopySound(c) /\ UploadSound(c)
  <2>1. calls[c] = Idle /\ copy[c] = NoCopy /\ copies[c] = 0 /\ answer[c] = "none"
    BY DEF Init
  <2> QED
    BY <2>1 DEF CallSound, CopySound, UploadSound, Idle, NoReply, Exchanges, Uploading, Delivered
<1> QED
  BY <1>2, <1>3 DEF Inv, Sound

LEMMA ReloadSound ==
  ASSUME Inv, NEW p \in Platforms, NEW t \in Targets(p), reloadPlatformClient(p, t)
  PROVE  Inv'
<1>1. t \in AllTargets
  BY DEF Targets, AllTargets
<1>2. TypeOK'
  BY <1>1 DEF Inv, TypeOK, reloadPlatformClient
<1>3. \A d \in Callers : CallSound(d)' /\ CopySound(d)' /\ UploadSound(d)'
  BY Frame DEF Inv, reloadPlatformClient
<1> QED
  BY <1>2, <1>3 DEF Inv, Sound

LEMMA BeginSound ==
  ASSUME Inv, NEW c \in Callers, NEW p \in Platforms \cup {"other"}, NEW image \in BOOLEAN,
         NEW fit \in BOOLEAN, callPlatformPublish(c, p, image, fit)
  PROVE  Inv'
<1> DEFINE t == IF p \in Platforms THEN clients[p] ELSE None
           r == [pc |-> "dispatch", platform |-> p, target |-> t, image |-> image, fit |-> fit,
                 mediaID |-> "none", reply |-> NoReply]
<1>1. t \in AllTargets
  BY DEF Inv, TypeOK, AllTargets
<1>2. r \in Calls
  BY <1>1 DEF Calls, MediaIDs
<1>3. calls' = [calls EXCEPT ![c] = r]
  BY DEF callPlatformPublish
<1>4. TypeOK'
  <2>1. calls' \in [Callers -> Calls]
    BY <1>2, <1>3 DEF Inv, TypeOK
  <2>2. copy' \in [Callers -> [target: AllTargets, attached: MediaIDs]]
    BY DEF Inv, TypeOK, callPlatformPublish, NoCopy, AllTargets, MediaIDs
  <2> QED
    BY <2>1, <2>2 DEF Inv, TypeOK, callPlatformPublish
<1>5. \A d \in Callers \ {c} : CallSound(d)' /\ CopySound(d)' /\ UploadSound(d)'
  BY <1>3, Frame DEF Inv, TypeOK, callPlatformPublish
<1>6. calls'[c] = r /\ copy'[c] = NoCopy /\ copies'[c] = 0 /\ answer'[c] = "open"
  BY <1>3 DEF Inv, TypeOK, callPlatformPublish
<1>7. /\ r.pc = "dispatch" /\ r.reply = NoReply /\ r.target = t /\ r.platform = p
  OBVIOUS
<1>8. CallSound(c)'
  BY <1>6, <1>7 DEF CallSound, Exchanges, Uploading
<1>9. CopySound(c)' /\ UploadSound(c)'
  BY <1>6, <1>7 DEF CopySound, UploadSound, Uploading
<1> QED
  BY <1>4, <1>5, <1>8, <1>9 DEF Inv, Sound

LEMMA DispatchSound ==
  ASSUME Inv, NEW c \in Callers, Dispatch(c)
  PROVE  Inv'
<1>1. calls[c].pc = "dispatch" /\ UNCHANGED <<clients, uploads, copy, copies>>
  BY DEF Dispatch
<1>2. CASE Return(c, "terminal")
  BY <1>1, <1>2, ReturnSound
<1>3. CASE /\ calls[c].target # None
           /\ Goto(c, IF calls[c].image /\ calls[c].platform # "linkedin" THEN "fetch" ELSE "post",
                   "none")
  <2>1. copy[c] = NoCopy
    BY <1>1 DEF Inv, Sound, CopySound
  <2>2. "fetch" \in Exchanges /\ "post" \in Exchanges /\ "none" \in MediaIDs
    BY DEF Exchanges, MediaIDs
  <2>3. CASE HasImage(c)
    <3>1. Goto(c, "fetch", "none")
      BY <1>3, <2>3 DEF HasImage
    <3> QED
      BY <1>1, <1>3, <2>1, <2>2, <2>3, <3>1, GotoSound
  <2>4. CASE ~HasImage(c)
    <3>1. Goto(c, "post", "none")
      BY <1>3, <2>4 DEF HasImage
    <3> QED
      BY <1>1, <1>3, <2>1, <2>2, <2>4, <3>1, GotoSound
  <2> QED
    BY <2>3, <2>4
<1> QED
  BY <1>2, <1>3 DEF Dispatch

\* A reply leaves the other calls alone.
LEMMA ServeSound ==
  ASSUME Inv, NEW c \in Callers, Serve(c)
  PROVE  Inv'
<1> DEFINE stage == calls[c].pc
<1>1. /\ stage \in Exchanges /\ calls[c].reply = NoReply
      /\ clients' = clients /\ answer' = answer
  BY DEF Serve
<1>2. PICK reply \in Replies, done \in BOOLEAN :
       /\ reply.status \in {200, 201, 202, 204} => done
       /\ reply.status \in {401, 429} => ~done
       /\ calls' = [calls EXCEPT ![c].reply = reply]
       /\ uploads' = IF done /\ stage \in Uploading
                     THEN [uploads EXCEPT ![c] = @ \cup {<<stage, Target(c)>>}] ELSE uploads
       /\ copy' = IF done /\ stage = "post"
                  THEN [copy EXCEPT ![c] = [target |-> Target(c), attached |-> Attached(c)]]
                  ELSE copy
       /\ copies' = IF done /\ stage = "post" THEN [copies EXCEPT ![c] = @ + 1] ELSE copies
  BY DEF Serve
<1> DEFINE r == [calls[c] EXCEPT !.reply = reply]
<1>3. calls[c] \in Calls /\ calls \in [Callers -> Calls]
  BY DEF Inv, TypeOK
<1>4. r \in Calls
  BY <1>3 DEF Calls
<1>5. calls' = [calls EXCEPT ![c] = r]
  BY <1>2, <1>3
<1>6. /\ calls'[c].reply = reply /\ calls'[c].pc = stage /\ calls'[c].mediaID = calls[c].mediaID
      /\ SameOrder(c)
  BY <1>3, <1>5 DEF Calls, SameOrder
<1>7. Target(c) # None /\ Target(c) \in AllTargets
  BY <1>1, <1>3 DEF Inv, Sound, CallSound, Target, Calls
<1>8. Attached(c) \in MediaIDs
  BY <1>3 DEF Calls, Attached, MediaIDs
<1>9. copy'[c] # NoCopy => stage = "post" /\ done
  BY <1>1, <1>2 DEF Inv, Sound, CopySound, Exchanges, Uploading
<1>10. TypeOK'
  <2>1. calls' \in [Callers -> Calls]
    BY <1>3, <1>4, <1>5
  <2>2. uploads' \in [Callers -> SUBSET (Uploading \X (AllTargets \ {None}))]
    BY <1>2, <1>7 DEF Inv, TypeOK
  <2>3. copy' \in [Callers -> [target: AllTargets, attached: MediaIDs]]
    BY <1>2, <1>7, <1>8 DEF Inv, TypeOK
  <2>4. copies' \in [Callers -> Nat]
    BY <1>2 DEF Inv, TypeOK
  <2> QED
    BY <1>1, <2>1, <2>2, <2>3, <2>4 DEF Inv, TypeOK
<1>11. \A d \in Callers \ {c} : CallSound(d)' /\ CopySound(d)' /\ UploadSound(d)'
  <2>1. \A d \in Callers \ {c} : /\ calls'[d] = calls[d] /\ uploads'[d] = uploads[d]
                                 /\ copy'[d] = copy[d] /\ copies'[d] = copies[d]
                                 /\ answer'[d] = answer[d]
    BY <1>1, <1>2, <1>3 DEF Inv, TypeOK
  <2> QED
    BY <2>1, Frame DEF Inv
<1>12. CallSound(c)'
  <2>1. CallSound(c) /\ stage \notin {"idle", "dispatch"}
    BY <1>1 DEF Inv, Sound, Exchanges, Uploading
  <2> QED
    BY <1>1, <1>6, <2>1 DEF CallSound, SameOrder, HasImage
<1>13. CopySound(c)'
  <2>1. copy[c] = NoCopy /\ copies[c] = 0
    BY <1>1 DEF Inv, Sound, CopySound, Exchanges, Uploading
  <2>2. reply # NoReply
    BY DEF Replies, NoReply, Broken
  <2>3. Attached(c)' = Attached(c)
    BY <1>6 DEF Attached, SameOrder
  <2>4. CASE done /\ stage = "post"
    <3>1. copy'[c] = [target |-> Target(c), attached |-> Attached(c)]
      BY <1>2, <2>4 DEF Inv, TypeOK
    <3>2. copy'[c] # NoCopy
      BY <1>7, <3>1 DEF NoCopy
    <3>3. copies'[c] = 1
      BY <1>2, <2>1, <2>4 DEF Inv, TypeOK
    <3> QED
      BY <1>2, <1>6, <2>2, <2>3, <2>4, <3>1, <3>2, <3>3 DEF CopySound, Target, SameOrder
  <2>5. CASE ~(done /\ stage = "post")
    BY <1>2, <1>6, <2>1, <2>5 DEF CopySound, Delivered
  <2> QED
    BY <2>4, <2>5
<1>14. UploadSound(c)'
  <2>1. UploadSound(c) /\ (HasImage(c)' <=> HasImage(c))
    BY <1>6 DEF Inv, Sound, HasImage, SameOrder
  <2>2. \A s : Uploaded(c, s) => Uploaded(c, s)'
    BY <1>2, <1>6 DEF Inv, TypeOK, Uploaded, SameOrder
  <2>3. stage \in Uploading /\ reply.status \in Delivered => Uploaded(c, {stage})'
    BY <1>2, <1>6 DEF Inv, TypeOK, Uploaded, SameOrder, Delivered, Target
  <2> QED
    BY <1>6, <1>9, <2>1, <2>2, <2>3 DEF UploadSound, SameOrder
<1> QED
  BY <1>10, <1>11, <1>12, <1>13, <1>14 DEF Inv, Sound

\* What a call knows when its exchange succeeded, and what it may report when
\* not.
LEMMA Progress ==
  ASSUME Inv, NEW c \in Callers, calls[c].pc \in Exchanges, calls[c].reply # NoReply
  PROVE  /\ calls[c].pc # "post" => copy[c] = NoCopy
         /\ calls[c].target # None
         /\ Succeeds(c) => calls[c].reply.status \in Delivered
         /\ Succeeds(c) /\ calls[c].pc \in {"upload", "INIT", "FINALIZE"}
              => calls[c].reply.body \in {"id", "blank"}
         /\ Failure(c) \in {"terminal", "transient", "limited"}
<1>1. calls[c] \in Calls /\ calls[c].reply \in Replies
  BY DEF Inv, TypeOK, Calls
<1>2. calls[c].pc # "idle"
  BY DEF Exchanges, Uploading
<1>3. calls[c].pc # "post" => copy[c] = NoCopy
  BY <1>2 DEF Inv, Sound, CopySound
<1>4. calls[c].target # None
  BY DEF Inv, Sound, CallSound
<1>5. Succeeds(c) => calls[c].reply.status \in Delivered
  BY DEF Succeeds, Success, Delivered, Exchanges, Uploading
<1>6. Succeeds(c) /\ calls[c].pc \in {"upload", "INIT", "FINALIZE"} =>
        calls[c].reply.body # "unreadable"
  BY DEF Succeeds, Parses
<1> QED
  BY <1>1, <1>3, <1>4, <1>5, <1>6, ReplyBody DEF Failure

LEMMA FetchSound ==
  ASSUME Inv, NEW c \in Callers, FetchMedia(c)
  PROVE  Inv'
<1>1. /\ calls[c].pc = "fetch" /\ calls[c].reply # NoReply
      /\ UNCHANGED <<clients, uploads, copy, copies>>
  BY DEF FetchMedia, Step
<1>2. "fetch" \in Exchanges /\ "upload" \in Exchanges /\ "INIT" \in Exchanges /\ "none" \in MediaIDs
  BY DEF Exchanges, Uploading, MediaIDs
<1>3. /\ copy[c] = NoCopy /\ calls[c].target # None
      /\ Failure(c) \in {"terminal", "transient", "limited"}
  BY <1>1, <1>2, Progress
<1>4. HasImage(c) /\ calls[c].platform \in {"mastodon", "x"}
  BY <1>1, <1>3 DEF Inv, Sound, CallSound, HasImage, Platforms
<1>5. CASE Return(c, Failure(c))
  BY <1>1, <1>3, <1>5, ReturnSound
<1>6. CASE Goto(c, IF calls[c].platform = "mastodon" THEN "upload" ELSE "INIT", "none")
  <2>1. CASE calls[c].platform = "mastodon"
    <3>1. Goto(c, "upload", "none")
      BY <1>6, <2>1
    <3> QED
      BY <1>1, <1>2, <1>3, <1>4, <2>1, <3>1, GotoSound
  <2>2. CASE calls[c].platform = "x"
    <3>1. Goto(c, "INIT", "none")
      BY <1>6, <2>2
    <3> QED
      BY <1>1, <1>2, <1>3, <1>4, <2>2, <3>1, GotoSound
  <2> QED
    BY <1>4, <2>1, <2>2
<1> QED
  BY <1>5, <1>6 DEF FetchMedia, Step

\* An exchange of the upload, and how it goes on.
LEMMA UploadStep ==
  ASSUME Inv, NEW c \in Callers, calls[c].pc \in Uploading, calls[c].reply # NoReply, Succeeds(c)
  PROVE  /\ calls[c].pc \in Exchanges /\ calls[c].pc # "idle"
         /\ copy[c] = NoCopy /\ calls[c].target # None
         /\ HasImage(c)
         /\ Uploaded(c, {calls[c].pc})
<1>1. calls[c].pc \in Exchanges /\ calls[c].pc \notin {"idle", "post"}
  BY DEF Exchanges, Uploading
<1> QED
  BY <1>1, Progress DEF Inv, Sound, CallSound, UploadSound

LEMMA UploadMediaSound ==
  ASSUME Inv, NEW c \in Callers, uploadMedia(c)
  PROVE  Inv'
<1>1. /\ calls[c].pc = "upload" /\ calls[c].reply # NoReply
      /\ UNCHANGED <<clients, uploads, copy, copies>>
  BY DEF uploadMedia, Step
<1>2. "upload" \in Uploading /\ "upload" \in Exchanges /\ "post" \in Exchanges
  BY DEF Exchanges, Uploading
<1>3. CASE Return(c, Failure(c))
  BY <1>1, <1>2, <1>3, Progress, ReturnSound
<1>4. CASE Succeeds(c) /\ Goto(c, "post", calls[c].reply.body)
  <2>1. calls[c].reply.body \in {"id", "blank"}
    BY <1>1, <1>2, <1>4, Progress
  <2>2. calls[c].reply.body \in MediaIDs
    BY <2>1 DEF MediaIDs
  <2>3. Uploaded(c, UploadOf(calls[c].platform))
    BY <1>1, <1>2, <1>4, UploadStep DEF Inv, Sound, CallSound, UploadOf
  <2> QED
    BY <1>1, <1>2, <1>4, <2>1, <2>2, <2>3, UploadStep, GotoSound
<1> QED
  BY <1>3, <1>4 DEF uploadMedia, Step

LEMMA InitXSound ==
  ASSUME Inv, NEW c \in Callers, InitXMedia(c)
  PROVE  Inv'
<1>1. /\ calls[c].pc = "INIT" /\ calls[c].reply # NoReply
      /\ UNCHANGED <<clients, uploads, copy, copies>>
  BY DEF InitXMedia, Step
<1>2. "INIT" \in Uploading /\ "INIT" \in Exchanges /\ "APPEND" \in Exchanges
  BY DEF Exchanges, Uploading
<1>3. CASE Return(c, Failure(c))
  BY <1>1, <1>2, <1>3, Progress, ReturnSound
<1>4. CASE Succeeds(c) /\ Goto(c, "APPEND", calls[c].reply.body)
  <2>1. calls[c].reply.body \in MediaIDs
    BY <1>1, <1>2, <1>4, Progress DEF MediaIDs
  <2>2. calls[c].platform = "x" /\ Uploaded(c, {"INIT"})
    BY <1>1, <1>2, <1>4, UploadStep DEF Inv, Sound, CallSound
  <2> QED
    BY <1>1, <1>2, <1>4, <2>1, <2>2, UploadStep, GotoSound
<1> QED
  BY <1>3, <1>4 DEF InitXMedia, Step

LEMMA AppendXSound ==
  ASSUME Inv, NEW c \in Callers, AppendXMedia(c)
  PROVE  Inv'
<1>1. /\ calls[c].pc = "APPEND" /\ calls[c].reply # NoReply
      /\ UNCHANGED <<clients, uploads, copy, copies>>
  BY DEF AppendXMedia, Step
<1>2. "APPEND" \in Uploading /\ "APPEND" \in Exchanges /\ "FINALIZE" \in Exchanges
  BY DEF Exchanges, Uploading
<1>3. CASE Return(c, Failure(c))
  BY <1>1, <1>2, <1>3, Progress, ReturnSound
<1>4. CASE Succeeds(c) /\ Goto(c, "FINALIZE", calls[c].mediaID)
  <2>1. calls[c].mediaID \in MediaIDs
    BY DEF Inv, TypeOK, Calls
  <2>2. calls[c].platform = "x" /\ Uploaded(c, {"APPEND"}) /\ Uploaded(c, {"INIT"})
    BY <1>1, <1>2, <1>4, UploadStep DEF Inv, Sound, CallSound, UploadSound
  <2>3. Uploaded(c, {"INIT", "APPEND"})
    BY <2>2 DEF Uploaded
  <2> QED
    BY <1>1, <1>2, <1>4, <2>1, <2>2, <2>3, UploadStep, GotoSound
<1> QED
  BY <1>3, <1>4 DEF AppendXMedia, Step

LEMMA FinalizeXSound ==
  ASSUME Inv, NEW c \in Callers, FinalizeXMedia(c)
  PROVE  Inv'
<1>1. /\ calls[c].pc = "FINALIZE" /\ calls[c].reply # NoReply
      /\ UNCHANGED <<clients, uploads, copy, copies>>
  BY DEF FinalizeXMedia, Step
<1>2. "FINALIZE" \in Uploading /\ "FINALIZE" \in Exchanges /\ "post" \in Exchanges
  BY DEF Exchanges, Uploading
<1>3. CASE Return(c, Failure(c))
  BY <1>1, <1>2, <1>3, Progress, ReturnSound
<1>4. CASE Succeeds(c) /\ Goto(c, "post", calls[c].reply.body)
  <2>1. calls[c].reply.body \in {"id", "blank"}
    BY <1>1, <1>2, <1>4, Progress
  <2>2. calls[c].reply.body \in MediaIDs
    BY <2>1 DEF MediaIDs
  <2>3. /\ calls[c].platform = "x"
        /\ Uploaded(c, {"FINALIZE"}) /\ Uploaded(c, {"INIT", "APPEND"})
    BY <1>1, <1>2, <1>4, UploadStep DEF Inv, Sound, CallSound, UploadSound
  <2>4. Uploaded(c, UploadOf(calls[c].platform))
    BY <2>3 DEF Uploaded, UploadOf
  <2> QED
    BY <1>1, <1>2, <1>4, <2>1, <2>2, <2>4, UploadStep, GotoSound
<1> QED
  BY <1>3, <1>4 DEF FinalizeXMedia, Step

LEMMA PostSound ==
  ASSUME Inv, NEW c \in Callers, postStatus(c)
  PROVE  Inv'
<1>1. /\ calls[c].pc = "post" /\ calls[c].reply # NoReply
      /\ UNCHANGED <<clients, uploads, copy, copies>>
  BY DEF postStatus, Step
<1>2. "post" \in Exchanges
  BY DEF Exchanges
<1>3. CASE Return(c, Failure(c))
  BY <1>1, <1>2, <1>3, Progress, ReturnSound
<1>4. CASE Return(c, "ok")
  BY <1>1, <1>4, ReturnSound
<1> QED
  BY <1>3, <1>4 DEF postStatus, Step

LEMMA NextSound == Inv /\ [Next]_vars => Inv'
<1> SUFFICES ASSUME Inv, [Next]_vars PROVE Inv'
  OBVIOUS
<1>1. CASE UNCHANGED vars
  <2>1. TypeOK'
    BY <1>1 DEF vars, Inv, TypeOK
  <2>2. \A d \in Callers : CallSound(d)' /\ CopySound(d)' /\ UploadSound(d)'
    BY <1>1, Frame DEF vars, Inv
  <2> QED
    BY <2>1, <2>2 DEF Inv, Sound
<1>2. ASSUME NEW p \in Platforms, NEW t \in Targets(p), reloadPlatformClient(p, t) PROVE Inv'
  BY <1>2, ReloadSound
<1>3. ASSUME NEW c \in Callers, NEW p \in Platforms \cup {"other"}, NEW image \in BOOLEAN,
             NEW fit \in BOOLEAN, callPlatformPublish(c, p, image, fit)
      PROVE  Inv'
  BY <1>3, BeginSound
<1>4. ASSUME NEW c \in Callers, Serve(c) PROVE Inv'
  BY <1>4, ServeSound
<1>5. ASSUME NEW c \in Callers, Receive(c) PROVE Inv'
  BY <1>5, DispatchSound, FetchSound, UploadMediaSound, InitXSound, AppendXSound,
     FinalizeXSound, PostSound DEF Receive
<1> QED
  BY <1>1, <1>2, <1>3, <1>4, <1>5 DEF Next

LEMMA Invariance == Spec => []Inv
<1>1. Init => Inv
  BY InitSound
<1> QED
  BY <1>1, NextSound, PTL DEF Spec, Safety

-----------------------------------------------------------------------------
\* Types, for any callers and any instances (mastodon.go, linkedin.go, twitter.go).
THEOREM TypeCorrect == Spec => []TypeOK
<1>1. Inv => TypeOK
  BY DEF Inv
<1> QED
  BY <1>1, Invariance, PTL

\* A copy carries the image of its post, whatever reloadPlatformClient does
\* between the upload and the post (mastodon.go:156-290, twitter.go:138-304).
THEOREM ImageIsAttached == Spec => []ImageAttached
<1>1. Inv => ImageAttached
  <2> SUFFICES ASSUME Inv, NEW c \in Callers, copy[c] # NoCopy, HasImage(c)
               PROVE  /\ calls[c].mediaID = "blank" \/ copy[c].attached = "id"
                      /\ UploadOf(calls[c].platform) \X {copy[c].target} \subseteq uploads[c]
    BY DEF ImageAttached, HasImage
  <2>1. calls[c].mediaID \in {"id", "blank"} /\ Uploaded(c, UploadOf(calls[c].platform))
    BY DEF Inv, Sound, UploadSound
  <2>2. copy[c].target = calls[c].target /\ copy[c].attached = Attached(c)
    BY DEF Inv, Sound, CopySound
  <2> QED
    BY <2>1, <2>2 DEF Attached, Uploaded
<1> QED
  BY <1>1, Invariance, PTL

-----------------------------------------------------------------------------
\* Each action is a step of PublishCall or changes nothing it sees.

LEMMA BeginStep ==
  ASSUME Inv, NEW c \in Callers, NEW p \in Platforms \cup {"other"}, NEW image \in BOOLEAN,
         NEW fit \in BOOLEAN, callPlatformPublish(c, p, image, fit)
  PROVE  Promise!Begin(c)
<1>1. answer[c] # "open"
  BY DEF callPlatformPublish, Inv, Sound, CallSound
<1> QED
  BY <1>1 DEF callPlatformPublish, Promise!Begin

LEMMA TakeStep ==
  ASSUME Inv, NEW c \in Callers, Serve(c)
  PROVE  Promise!Take(c) \/ UNCHANGED <<copies, answer>>
<1>1. answer' = answer /\ calls[c].pc \in Exchanges /\ calls[c].reply = NoReply
  BY DEF Serve
<1>2. answer[c] = "open"
  BY <1>1 DEF Inv, Sound, CallSound, Exchanges, Uploading, TypeOK
<1>3. copies[c] = 0
  BY <1>1 DEF Inv, Sound, CopySound, Exchanges, Uploading
<1>4. copies' = copies \/ copies' = [copies EXCEPT ![c] = 1]
  BY <1>3 DEF Serve, Inv, TypeOK
<1> QED
  BY <1>1, <1>2, <1>3, <1>4 DEF Promise!Take

LEMMA ReturnIsReport ==
  ASSUME Inv, NEW c \in Callers, NEW a, Return(c, a), UNCHANGED copies, calls[c].pc # "idle",
         copy[c] = NoCopy => a \in {"terminal", "transient", "limited"},
         copy[c] # NoCopy => a \in {"ok", "transient"}
  PROVE  Promise!Return(c)
<1>1. answer[c] = "open"
  BY DEF Inv, Sound, CallSound
<1>2. a \in Promise!Reports(copies[c])
  BY DEF Inv, Sound, CopySound, Promise!Reports
<1> QED
  BY <1>1, <1>2 DEF Return, Promise!Return

LEMMA ReceiveStep ==
  ASSUME Inv, NEW c \in Callers, Receive(c)
  PROVE  Promise!Return(c) \/ UNCHANGED <<copies, answer>>
<1>1. UNCHANGED copies /\ calls[c].pc # "idle"
  BY DEF Receive, Dispatch, FetchMedia, uploadMedia, InitXMedia, AppendXMedia, FinalizeXMedia,
         postStatus, Step
<1>2. ASSUME NEW stage, NEW id, Goto(c, stage, id) PROVE UNCHANGED <<copies, answer>>
  BY <1>1, <1>2 DEF Goto
<1>3. CASE Dispatch(c)
  <2>1. copy[c] = NoCopy
    BY <1>3 DEF Dispatch, Inv, Sound, CopySound
  <2> QED
    BY <1>1, <1>2, <1>3, <2>1, ReturnIsReport DEF Dispatch
<1>4. ASSUME NEW stage \in Exchanges \ {"post"}, calls[c].pc = stage, calls[c].reply # NoReply,
             Return(c, Failure(c))
      PROVE  Promise!Return(c)
  BY <1>1, <1>4, Progress, ReturnIsReport
<1>5. CASE FetchMedia(c) \/ uploadMedia(c) \/ InitXMedia(c) \/ AppendXMedia(c) \/ FinalizeXMedia(c)
  <2>1. {"fetch", "upload", "INIT", "APPEND", "FINALIZE"} \subseteq Exchanges \ {"post"}
    BY DEF Exchanges, Uploading
  <2> QED
    BY <1>2, <1>4, <1>5, <2>1
       DEF FetchMedia, uploadMedia, InitXMedia, AppendXMedia, FinalizeXMedia, Step
<1>6. CASE postStatus(c)
  <2>1. calls[c].pc = "post" /\ calls[c].reply # NoReply /\ "post" \in Exchanges
    BY <1>6 DEF postStatus, Step, Exchanges
  <2>2. CASE Succeeds(c) /\ Return(c, "ok")
    <3>1. copy[c] # NoCopy
      BY <2>1, <2>2, Progress DEF Inv, Sound, CopySound
    <3> QED
      BY <1>1, <2>2, <3>1, ReturnIsReport
  <2>3. CASE Return(c, Failure(c))
    <3>1. copy[c] # NoCopy => Failure(c) = "transient"
      BY <2>1 DEF Inv, Sound, CopySound, Failure
    <3> QED
      BY <1>1, <2>1, <2>3, <3>1, Progress, ReturnIsReport
  <2> QED
    BY <1>6, <2>2, <2>3 DEF postStatus, Step
<1> QED
  BY <1>3, <1>5, <1>6 DEF Receive

\* A publish call implements PublishCall: no success without a copy, no copy
\* behind an error called terminal or a rate limit (scheduler.go:313-339).
THEOREM CallKeepsPromise == Spec => KeepsPromise
<1>1. Init => Promise!Init
  BY DEF Init, Promise!Init
<1>2. Inv /\ [Next]_vars => [Promise!Next]_<<copies, answer>>
  <2> SUFFICES ASSUME Inv, [Next]_vars PROVE [Promise!Next]_<<copies, answer>>
    OBVIOUS
  <2>1. CASE UNCHANGED vars
    BY <2>1 DEF vars
  <2>2. ASSUME NEW p \in Platforms, NEW t \in Targets(p), reloadPlatformClient(p, t)
        PROVE  UNCHANGED <<copies, answer>>
    BY <2>2 DEF reloadPlatformClient
  <2>3. ASSUME NEW c \in Callers, NEW p \in Platforms \cup {"other"}, NEW image \in BOOLEAN,
               NEW fit \in BOOLEAN, callPlatformPublish(c, p, image, fit)
        PROVE  Promise!Next
    BY <2>3, BeginStep DEF Promise!Next
  <2>4. ASSUME NEW c \in Callers, Serve(c) PROVE [Promise!Next]_<<copies, answer>>
    BY <2>4, TakeStep DEF Promise!Next
  <2>5. ASSUME NEW c \in Callers, Receive(c) PROVE [Promise!Next]_<<copies, answer>>
    BY <2>5, ReceiveStep DEF Promise!Next
  <2> QED
    BY <2>1, <2>2, <2>3, <2>4, <2>5 DEF Next
<1> QED
  BY <1>1, <1>2, Invariance, PTL DEF Spec, Safety, KeepsPromise, Promise!Safety

\* What PublishCall says of a call that has returned, or may return now.
Reported ==
  \A c \in Callers :
    /\ answer[c] # "none" => copies[c] \in {0, 1}
    /\ answer[c] \in Answers => answer[c] \in Reports(copies[c])

\* Every report of a publish call, whatever the platform replied, is one that
\* publishWithRetry and publishNow of PostScheduler count with
\* (scheduler.go:203-270): it follows from what PublishCall promises alone.
THEOREM ReportsAreExpected == Spec => []ReportsExpected
<1>1. Promise!Init => Reported
  BY DEF Promise!Init, Reported, Answers
<1>2. TypeOK /\ Reported /\ [Promise!Next]_<<copies, answer>> => Reported'
  <2> SUFFICES ASSUME TypeOK, Reported, [Promise!Next]_<<copies, answer>>, NEW c \in Callers
               PROVE  /\ answer'[c] # "none" => copies'[c] \in {0, 1}
                      /\ answer'[c] \in Answers => answer'[c] \in Reports(copies'[c])
    BY DEF Reported
  <2>1. CASE answer'[c] = answer[c] /\ copies'[c] = copies[c]
    BY <2>1 DEF Reported
  <2>2. ASSUME NEW d \in Callers, Promise!Begin(d)
        PROVE  c = d => answer'[c] = "open" /\ copies'[c] = 0
    BY <2>2 DEF Promise!Begin, TypeOK
  <2>3. ASSUME NEW d \in Callers, Promise!Take(d)
        PROVE  c = d => answer'[c] = "open" /\ copies'[c] = 1
    BY <2>3 DEF Promise!Take, TypeOK
  <2>4. ASSUME NEW d \in Callers, Promise!Return(d)
        PROVE  c = d => /\ answer[c] = "open" /\ answer'[c] \in Reports(copies[c])
                        /\ copies'[c] = copies[c]
    BY <2>4 DEF Promise!Return, Promise!Reports, Reports, TypeOK
  <2>5. ASSUME NEW d \in Callers, c # d, Promise!Begin(d) \/ Promise!Take(d) \/ Promise!Return(d)
        PROVE  answer'[c] = answer[c] /\ copies'[c] = copies[c]
    BY <2>5 DEF Promise!Begin, Promise!Take, Promise!Return, TypeOK
  <2>6. "open" \notin Answers
    BY DEF Answers
  <2> QED
    BY <2>1, <2>2, <2>3, <2>4, <2>5, <2>6 DEF Promise!Next, Reported
<1>3. Reported => ReportsExpected
  <2> SUFFICES ASSUME Reported, NEW c \in Callers, answer[c] \in Answers
               PROVE  [took |-> copies[c] > 0, answer |-> answer[c]] \in Outcomes(TRUE)
    BY DEF ReportsExpected
  <2>1. copies[c] \in {0, 1} /\ answer[c] \in Reports(copies[c])
    BY DEF Reported, Answers
  <2>2. CASE copies[c] = 0
    <3>1. answer[c] \in {"terminal", "transient", "limited"}
      BY <2>1, <2>2 DEF Reports
    <3>2. [took |-> FALSE, answer |-> answer[c]] \in Outcomes(TRUE)
      BY <3>1 DEF Outcomes
    <3>3. (copies[c] > 0) = FALSE
      BY <2>2
    <3> QED
      BY Zenon, <3>2, <3>3
  <2>3. CASE copies[c] = 1
    <3>1. answer[c] \in {"ok", "transient"}
      BY <2>1, <2>3 DEF Reports
    <3>2. [took |-> TRUE, answer |-> answer[c]] \in Outcomes(TRUE)
      BY <3>1 DEF Outcomes
    <3>3. (copies[c] > 0) = TRUE
      BY <2>3
    <3> QED
      BY Zenon, <3>2, <3>3
  <2> QED
    BY <2>1, <2>2, <2>3
<1> QED
  BY <1>1, <1>2, <1>3, CallKeepsPromise, TypeCorrect, PTL DEF KeepsPromise, Promise!Safety

=============================================================================
