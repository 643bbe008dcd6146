---------------------------- MODULE Credentials ----------------------------
(***************************************************************************)
(* The credentials of one X account on one server (credential.go,          *)
(* oauth.go, maybeRefreshXCredential of scheduler.go): connecting it with  *)
(* OAuth, refreshing its tokens before a publish, deleting it.  The rows   *)
(* are shared by OAuth callbacks, the scheduler, publish_now calls and     *)
(* delete calls; each of them looks a row up and writes it in a later      *)
(* statement.                                                              *)
(*                                                                         *)
(* Abstractions.  A pair of an access and a refresh token is a number,     *)
(* issued in order.  Encryption is left out: a row holds its tokens.  The  *)
(* life of an access token is fresh, near its expiry, or expired.          *)
(* Mastodon and LinkedIn connect in the same way and never refresh.        *)
(***************************************************************************)
EXTENDS Naturals

CONSTANTS
  Ids,         \* ids of credential rows; an id is never reused
  NoId,        \* no row
  Posts,       \* posts of this account
  States,      \* OAuth state tokens; never reused
  NoState,     \* no state
  Callbacks,   \* concurrent requests to /oauth/x/callback
  Publishers,  \* the scheduler and concurrent publish_now calls
  EnforceFK,   \* TRUE: Postgres; FALSE: SQLite with foreign keys off
  MaxTokens,   \* bound: token pairs X issues
  MaxFaults    \* bound: failed statements, lost answers of X, process crashes

ASSUME NoIdAssumption == NoId \notin Ids /\ NoState \notin States
ASSUME SwitchAssumption == EnforceFK \in BOOLEAN
ASSUME BoundAssumption == MaxTokens \in Nat /\ MaxFaults \in Nat

VARIABLES
  \* The database.
  rows,        \* smeldr_social_credentials
  posts,       \* status and credential_id of each post
  open,        \* rows of smeldr_social_oauth_states
  \* The requests in progress.
  callbacks,   \* each callback
  publishers,  \* each publication
  deleting,    \* the credential whose posts a delete call counted as none
  \* X.
  rotates,     \* a refresh answers a new refresh token and spends the one it used
  issued,      \* token pairs issued so far
  usable,      \* refresh tokens X accepts
  expiry,      \* the life of each access token
  \* Time.
  stale,       \* states older than oauthStateTTL
  born,        \* states issued so far
  \* History.
  uses,        \* callbacks that passed the check of each state
  lost,        \* spent refresh tokens whose replacement did not reach their row
  faultsLeft   \* bound

database == <<rows, posts, open>>
requests == <<callbacks, publishers, deleting>>
platform == <<rotates, issued, usable, expiry>>
time     == <<stale, born>>
history  == <<uses, lost>>
vars == <<database, requests, platform, time, history, faultsLeft>>

Tokens == 0..MaxTokens  \* 0 is no token

Absent == [status |-> "absent", access |-> 0, refresh |-> 0]

Rows == [status: {"absent", "stored", "deleted"}, access: Tokens, refresh: Tokens]

IdleCallback == [pc |-> "idle", state |-> NoState, pair |-> 0, target |-> NoId]

IdlePublisher == [pc |-> "idle", post |-> NoId, row |-> NoId, access |-> 0, refresh |-> 0,
                  pair |-> 0, target |-> NoId]

TypeOK ==
  /\ rows \in [Ids -> Rows]
  /\ posts \in [Posts -> [status: {"unborn", "scheduled", "published", "failed"},
                          cred: Ids \cup {NoId}]]
  /\ open \subseteq States /\ stale \subseteq States /\ born \subseteq States
  /\ callbacks \in [Callbacks -> [pc: {"idle", "delete", "exchange", "lookup", "write"},
                                  state: States \cup {NoState}, pair: Tokens,
                                  target: Ids \cup {NoId}]]
  /\ publishers \in [Publishers -> [pc: {"idle", "check", "lookup", "write", "publish"},
                                    post: Posts \cup {NoId}, row: Ids \cup {NoId},
                                    access: Tokens, refresh: Tokens, pair: Tokens,
                                    target: Ids \cup {NoId}]]
  /\ deleting \in Ids \cup {NoId}
  /\ rotates \in BOOLEAN
  /\ issued \in Tokens
  /\ usable \subseteq 1..issued
  /\ expiry \in [1..MaxTokens -> {"fresh", "near", "expired"}]
  /\ uses \in [States -> Nat]
  /\ lost \subseteq 1..MaxTokens
  /\ faultsLeft \in Nat

Init ==
  /\ rows = [i \in Ids |-> Absent]
  /\ posts = [p \in Posts |-> [status |-> "unborn", cred |-> NoId]]
  /\ open = {} /\ stale = {} /\ born = {}
  /\ callbacks = [b \in Callbacks |-> IdleCallback]
  /\ publishers = [u \in Publishers |-> IdlePublisher]
  /\ deleting = NoId
  /\ rotates \in BOOLEAN
  /\ issued = 0
  /\ usable = {}
  /\ expiry = [t \in 1..MaxTokens |-> "fresh"]
  /\ uses = [s \in States |-> 0]
  /\ lost = {}
  /\ faultsLeft = MaxFaults

NoFault == UNCHANGED faultsLeft

Fault == faultsLeft > 0 /\ faultsLeft' = faultsLeft - 1

Stored(i) == i \in Ids /\ rows[i].status = "stored"

Uses(p, i) == posts[p].status # "unborn" /\ posts[p].cred = i

-----------------------------------------------------------------------------
(***************************************************************************)
(* X issues pairs; external.                                               *)
(***************************************************************************)

\* A new authorization.
Authorize ==
  /\ issued < MaxTokens
  /\ issued' = issued + 1
  /\ usable' = usable \cup {issued + 1}
  /\ UNCHANGED <<rotates, expiry>>

\* A refresh with the token spent: a new access token, and when X rotates a
\* new refresh token in place of spent.
Grant(spent) ==
  /\ spent \in usable
  /\ issued < MaxTokens
  /\ issued' = issued + 1
  /\ usable' = IF rotates THEN (usable \ {spent}) \cup {issued + 1} ELSE usable
  /\ UNCHANGED <<rotates, expiry>>

\* An access token gets older; one nobody holds any more may as well not.
Age(t) ==
  /\ \/ \E i \in Ids : Stored(i) /\ rows[i].access = t
     \/ \E u \in Publishers : t \in {publishers[u].access, publishers[u].pair}
     \/ \E b \in Callbacks : callbacks[b].pair = t
  /\ expiry[t] # "expired"
  /\ expiry' = [expiry EXCEPT ![t] = IF @ = "fresh" THEN "near" ELSE "expired"]
  /\ UNCHANGED <<database, requests, rotates, issued, usable, time, history, faultsLeft>>

-----------------------------------------------------------------------------
(***************************************************************************)
(* upsertCredentialByInstance: a SELECT by (platform, instance_url), and   *)
(* in a later statement the UPDATE of the row it found or an INSERT.       *)
(***************************************************************************)

Found == {i \in Ids : Stored(i)}

\* Any of the matching rows, or none.
LookupResult(i) == IF Found = {} THEN i = NoId ELSE i \in Found

\* The write succeeds, and the pair is in the row into.  An UPDATE of a row
\* deleted in the meantime changes nothing and is no error.
Upsert(target, access, refresh, into) ==
  LET row == [status |-> "stored", access |-> access, refresh |-> refresh] IN
  /\ into \in Ids
  /\ IF target = NoId THEN rows[into].status = "absent" ELSE into = target
  /\ rows' = IF target = NoId \/ Stored(target) THEN [rows EXCEPT ![into] = row] ELSE rows

-----------------------------------------------------------------------------
(***************************************************************************)
(* Connecting.                                                             *)
(***************************************************************************)

\* MCPCreate of the credential module.
MCPCreate(s) ==
  /\ s \notin born
  /\ born' = born \cup {s}
  /\ open' = open \cup {s}
  /\ UNCHANGED <<rows, posts, requests, platform, stale, history, faultsLeft>>

\* The age of a state matters until its row is gone and nobody holds it.
StateExpires(s) ==
  /\ s \in open \/ \E b \in Callbacks : callbacks[b].pc = "delete" /\ callbacks[b].state = s
  /\ s \notin stale
  /\ stale' = stale \cup {s}
  /\ UNCHANGED <<database, requests, platform, born, history, faultsLeft>>

purgeExpiredOAuthStates ==
  /\ open \cap stale # {}
  /\ open' = open \ stale
  /\ UNCHANGED <<rows, posts, requests, platform, time, history, faultsLeft>>

\* handleXCallback: the SELECT of consumeOAuthState.
handleXCallback(b, s) ==
  /\ callbacks[b] = IdleCallback
  /\ s \in open
  /\ callbacks' = [callbacks EXCEPT ![b].pc = "delete", ![b].state = s]
  /\ UNCHANGED <<database, publishers, deleting, platform, time, history, faultsLeft>>

\* Its DELETE, whose result nobody looks at, and the test of the age.
consumeOAuthState(b) ==
  LET s == callbacks[b].state IN
  /\ callbacks[b].pc = "delete"
  /\ \/ open' = open \ {s} /\ NoFault
     \/ Fault /\ UNCHANGED open
  /\ IF s \in stale
     THEN callbacks' = [callbacks EXCEPT ![b] = IdleCallback] /\ UNCHANGED uses
     ELSE /\ callbacks' = [callbacks EXCEPT ![b].pc = "exchange"]
          /\ uses' = [uses EXCEPT ![s] = @ + 1]
  /\ UNCHANGED <<rows, posts, publishers, deleting, platform, time, lost>>

exchangeCode(b) ==
  /\ callbacks[b].pc = "exchange"
  /\ \/ /\ Authorize
        /\ callbacks' = [callbacks EXCEPT ![b].pc = "lookup", ![b].pair = issued + 1]
     \/ /\ callbacks' = [callbacks EXCEPT ![b] = IdleCallback]
        /\ UNCHANGED platform
  /\ UNCHANGED <<database, publishers, deleting, time, history, faultsLeft>>

CallbackLookup(b) ==
  /\ callbacks[b].pc = "lookup"
  /\ \/ /\ \E i \in Ids \cup {NoId} :
             /\ LookupResult(i)
             /\ callbacks' = [callbacks EXCEPT ![b].pc = "write", ![b].target = i]
        /\ NoFault
     \/ Fault /\ callbacks' = [callbacks EXCEPT ![b] = IdleCallback]
  /\ UNCHANGED <<database, publishers, deleting, platform, time, history>>

CallbackWrite(b) ==
  LET r == callbacks[b] IN
  /\ r.pc = "write"
  /\ callbacks' = [callbacks EXCEPT ![b] = IdleCallback]
  /\ \/ (\E into \in Ids : Upsert(r.target, r.pair, r.pair, into)) /\ NoFault
     \/ Fault /\ UNCHANGED rows
  /\ UNCHANGED <<posts, open, publishers, deleting, platform, time, history>>

-----------------------------------------------------------------------------
(***************************************************************************)
(* Publishing.                                                             *)
(***************************************************************************)

\* A client creates a post.  Postgres insists on the credential.
CreatePost(p, i) ==
  /\ posts[p].status = "unborn"
  /\ Stored(i) \/ (~EnforceFK /\ rows[i].status = "deleted")
  /\ posts' = [posts EXCEPT ![p] = [status |-> "scheduled", cred |-> i]]
  /\ UNCHANGED <<rows, open, requests, platform, time, history, faultsLeft>>

\* The publication of a post starts with getCredential.
getCredential(u, p) ==
  LET i == posts[p].cred IN
  /\ publishers[u] = IdlePublisher
  /\ posts[p].status = "scheduled"
  /\ Stored(i)
  /\ publishers' = [publishers EXCEPT ![u] =
       [IdlePublisher EXCEPT !.pc = "check", !.post = p, !.row = i,
                             !.access = rows[i].access, !.refresh = rows[i].refresh]]
  /\ UNCHANGED <<database, callbacks, deleting, platform, time, history, faultsLeft>>

Goto(u, pc) == publishers' = [publishers EXCEPT ![u].pc = pc]

NeedsRefresh(u) == expiry[publishers[u].access] # "fresh"

SkipRefresh(u) ==
  /\ publishers[u].pc = "check"
  /\ ~NeedsRefresh(u)
  /\ Goto(u, "publish")
  /\ UNCHANGED <<database, callbacks, deleting, platform, time, history, faultsLeft>>

\* Mutation: the row keeps the old refresh token whatever the answer says.
RefreshTokenForgetful(u) == publishers[u].refresh

\* The refresh token to store: that of the answer, or the old one if it has none.
RefreshToken(u) == IF rotates THEN publishers[u].pair ELSE publishers[u].refresh

\* The replacement of the token that publisher u used is gone for its row.
Lose(u) == lost' = IF rotates THEN lost \cup {publishers[u].refresh} ELSE lost

\* refreshXToken.  Refused, or failed on the way: the publication goes on with
\* the tokens it read.
refreshXToken(u) ==
  LET r == publishers[u] IN
  /\ r.pc = "check"
  /\ NeedsRefresh(u)
  /\ \/ /\ Grant(r.refresh)
        /\ publishers' = [publishers EXCEPT ![u].pc = "lookup", ![u].pair = issued + 1]
        /\ UNCHANGED <<lost, faultsLeft>>
     \/ /\ Grant(r.refresh)  \* granted, and the answer is lost
        /\ Fault
        /\ Goto(u, "publish")
        /\ Lose(u)
     \/ /\ Goto(u, "publish")
        /\ UNCHANGED <<platform, lost, faultsLeft>>
  /\ UNCHANGED <<database, callbacks, deleting, time, uses>>

PublisherLookup(u) ==
  /\ publishers[u].pc = "lookup"
  /\ \/ /\ \E i \in Ids \cup {NoId} :
             /\ LookupResult(i)
             /\ publishers' = [publishers EXCEPT ![u].pc = "write", ![u].target = i]
        /\ UNCHANGED lost
        /\ NoFault
     \/ /\ Fault
        /\ Goto(u, "publish")
        /\ Lose(u)
  /\ UNCHANGED <<database, callbacks, deleting, platform, time, uses>>

\* The pair is stored in the row the lookup found, which need not be the row
\* it was refreshed for.  If that fails the publication has the old tokens.
PublisherWrite(u) ==
  LET r == publishers[u] IN
  /\ r.pc = "write"
  /\ \/ /\ \E into \in Ids : Upsert(r.target, r.pair, RefreshToken(u), into)
        /\ publishers' = [publishers EXCEPT ![u].pc = "publish", ![u].access = r.pair]
        /\ IF r.target = r.row THEN UNCHANGED lost ELSE Lose(u)
        /\ NoFault
     \/ /\ Fault
        /\ Goto(u, "publish")
        /\ Lose(u)
        /\ UNCHANGED rows
  /\ UNCHANGED <<posts, open, callbacks, deleting, platform, time, uses>>

\* Mutation: a status no query knows.
markPostFailedMisspelt(p) == posts' = [posts EXCEPT ![p].status = "error"]

markPostFailed(p) == posts' = [posts EXCEPT ![p].status = "failed"]

\* The publication, and the mark of the post.  X answers 401 to an expired
\* token, which is terminal.
Publish(u) ==
  LET r == publishers[u] IN
  /\ r.pc = "publish"
  /\ publishers' = [publishers EXCEPT ![u] = IdlePublisher]
  /\ \/ /\ expiry[r.access] # "expired"
        /\ posts' = [posts EXCEPT ![r.post].status = "published"]
     \/ /\ expiry[r.access] = "expired"
        /\ markPostFailed(r.post)
     \/ UNCHANGED posts  \* a transient error: retried later
  /\ UNCHANGED <<rows, open, callbacks, deleting, platform, time, history, faultsLeft>>

-----------------------------------------------------------------------------
(***************************************************************************)
(* Deleting: posts are counted, and in a later statement the row goes.     *)
(***************************************************************************)

CountPosts(i) ==
  /\ deleting = NoId
  /\ Stored(i)
  /\ ~\E p \in Posts : Uses(p, i)
  /\ deleting' = i
  /\ UNCHANGED <<database, callbacks, publishers, platform, time, history, faultsLeft>>

deleteCredential ==
  /\ deleting # NoId
  /\ deleting' = NoId
  /\ rows' = IF EnforceFK /\ \E p \in Posts : Uses(p, deleting)
             THEN rows ELSE [rows EXCEPT ![deleting].status = "deleted"]
  /\ UNCHANGED <<posts, open, callbacks, publishers, platform, time, history, faultsLeft>>

-----------------------------------------------------------------------------
\* A crash and a restart: requests are gone, and a pair in hand with them.
Crash ==
  /\ Fault
  /\ callbacks' = [b \in Callbacks |-> IdleCallback]
  /\ publishers' = [u \in Publishers |-> IdlePublisher]
  /\ deleting' = NoId
  /\ lost' = lost \cup {publishers[u].refresh : u \in
       {v \in Publishers : rotates /\ publishers[v].pc \in {"lookup", "write"}}}
  /\ UNCHANGED <<database, platform, time, uses>>

Next ==
  \/ \E s \in States : MCPCreate(s) \/ StateExpires(s)
  \/ purgeExpiredOAuthStates
  \/ \E b \in Callbacks :
       \/ \E s \in States : handleXCallback(b, s)
       \/ consumeOAuthState(b) \/ exchangeCode(b) \/ CallbackLookup(b) \/ CallbackWrite(b)
  \/ \E p \in Posts, i \in Ids : CreatePost(p, i)
  \/ \E u \in Publishers :
       \/ \E p \in Posts : getCredential(u, p)
       \/ SkipRefresh(u) \/ refreshXToken(u) \/ PublisherLookup(u) \/ PublisherWrite(u)
       \/ Publish(u)
  \/ \E i \in Ids : CountPosts(i)
  \/ deleteCredential
  \/ \E t \in 1..MaxTokens : Age(t)
  \/ Crash

Spec == Init /\ [][Next]_vars

-----------------------------------------------------------------------------
(***************************************************************************)
(* Properties.                                                             *)
(***************************************************************************)

\* The refresh token of a stored credential is one X accepts, or its
\* replacement is on its way to the row.  Racing refreshes, reconnections and
\* deletions cannot kill a credential; with a platform that rotates, a lost
\* answer, a failed statement, a crash and a second row of the same account
\* can, until a reconnection writes the row.
StoredTokenUsable ==
  \A i \in Ids :
    Stored(i) =>
      \/ rows[i].refresh \in usable
      \/ rotates /\ \/ rows[i].refresh \in lost
                    \/ \E u \in Publishers :
                         /\ publishers[u].pc \in {"lookup", "write"}
                         /\ publishers[u].row = i
                         /\ publishers[u].refresh = rows[i].refresh

\* What the documentation says and the code does not do: consumeOAuthState's
\* "state is single-use".
StateIsSingleUse == \A s \in States : uses[s] <= 1

=============================================================================
