-------------------------- MODULE CredentialProofs --------------------------
(***************************************************************************)
(* What racing callbacks, refreshes and deletions cannot do to the tokens  *)
(* of an X account, for any number of rows, requests, posts, states and    *)
(* token pairs.  The invariant follows each refresh token from its issue:  *)
(* a pair starts in one pair of hands, moves to one row, and is read from  *)
(* there by the publications of that row; so when X rotates, the one       *)
(* refresh that spends a token is on behalf of the one row that has it.    *)
(***************************************************************************)
EXTENDS Credentials, TLAPS

USE DEF vars, database, requests, platform, time, history

\* A callback, or a publication, has a pair that is not in a row yet.
HasPair(request) == request.pc \in {"lookup", "write"}

\* The refresh tokens of rows and publications are issued; a stored row and a
\* publication in progress have one, and the publication has its row.
TokensIssued ==
  /\ \A i \in Ids : rows[i].refresh <= issued /\ (Stored(i) => rows[i].refresh # 0)
  /\ \A u \in Publishers :
       /\ publishers[u].refresh <= issued
       /\ publishers[u].pc # "idle" => publishers[u].refresh # 0 /\ publishers[u].row \in Ids

\* A pair in hand is in no row, was read by nobody and is in no other hands, ...
InNoRow(pair) ==
  /\ \A i \in Ids : rows[i].refresh # pair
  /\ \A u \in Publishers : publishers[u].refresh # pair

CallbackPairs ==
  \A b \in Callbacks : HasPair(callbacks[b]) =>
    /\ callbacks[b].pair \in usable
    /\ InNoRow(callbacks[b].pair)
    /\ \A c \in Callbacks \ {b} : HasPair(callbacks[c]) => callbacks[c].pair # callbacks[b].pair

PublisherPairs ==
  \A u \in Publishers : HasPair(publishers[u]) =>
    /\ publishers[u].pair \in 1..issued /\ (rotates => publishers[u].pair \in usable)
    /\ InNoRow(publishers[u].pair)
    /\ \A v \in Publishers \ {u} :
         HasPair(publishers[v]) => publishers[v].pair # publishers[u].pair
    /\ \A b \in Callbacks : HasPair(callbacks[b]) => callbacks[b].pair # publishers[u].pair

\* ... so when X rotates a refresh token is in one row, ...
OneRow ==
  rotates =>
    /\ \A i, j \in Ids : rows[i].refresh = rows[j].refresh /\ rows[i].refresh # 0 => i = j
    /\ \A u \in Publishers, i \in Ids :
         rows[i].refresh = publishers[u].refresh /\ rows[i].refresh # 0 => publishers[u].row = i

\* ... and when it does not, none is ever spent.
NoneSpent ==
  ~rotates => \A u \in Publishers : publishers[u].pc # "idle" => publishers[u].refresh \in usable

Inv ==
  /\ TypeOK /\ TokensIssued /\ CallbackPairs /\ PublisherPairs /\ OneRow /\ NoneSpent
  /\ StoredTokenUsable

-----------------------------------------------------------------------------
(***************************************************************************)
(* Types, in groups that most actions leave alone.                         *)
(***************************************************************************)

RowTypes == rows \in [Ids -> Rows]

PostTypes ==
  posts \in [Posts -> [status: {"unborn", "scheduled", "published", "failed"},
                       cred: Ids \cup {NoId}]]

StateTypes ==
  /\ open \subseteq States /\ stale \subseteq States /\ born \subseteq States
  /\ uses \in [States -> Nat]

CallbackTypes ==
  callbacks \in [Callbacks -> [pc: {"idle", "delete", "exchange", "lookup", "write"},
                               state: States \cup {NoState}, pair: Tokens,
                               target: Ids \cup {NoId}]]

PublisherTypes ==
  publishers \in [Publishers -> [pc: {"idle", "check", "lookup", "write", "publish"},
                                 post: Posts \cup {NoId}, row: Ids \cup {NoId},
                                 access: Tokens, refresh: Tokens, pair: Tokens,
                                 target: Ids \cup {NoId}]]

TokenTypes ==
  /\ rotates \in BOOLEAN /\ issued \in Tokens /\ usable \subseteq 1..issued
  /\ lost \subseteq 1..MaxTokens

AgeTypes == expiry \in [1..MaxTokens -> {"fresh", "near", "expired"}]

OtherTypes == deleting \in Ids \cup {NoId} /\ faultsLeft \in Nat

LEMMA TypeParts ==
  /\ TypeOK <=> /\ RowTypes /\ PostTypes /\ StateTypes /\ CallbackTypes /\ PublisherTypes
                /\ TokenTypes /\ AgeTypes /\ OtherTypes
  /\ TypeOK' <=> /\ RowTypes' /\ PostTypes' /\ StateTypes' /\ CallbackTypes' /\ PublisherTypes'
                 /\ TokenTypes' /\ AgeTypes' /\ OtherTypes'
BY DEF TypeOK, RowTypes, PostTypes, StateTypes, CallbackTypes, PublisherTypes, TokenTypes,
       AgeTypes, OtherTypes

LEMMA TypesKept ==
  /\ UNCHANGED rows => (RowTypes => RowTypes')
  /\ UNCHANGED posts => (PostTypes => PostTypes')
  /\ UNCHANGED <<open, stale, born, uses>> => (StateTypes => StateTypes')
  /\ UNCHANGED callbacks => (CallbackTypes => CallbackTypes')
  /\ UNCHANGED publishers => (PublisherTypes => PublisherTypes')
  /\ UNCHANGED <<rotates, issued, usable, lost>> => (TokenTypes => TokenTypes')
  /\ UNCHANGED expiry => (AgeTypes => AgeTypes')
  /\ UNCHANGED <<deleting, faultsLeft>> => (OtherTypes => OtherTypes')
BY DEF RowTypes, PostTypes, StateTypes, CallbackTypes, PublisherTypes, TokenTypes,
       AgeTypes, OtherTypes

LEMMA Bounds == MaxTokens \in Nat /\ MaxFaults \in Nat
BY BoundAssumption

\* What the provers need of the records.
LEMMA Fields ==
  ASSUME TypeOK
  PROVE  /\ issued \in Nat /\ issued <= MaxTokens
         /\ \A i \in Ids : rows[i].refresh \in Nat /\ rows[i].access \in Tokens
         /\ \A u \in Publishers : publishers[u].refresh \in Nat /\ publishers[u].pair \in Nat
         /\ \A b \in Callbacks : callbacks[b].pair \in Nat
<1>1. issued \in Nat /\ issued <= MaxTokens
  BY Bounds, TypeParts DEF TokenTypes, Tokens
<1>2. \A i \in Ids : rows[i].refresh \in Nat /\ rows[i].access \in Tokens
  BY Bounds, TypeParts DEF RowTypes, Rows, Tokens
<1>3. \A u \in Publishers : publishers[u].refresh \in Nat /\ publishers[u].pair \in Nat
  BY Bounds, TypeParts DEF PublisherTypes, Tokens
<1>4. \A b \in Callbacks : callbacks[b].pair \in Nat
  BY Bounds, TypeParts DEF CallbackTypes, Tokens
<1> QED
  BY <1>1, <1>2, <1>3, <1>4

-----------------------------------------------------------------------------
(***************************************************************************)
(* The initial states.                                                     *)
(***************************************************************************)

LEMMA InitInv == Init => Inv
<1> SUFFICES ASSUME Init PROVE Inv
  OBVIOUS
<1>0. 0 \in Tokens
  BY Bounds DEF Tokens
<1>1. RowTypes /\ PostTypes
  BY <1>0 DEF Init, RowTypes, PostTypes, Rows, Absent
<1>2. StateTypes
  BY DEF Init, StateTypes
<1>3. CallbackTypes
  BY <1>0 DEF Init, CallbackTypes, IdleCallback
<1>4. PublisherTypes
  BY <1>0 DEF Init, PublisherTypes, IdlePublisher
<1>5. TokenTypes /\ AgeTypes /\ OtherTypes
  BY <1>0, Bounds DEF Init, TokenTypes, AgeTypes, OtherTypes
<1>6. TypeOK
  BY <1>1, <1>2, <1>3, <1>4, <1>5, TypeParts
<1>7. /\ \A i \in Ids : rows[i].refresh = 0 /\ ~Stored(i)
      /\ \A u \in Publishers : publishers[u].pc = "idle" /\ publishers[u].refresh = 0
      /\ \A b \in Callbacks : callbacks[b].pc = "idle"
      /\ issued = 0
  BY DEF Init, Absent, Stored, IdlePublisher, IdleCallback
<1> QED
  BY <1>6, <1>7 DEF Inv, TokensIssued, CallbackPairs, PublisherPairs, OneRow, NoneSpent,
                    StoredTokenUsable, HasPair

-----------------------------------------------------------------------------
(***************************************************************************)
(* Steps that issue no pair, spend none and move none: every request goes  *)
(* on with what it has, or gives it up.                                    *)
(***************************************************************************)

\* Where the tokens are, which is all that Inv says beyond TypeOK.
Tracked ==
  /\ TokensIssued /\ CallbackPairs /\ PublisherPairs /\ OneRow /\ NoneSpent
  /\ StoredTokenUsable

RowsKeepTokens ==
  \A i \in Ids : rows'[i].refresh = rows[i].refresh /\ (Stored(i)' => Stored(i))

CallbacksGoOn ==
  \A b \in Callbacks : HasPair(callbacks'[b]) =>
    HasPair(callbacks[b]) /\ callbacks'[b].pair = callbacks[b].pair

GoesOn(u) ==
  /\ publishers'[u].refresh = publishers[u].refresh
  /\ publishers'[u].row = publishers[u].row
  /\ publishers'[u].pair = publishers[u].pair
  /\ publishers'[u].pc # "idle" => publishers[u].pc # "idle"

Ends(u) == publishers'[u].pc = "idle" /\ publishers'[u].refresh = 0

\* A publication that gives up its pair has lost the replacement of its token.
PublishersGoOn ==
  \A u \in Publishers :
    /\ GoesOn(u) \/ Ends(u)
    /\ HasPair(publishers'[u]) => HasPair(publishers[u])
    /\ HasPair(publishers[u]) /\ ~HasPair(publishers'[u]) /\ rotates =>
         publishers[u].refresh \in lost'

LEMMA CalmStep ==
  ASSUME Inv, RowsKeepTokens, CallbacksGoOn, PublishersGoOn, lost \subseteq lost',
         UNCHANGED <<rotates, issued, usable>>
  PROVE  Tracked'
<1> USE DEF Inv
<1>0. \A u \in Publishers : HasPair(publishers'[u]) => GoesOn(u)
  BY DEF PublishersGoOn, HasPair, Ends
<1>1. TokensIssued'
  BY Fields DEF TokensIssued, RowsKeepTokens, PublishersGoOn, GoesOn, Ends
<1>2. ASSUME NEW pair \in Nat, pair # 0, InNoRow(pair)
      PROVE  InNoRow(pair)'
  BY <1>2 DEF InNoRow, RowsKeepTokens, PublishersGoOn, GoesOn, Ends
<1>3. CallbackPairs'
  <2> SUFFICES ASSUME NEW b \in Callbacks, HasPair(callbacks'[b])
               PROVE  /\ callbacks'[b].pair \in usable'
                      /\ InNoRow(callbacks[b].pair)' /\ callbacks'[b].pair = callbacks[b].pair
                      /\ \A c \in Callbacks \ {b} :
                           HasPair(callbacks'[c]) => callbacks'[c].pair # callbacks'[b].pair
    BY DEF CallbackPairs, InNoRow
  <2>1. callbacks[b].pair \in Nat /\ callbacks[b].pair # 0
    BY TypeParts DEF CallbackPairs, CallbacksGoOn, TokenTypes, Tokens
  <2>2. InNoRow(callbacks[b].pair)'
    BY <1>2, <2>1 DEF CallbackPairs, CallbacksGoOn
  <2> QED
    BY <2>2 DEF CallbackPairs, CallbacksGoOn
<1>4. PublisherPairs'
  <2> SUFFICES ASSUME NEW u \in Publishers, HasPair(publishers'[u])
               PROVE  /\ publishers'[u].pair \in 1..issued
                      /\ rotates => publishers'[u].pair \in usable
                      /\ InNoRow(publishers[u].pair)'
                      /\ publishers'[u].pair = publishers[u].pair
                      /\ \A v \in Publishers \ {u} :
                           HasPair(publishers'[v]) => publishers'[v].pair # publishers'[u].pair
                      /\ \A b \in Callbacks :
                           HasPair(callbacks'[b]) => callbacks'[b].pair # publishers'[u].pair
    BY DEF PublisherPairs, InNoRow
  <2>1. HasPair(publishers[u]) /\ publishers'[u].pair = publishers[u].pair
    BY <1>0 DEF PublishersGoOn, GoesOn
  <2>2. publishers[u].pair \in Nat /\ publishers[u].pair # 0
    BY <2>1, Fields DEF PublisherPairs
  <2>3. InNoRow(publishers[u].pair)'
    BY <1>2, <2>1, <2>2 DEF PublisherPairs
  <2>4. \A v \in Publishers \ {u} :
          HasPair(publishers'[v]) => publishers'[v].pair # publishers'[u].pair
    BY <1>0, <2>1 DEF PublisherPairs, PublishersGoOn, GoesOn
  <2> QED
    BY <2>1, <2>3, <2>4 DEF PublisherPairs, CallbacksGoOn
<1>5. OneRow'
  BY DEF OneRow, RowsKeepTokens, PublishersGoOn, GoesOn, Ends
<1>6. NoneSpent'
  BY DEF NoneSpent, PublishersGoOn, GoesOn, Ends
<1>7. StoredTokenUsable'
  BY DEF StoredTokenUsable, RowsKeepTokens, PublishersGoOn, GoesOn, Ends, HasPair, Stored
<1> QED
  BY <1>1, <1>3, <1>4, <1>5, <1>6, <1>7 DEF Tracked

-----------------------------------------------------------------------------
(***************************************************************************)
(* Steps that issue, spend or move a pair.                                 *)
(***************************************************************************)

\* A new pair is above everything there is.
LEMMA NewPair ==
  ASSUME Inv, issued < MaxTokens
  PROVE  /\ issued + 1 \in Tokens /\ issued + 1 \in 1..(issued + 1)
         /\ 1..issued \subseteq 1..(issued + 1)
         /\ issued + 1 \notin usable
         /\ InNoRow(issued + 1)
         /\ \A b \in Callbacks : HasPair(callbacks[b]) => callbacks[b].pair # issued + 1
         /\ \A u \in Publishers : HasPair(publishers[u]) => publishers[u].pair # issued + 1
<1>1. TypeOK /\ TokensIssued /\ CallbackPairs /\ PublisherPairs
  BY DEF Inv
<1>2. issued \in Nat /\ usable \subseteq 1..issued
  BY <1>1, Fields, TypeParts DEF TokenTypes
<1>3. issued + 1 \in Tokens
  BY <1>2, Bounds DEF Tokens
<1>4. issued + 1 \notin 1..issued
  BY <1>2
<1>5. InNoRow(issued + 1)
  BY <1>1, <1>2, Fields DEF TokensIssued, InNoRow
<1>6. \A b \in Callbacks : HasPair(callbacks[b]) => callbacks[b].pair \in 1..issued
  BY <1>1, <1>2 DEF CallbackPairs
<1>7. \A u \in Publishers : HasPair(publishers[u]) => publishers[u].pair \in 1..issued
  BY <1>1 DEF PublisherPairs
<1> QED
  BY <1>2, <1>3, <1>4, <1>5, <1>6, <1>7

\* exchangeCode that X answers.
LEMMA ExchangeStep ==
  ASSUME Inv, NEW b \in Callbacks, Authorize,
         HasPair(callbacks'[b]), callbacks'[b].pair = issued + 1,
         \A c \in Callbacks \ {b} : callbacks'[c] = callbacks[c],
         UNCHANGED <<rows, publishers, lost>>
  PROVE  Tracked'
<1> USE DEF Inv
<1>0. /\ issued < MaxTokens /\ issued' = issued + 1 /\ usable' = usable \cup {issued + 1}
      /\ UNCHANGED rotates
  BY DEF Authorize
<1>2. TokensIssued'
  BY <1>0, Fields DEF TokensIssued, Stored
<1>3. CallbackPairs'
  BY <1>0, NewPair DEF CallbackPairs, InNoRow
<1>4. PublisherPairs'
  BY <1>0, NewPair DEF PublisherPairs, InNoRow
<1>5. OneRow'
  BY <1>0 DEF OneRow
<1>6. NoneSpent'
  BY <1>0 DEF NoneSpent
<1>7. StoredTokenUsable'
  BY <1>0 DEF StoredTokenUsable, Stored
<1> QED
  BY <1>2, <1>3, <1>4, <1>5, <1>6, <1>7 DEF Tracked

\* A row takes the token of a pair in hand, or is left alone because it is gone.
RowTakes(into, token) ==
  \/ UNCHANGED rows
  \/ /\ rows'[into].refresh = token /\ Stored(into)'
     /\ \A i \in Ids \ {into} : rows'[i] = rows[i]

LEMMA UpsertWrites ==
  ASSUME Inv, NEW target, NEW access, NEW token, NEW into \in Ids,
         Upsert(target, access, token, into)
  PROVE  /\ RowTakes(into, token)
         /\ target # NoId => into = target /\ (Stored(into) => rows'[into].refresh = token)
BY TypeParts DEF Upsert, RowTakes, RowTypes, Stored, Inv

\* CallbackWrite that succeeds.
LEMMA ConnectStep ==
  ASSUME Inv, NEW b \in Callbacks, NEW into \in Ids, HasPair(callbacks[b]),
         RowTakes(into, callbacks[b].pair),
         callbacks' = [callbacks EXCEPT ![b] = IdleCallback],
         UNCHANGED <<publishers, rotates, issued, usable, lost>>
  PROVE  Tracked'
<1> USE DEF Inv
<1> DEFINE pair == callbacks[b].pair
<1>0. /\ pair \in usable /\ pair \in 1..issued /\ InNoRow(pair)
      /\ \A c \in Callbacks \ {b} : HasPair(callbacks[c]) => callbacks[c].pair # pair
      /\ \A u \in Publishers : HasPair(publishers[u]) => publishers[u].pair # pair
  BY TypeParts DEF CallbackPairs, PublisherPairs, TokenTypes
<1>1. /\ ~HasPair(callbacks'[b])
      /\ \A c \in Callbacks \ {b} : callbacks'[c] = callbacks[c]
  BY TypeParts DEF CallbackTypes, HasPair, IdleCallback
<1>2. TokensIssued'
  BY <1>0, Fields DEF TokensIssued, Stored, RowTakes
<1>3. CallbackPairs'
  BY <1>0, <1>1 DEF CallbackPairs, InNoRow, RowTakes
<1>4. PublisherPairs'
  BY <1>0, <1>1 DEF PublisherPairs, InNoRow, RowTakes
<1>5. OneRow'
  BY <1>0 DEF OneRow, InNoRow, RowTakes
<1>6. NoneSpent'
  BY DEF NoneSpent
<1>7. StoredTokenUsable'
  BY <1>0 DEF StoredTokenUsable, Stored, RowTakes
<1> QED
  BY <1>2, <1>3, <1>4, <1>5, <1>6, <1>7 DEF Tracked

\* A publication reads the tokens of its row.
LEMMA ReadStep ==
  ASSUME Inv, NEW u \in Publishers, NEW p \in Posts, getCredential(u, p)
  PROVE  Tracked'
<1> USE DEF Inv
<1> DEFINE i == posts[p].cred
<1>0. i \in Ids /\ Stored(i) /\ rows[i].refresh # 0 /\ rows[i].refresh <= issued
  BY DEF getCredential, Stored, TokensIssued
<1>1. /\ publishers'[u].pc = "check" /\ publishers'[u].row = i
      /\ publishers'[u].refresh = rows[i].refresh
      /\ \A v \in Publishers \ {u} : publishers'[v] = publishers[v]
      /\ ~HasPair(publishers[u]) /\ ~HasPair(publishers'[u])
  BY TypeParts DEF getCredential, PublisherTypes, HasPair, IdlePublisher
<1>2. UNCHANGED <<rows, callbacks, rotates, issued, usable, lost>>
  BY DEF getCredential
<1>3. TokensIssued'
  BY <1>0, <1>1, <1>2, Fields DEF TokensIssued, Stored
<1>4. \A pair : InNoRow(pair) => InNoRow(pair)'
  BY <1>0, <1>1, <1>2 DEF InNoRow
<1>5. CallbackPairs'
  BY <1>1, <1>2, <1>4 DEF CallbackPairs, InNoRow
<1>6. PublisherPairs'
  BY <1>1, <1>2, <1>4 DEF PublisherPairs, InNoRow
<1>7. OneRow'
  BY <1>0, <1>1, <1>2 DEF OneRow
<1>8. NoneSpent'
  BY <1>0, <1>1, <1>2 DEF NoneSpent, StoredTokenUsable
<1>9. StoredTokenUsable'
  BY <1>1, <1>2 DEF StoredTokenUsable, Stored, HasPair
<1> QED
  BY <1>3, <1>5, <1>6, <1>7, <1>8, <1>9 DEF Tracked

\* A refresh that X grants: u has the new pair, or it was lost on the way.
LEMMA GrantStep ==
  ASSUME Inv, NEW u \in Publishers, publishers[u].pc = "check", Grant(publishers[u].refresh),
         publishers'[u].refresh = publishers[u].refresh,
         publishers'[u].row = publishers[u].row,
         \/ HasPair(publishers'[u]) /\ publishers'[u].pair = issued + 1
         \/ publishers'[u].pc = "publish" /\ (rotates => publishers[u].refresh \in lost'),
         \A v \in Publishers \ {u} : publishers'[v] = publishers[v],
         UNCHANGED <<rows, callbacks>>, lost \subseteq lost'
  PROVE  Tracked'
<1> USE DEF Inv
<1> DEFINE spent == publishers[u].refresh
<1>0. /\ issued < MaxTokens /\ issued' = issued + 1 /\ UNCHANGED rotates
      /\ ~rotates => usable' = usable
      /\ rotates => usable' = (usable \ {spent}) \cup {issued + 1}
  BY DEF Grant
<1>1. /\ ~HasPair(publishers[u]) /\ spent # 0
      /\ HasPair(publishers'[u]) \/ publishers'[u].pc = "publish"
  BY DEF HasPair, TokensIssued
<1>2. TokensIssued'
  BY <1>0, <1>1, Fields DEF TokensIssued, Stored
<1>3. \A pair : InNoRow(pair) <=> InNoRow(pair)'
  BY DEF InNoRow
<1>4. \A pair : InNoRow(pair) => pair # spent
  BY DEF InNoRow
<1>5. CallbackPairs'
  <2>1. \A b \in Callbacks : HasPair(callbacks[b]) =>
          /\ callbacks[b].pair \in usable' /\ InNoRow(callbacks[b].pair)
          /\ \A c \in Callbacks \ {b} :
               HasPair(callbacks[c]) => callbacks[c].pair # callbacks[b].pair
    BY <1>0, <1>4 DEF CallbackPairs
  <2> QED
    BY <2>1, <1>3 DEF CallbackPairs, InNoRow
<1>6. PublisherPairs'
  <2> SUFFICES ASSUME NEW v \in Publishers, HasPair(publishers'[v])
               PROVE  /\ publishers'[v].pair \in 1..issued'
                      /\ rotates => publishers'[v].pair \in usable'
                      /\ \E pair : pair = publishers'[v].pair /\ InNoRow(pair)
                      /\ \A w \in Publishers \ {v} :
                           HasPair(publishers'[w]) => publishers'[w].pair # publishers'[v].pair
                      /\ \A b \in Callbacks :
                           HasPair(callbacks[b]) => callbacks[b].pair # publishers'[v].pair
    BY <1>0, <1>3 DEF PublisherPairs, InNoRow
  <2>1. CASE v = u
    <3>1. publishers'[u].pair = issued + 1
      BY <1>1, <2>1 DEF HasPair
    <3> QED
      BY <1>0, <2>1, <3>1, NewPair
  <2>2. CASE v # u
    <3>1. publishers'[v] = publishers[v] /\ HasPair(publishers[v])
      BY <2>2
    <3>2. /\ publishers[v].pair \in 1..issued' /\ (rotates => publishers[v].pair \in usable')
          /\ InNoRow(publishers[v].pair) /\ publishers[v].pair # issued + 1
          /\ \A b \in Callbacks : HasPair(callbacks[b]) => callbacks[b].pair # publishers[v].pair
      BY <1>0, <1>4, <3>1, NewPair DEF PublisherPairs
    <3>3. ASSUME NEW w \in Publishers \ {v}, HasPair(publishers'[w])
          PROVE  publishers'[w].pair # publishers[v].pair
      <4>1. CASE w = u
        BY <1>1, <3>2, <3>3, <4>1 DEF HasPair
      <4>2. CASE w # u
        BY <3>1, <3>3, <4>2 DEF PublisherPairs
      <4> QED
        BY <4>1, <4>2
    <3> QED
      BY <3>1, <3>2, <3>3
  <2> QED
    BY <2>1, <2>2
<1>7. OneRow'
  BY <1>0 DEF OneRow
<1>8. NoneSpent'
  BY <1>0, <1>1 DEF NoneSpent
<1>9. StoredTokenUsable'
  <2> SUFFICES ASSUME NEW i \in Ids, Stored(i)
               PROVE  \/ rows[i].refresh \in usable'
                      \/ rotates /\ \/ rows[i].refresh \in lost'
                                    \/ \E v \in Publishers :
                                         /\ publishers'[v].pc \in {"lookup", "write"}
                                         /\ publishers'[v].row = i
                                         /\ publishers'[v].refresh = rows[i].refresh
    BY <1>0 DEF StoredTokenUsable, Stored
  <2>1. CASE rotates /\ rows[i].refresh = spent
    BY <1>1, <2>1 DEF OneRow, HasPair
  <2>2. CASE rows[i].refresh \in usable /\ ~(rotates /\ rows[i].refresh = spent)
    BY <1>0, <2>2
  <2>3. CASE rotates /\ rows[i].refresh \in lost
    BY <2>3
  <2>4. ASSUME rotates, NEW v \in Publishers, HasPair(publishers[v]), publishers[v].row = i,
               publishers[v].refresh = rows[i].refresh
        PROVE  publishers'[v] = publishers[v]
    BY <1>1, <2>4
  <2> QED
    BY <2>1, <2>2, <2>3, <2>4 DEF StoredTokenUsable, HasPair
<1> QED
  BY <1>2, <1>5, <1>6, <1>7, <1>8, <1>9 DEF Tracked

\* PublisherWrite that succeeds, in the row it refreshed for or another one.
LEMMA StoreStep ==
  ASSUME Inv, NEW u \in Publishers, HasPair(publishers[u]), NEW into \in Ids,
         RowTakes(into, RefreshToken(u)),
         publishers'[u].refresh = publishers[u].refresh,
         publishers'[u].row = publishers[u].row,
         publishers'[u].pc = "publish",
         \/ /\ into = publishers[u].row
            /\ Stored(into) => rows'[into].refresh = RefreshToken(u)
         \/ rotates => publishers[u].refresh \in lost',
         \A v \in Publishers \ {u} : publishers'[v] = publishers[v],
         UNCHANGED <<callbacks, rotates, issued, usable>>, lost \subseteq lost'
  PROVE  Tracked'
<1> USE DEF Inv
<1> DEFINE token == RefreshToken(u)
           spent == publishers[u].refresh
<1>0. /\ ~rotates => token = spent
      /\ rotates => token = publishers[u].pair
      /\ token \in Nat /\ token # 0 /\ token <= issued /\ token \in usable
  <2>1. publishers[u].pc # "idle" /\ spent # 0 /\ spent \in Nat /\ spent <= issued
    BY Fields DEF HasPair, TokensIssued
  <2>2. publishers[u].pair \in 1..issued /\ (rotates => publishers[u].pair \in usable)
    BY DEF PublisherPairs
  <2>3. issued \in Nat
    BY Fields
  <2> QED
    BY <2>1, <2>2, <2>3 DEF RefreshToken, NoneSpent
<1>1. ~HasPair(publishers'[u]) /\ publishers[u].pc # "idle"
  BY DEF HasPair
<1>2. TokensIssued'
  BY <1>0, <1>1, Fields DEF TokensIssued, Stored, RowTakes
<1>3. ASSUME NEW pair, InNoRow(pair), pair # token
      PROVE  InNoRow(pair)'
  BY <1>3 DEF InNoRow, RowTakes
<1>4. CallbackPairs'
  <2>1. \A b \in Callbacks : HasPair(callbacks[b]) =>
          callbacks[b].pair # token /\ InNoRow(callbacks[b].pair)
    BY <1>0 DEF CallbackPairs, PublisherPairs, InNoRow
  <2> QED
    BY <1>3, <2>1 DEF CallbackPairs
<1>5. PublisherPairs'
  <2> SUFFICES ASSUME NEW v \in Publishers, v # u, HasPair(publishers[v])
               PROVE  InNoRow(publishers[v].pair)'
    BY <1>1 DEF PublisherPairs, InNoRow
  <2>1. publishers[v].pair # token /\ InNoRow(publishers[v].pair)
    BY <1>0 DEF PublisherPairs, InNoRow
  <2> QED
    BY <1>3, <2>1
<1>6. OneRow'
  <2> SUFFICES ASSUME rotates PROVE OneRow'
    BY DEF OneRow
  <2>1. InNoRow(token)
    BY <1>0 DEF PublisherPairs
  <2> QED
    BY <1>0, <2>1 DEF OneRow, InNoRow, RowTakes
<1>7. NoneSpent'
  BY <1>1 DEF NoneSpent
<1>8. StoredTokenUsable'
  <2> SUFFICES ASSUME NEW i \in Ids, Stored(i)'
               PROVE  \/ rows'[i].refresh \in usable
                      \/ rotates /\ \/ rows'[i].refresh \in lost'
                                    \/ \E v \in Publishers :
                                         /\ publishers'[v].pc \in {"lookup", "write"}
                                         /\ publishers'[v].row = i
                                         /\ publishers'[v].refresh = rows'[i].refresh
    BY DEF StoredTokenUsable
  <2>1. CASE rows'[i].refresh = token
    BY <1>0, <2>1
  <2>2. CASE rows'[i].refresh # token
    <3>1. rows'[i] = rows[i] /\ Stored(i)
      BY <2>2 DEF RowTakes, Stored
    <3>2. CASE rotates /\ spent = rows[i].refresh /\ publishers[u].row = i
      BY <2>2, <3>1, <3>2
    <3>3. ASSUME rotates, NEW v \in Publishers, v # u, HasPair(publishers[v]),
                 publishers[v].row = i, publishers[v].refresh = rows[i].refresh
          PROVE  publishers'[v] = publishers[v]
      BY <3>3
    <3> QED
      BY <3>1, <3>2, <3>3 DEF StoredTokenUsable, HasPair
  <2> QED
    BY <2>1, <2>2
<1> QED
  BY <1>2, <1>4, <1>5, <1>6, <1>7, <1>8 DEF Tracked

-----------------------------------------------------------------------------
(***************************************************************************)
(* The steps of the program.                                               *)
(***************************************************************************)

\* Idle records have the types of the records they stand for.
LEMMA IdleTypes ==
  /\ IdleCallback \in [pc: {"idle", "delete", "exchange", "lookup", "write"},
                       state: States \cup {NoState}, pair: Tokens, target: Ids \cup {NoId}]
  /\ IdlePublisher \in [pc: {"idle", "check", "lookup", "write", "publish"},
                        post: Posts \cup {NoId}, row: Ids \cup {NoId}, access: Tokens,
                        refresh: Tokens, pair: Tokens, target: Ids \cup {NoId}]
<1>1. 0 \in Tokens
  BY Bounds DEF Tokens
<1> QED
  BY <1>1 DEF IdleCallback, IdlePublisher

\* An issued pair is a pair.
LEMMA AuthorizeTypes ==
  ASSUME TypeOK, Authorize \/ \E spent : Grant(spent)
  PROVE  /\ issued + 1 \in Tokens /\ issued' \in Tokens /\ usable' \subseteq 1..issued'
         /\ UNCHANGED <<rotates, expiry>>
<1>1. /\ issued < MaxTokens /\ issued' = issued + 1 /\ usable' \subseteq usable \cup {issued + 1}
      /\ UNCHANGED <<rotates, expiry>>
  BY DEF Authorize, Grant
<1>2. issued \in Nat /\ usable \subseteq 1..issued
  BY Fields, TypeParts DEF TokenTypes
<1> QED
  BY <1>1, <1>2, Bounds DEF Tokens

LEMMA UpsertTypes ==
  ASSUME TypeOK, NEW target, NEW access \in Tokens, NEW token \in Tokens, NEW into,
         Upsert(target, access, token, into)
  PROVE  RowTypes'
BY TypeParts DEF Upsert, RowTypes, Rows

LEMMA FaultTypes ==
  ASSUME TypeOK
  PROVE  /\ NoFault => faultsLeft' \in Nat
         /\ Fault => faultsLeft' \in Nat
BY TypeParts DEF NoFault, Fault, OtherTypes

\* What is lost is a token.
LEMMA LoseTypes ==
  ASSUME TypeOK, TokensIssued, NEW u \in Publishers, publishers[u].pc # "idle", Lose(u)
  PROVE  lost' \subseteq 1..MaxTokens /\ lost \subseteq lost'
         /\ (rotates => publishers[u].refresh \in lost')
<1>1. publishers[u].refresh \in 1..MaxTokens
  BY Fields, Bounds DEF TokensIssued
<1> QED
  BY <1>1, TypeParts DEF Lose, TokenTypes

\* The changes of one publication, as Goto makes them.
LEMMA GotoEffect ==
  ASSUME TypeOK, NEW u \in Publishers, NEW pc \in {"check", "lookup", "write", "publish"},
         Goto(u, pc)
  PROVE  /\ PublisherTypes' /\ publishers'[u].pc = pc
         /\ publishers'[u].refresh = publishers[u].refresh
         /\ publishers'[u].row = publishers[u].row
         /\ publishers'[u].pair = publishers[u].pair
         /\ \A v \in Publishers \ {u} : publishers'[v] = publishers[v]
BY TypeParts DEF Goto, PublisherTypes

\* A publication that goes on while the others stay.
LEMMA OneGoesOn ==
  ASSUME NEW u \in Publishers, publishers[u].pc # "idle",
         publishers'[u].refresh = publishers[u].refresh,
         publishers'[u].row = publishers[u].row,
         publishers'[u].pair = publishers[u].pair,
         HasPair(publishers'[u]) => HasPair(publishers[u]),
         HasPair(publishers[u]) /\ ~HasPair(publishers'[u]) /\ rotates =>
           publishers[u].refresh \in lost',
         \A v \in Publishers \ {u} : publishers'[v] = publishers[v]
  PROVE  PublishersGoOn
BY DEF PublishersGoOn, GoesOn

\* Steps that leave the tokens where they are.
LEMMA RestStep ==
  ASSUME Inv, UNCHANGED <<rows, callbacks, publishers, rotates, issued, usable, lost>>
  PROVE  Tracked'
<1>1. RowsKeepTokens /\ CallbacksGoOn /\ PublishersGoOn
  BY DEF RowsKeepTokens, CallbacksGoOn, PublishersGoOn, GoesOn, Stored
<1> QED
  BY <1>1, CalmStep

LEMMA CallbackStep ==
  ASSUME Inv, NEW b \in Callbacks, CallbacksGoOn,
         UNCHANGED <<rows, publishers, rotates, issued, usable, lost>>
  PROVE  Tracked'
<1>1. RowsKeepTokens /\ PublishersGoOn
  BY DEF RowsKeepTokens, PublishersGoOn, GoesOn, Stored
<1> QED
  BY <1>1, CalmStep

LEMMA PublicationStep ==
  ASSUME Inv, PublishersGoOn, lost \subseteq lost',
         UNCHANGED <<rows, callbacks, rotates, issued, usable>>
  PROVE  Tracked'
<1>1. RowsKeepTokens /\ CallbacksGoOn
  BY DEF RowsKeepTokens, CallbacksGoOn, Stored
<1> QED
  BY <1>1, CalmStep

LEMMA ConnectingSteps ==
  ASSUME Inv, NEW s \in States
  PROVE  /\ MCPCreate(s) \/ StateExpires(s) \/ purgeExpiredOAuthStates => Inv'
         /\ \A b \in Callbacks : handleXCallback(b, s) => Inv'
<1>0. TypeOK
  BY DEF Inv
<1>1. ASSUME MCPCreate(s) \/ StateExpires(s) \/ purgeExpiredOAuthStates PROVE Inv'
  <2>1. /\ UNCHANGED <<rows, posts, callbacks, publishers, deleting, rotates, issued, usable, lost,
                       expiry, faultsLeft>>
        /\ StateTypes'
    BY <1>0, <1>1, TypeParts DEF MCPCreate, StateExpires, purgeExpiredOAuthStates, StateTypes
  <2> QED
    BY <1>0, <2>1, RestStep, TypeParts, TypesKept DEF Tracked, Inv
<1>2. ASSUME NEW b \in Callbacks, handleXCallback(b, s) PROVE Inv'
  <2>1. CallbackTypes' /\ CallbacksGoOn
    BY <1>0, <1>2, TypeParts DEF handleXCallback, CallbackTypes, CallbacksGoOn, HasPair
  <2>2. UNCHANGED <<rows, posts, open, stale, born, uses, publishers, deleting, rotates, issued,
                    usable, lost, expiry, faultsLeft>>
    BY <1>2 DEF handleXCallback
  <2> QED
    BY <1>0, <2>1, <2>2, CallbackStep, TypeParts, TypesKept DEF Tracked, Inv
<1> QED
  BY <1>1, <1>2

LEMMA ConsumeStep ==
  ASSUME Inv, NEW b \in Callbacks, consumeOAuthState(b)
  PROVE  Inv'
<1>0. TypeOK
  BY DEF Inv
<1>1. CallbackTypes' /\ CallbacksGoOn
  <2>1. callbacks' = [callbacks EXCEPT ![b] = IdleCallback]
          \/ callbacks' = [callbacks EXCEPT ![b].pc = "exchange"]
    BY DEF consumeOAuthState
  <2> QED
    BY <1>0, <2>1, TypeParts, IdleTypes
    DEF CallbackTypes, CallbacksGoOn, HasPair, IdleCallback
<1>2. StateTypes'
  BY <1>0, TypeParts DEF consumeOAuthState, StateTypes
<1>3. UNCHANGED <<rows, posts, publishers, deleting, rotates, issued, usable, lost, expiry>>
  BY DEF consumeOAuthState
<1>4. OtherTypes'
  BY <1>0, <1>3, TypeParts, FaultTypes DEF consumeOAuthState, OtherTypes
<1> QED
  BY <1>0, <1>1, <1>2, <1>3, <1>4, CallbackStep, TypeParts, TypesKept DEF Tracked, Inv

LEMMA exchangeCodeStep ==
  ASSUME Inv, NEW b \in Callbacks, exchangeCode(b)
  PROVE  Inv'
<1>0. TypeOK
  BY DEF Inv
<1>1. UNCHANGED <<rows, posts, open, stale, born, uses, publishers, deleting, lost, faultsLeft>>
  BY DEF exchangeCode
<1>2. CASE Authorize /\ callbacks' = [callbacks EXCEPT ![b].pc = "lookup", ![b].pair = issued + 1]
  <2>1. TokenTypes' /\ AgeTypes' /\ issued + 1 \in Tokens
    BY <1>0, <1>1, <1>2, AuthorizeTypes, TypeParts, TypesKept DEF TokenTypes
  <2>2. /\ CallbackTypes' /\ HasPair(callbacks'[b]) /\ callbacks'[b].pair = issued + 1
        /\ \A c \in Callbacks \ {b} : callbacks'[c] = callbacks[c]
    BY <1>0, <1>2, <2>1, TypeParts DEF CallbackTypes, HasPair
  <2>3. Tracked'
    BY <1>1, <1>2, <2>2, ExchangeStep
  <2> QED
    BY <1>0, <1>1, <2>1, <2>2, <2>3, TypeParts, TypesKept DEF Tracked, Inv
<1>3. CASE callbacks' = [callbacks EXCEPT ![b] = IdleCallback]
             /\ UNCHANGED <<rotates, issued, usable, expiry>>
  <2>1. CallbackTypes' /\ CallbacksGoOn
    BY <1>0, <1>3, TypeParts, IdleTypes DEF CallbackTypes, CallbacksGoOn, HasPair, IdleCallback
  <2> QED
    BY <1>0, <1>1, <1>3, <2>1, CallbackStep, TypeParts, TypesKept DEF Tracked, Inv
<1> QED
  BY <1>2, <1>3 DEF exchangeCode

LEMMA CallbackLookupStep ==
  ASSUME Inv, NEW b \in Callbacks, CallbackLookup(b)
  PROVE  Inv'
<1>0. TypeOK
  BY DEF Inv
<1>1. CallbackTypes' /\ CallbacksGoOn
  <2>1. \/ callbacks' = [callbacks EXCEPT ![b] = IdleCallback]
        \/ \E i \in Ids \cup {NoId} :
             callbacks' = [callbacks EXCEPT ![b].pc = "write", ![b].target = i]
    BY DEF CallbackLookup
  <2>2. callbacks[b].pc = "lookup"
    BY DEF CallbackLookup
  <2> QED
    BY <1>0, <2>1, <2>2, TypeParts, IdleTypes
    DEF CallbackTypes, CallbacksGoOn, HasPair, IdleCallback
<1>2. /\ UNCHANGED <<rows, posts, open, stale, born, uses, publishers, deleting, rotates, issued,
                     usable, lost, expiry>>
      /\ OtherTypes'
  BY <1>0, TypeParts, FaultTypes DEF CallbackLookup, OtherTypes
<1> QED
  BY <1>0, <1>1, <1>2, CallbackStep, TypeParts, TypesKept DEF Tracked, Inv

LEMMA CallbackWriteStep ==
  ASSUME Inv, NEW b \in Callbacks, CallbackWrite(b)
  PROVE  Inv'
<1>0. TypeOK
  BY DEF Inv
<1>1. CallbackTypes' /\ CallbacksGoOn
  BY <1>0, TypeParts, IdleTypes
  DEF CallbackWrite, CallbackTypes, CallbacksGoOn, HasPair, IdleCallback
<1>2. /\ UNCHANGED <<posts, open, stale, born, uses, publishers, deleting, rotates, issued,
                     usable, lost, expiry>>
      /\ OtherTypes'
  BY <1>0, TypeParts, FaultTypes DEF CallbackWrite, OtherTypes
<1>3. CASE UNCHANGED rows
  BY <1>0, <1>1, <1>2, <1>3, CallbackStep, TypeParts, TypesKept DEF Tracked, Inv
<1>4. ASSUME NEW into \in Ids,
             Upsert(callbacks[b].target, callbacks[b].pair, callbacks[b].pair, into)
      PROVE  Inv'
  <2>1. callbacks[b].pair \in Tokens /\ HasPair(callbacks[b])
    BY <1>0, TypeParts DEF CallbackWrite, CallbackTypes, HasPair
  <2>2. RowTypes'
    BY <1>0, <1>4, <2>1, UpsertTypes
  <2>3. RowTakes(into, callbacks[b].pair)
    BY <1>4, UpsertWrites
  <2>4. callbacks' = [callbacks EXCEPT ![b] = IdleCallback]
    BY DEF CallbackWrite
  <2>5. Tracked'
    BY <1>2, <2>1, <2>3, <2>4, ConnectStep
  <2> QED
    BY <1>0, <1>1, <1>2, <2>2, <2>5, TypeParts, TypesKept DEF Tracked, Inv
<1> QED
  BY <1>3, <1>4 DEF CallbackWrite

LEMMA PostSteps ==
  ASSUME Inv
  PROVE  /\ \A p \in Posts, i \in Ids : CreatePost(p, i) => Inv'
         /\ \A i \in Ids : CountPosts(i) => Inv'
         /\ \A t \in 1..MaxTokens : Age(t) => Inv'
<1>0. TypeOK
  BY DEF Inv
<1>1. ASSUME NEW p \in Posts, NEW i \in Ids, CreatePost(p, i) PROVE Inv'
  <2>1. PostTypes' /\ UNCHANGED <<rows, open, requests, platform, time, history, faultsLeft>>
    BY <1>0, <1>1, TypeParts DEF CreatePost, PostTypes
  <2> QED
    BY <1>0, <2>1, RestStep, TypeParts, TypesKept DEF Tracked, Inv
<1>2. ASSUME NEW i \in Ids, CountPosts(i) PROVE Inv'
  <2>1. OtherTypes' /\ UNCHANGED <<database, callbacks, publishers, platform, time, history>>
    BY <1>0, <1>2, TypeParts DEF CountPosts, OtherTypes
  <2> QED
    BY <1>0, <2>1, RestStep, TypeParts, TypesKept DEF Tracked, Inv
<1>3. ASSUME NEW t \in 1..MaxTokens, Age(t) PROVE Inv'
  <2>1. AgeTypes' /\ UNCHANGED <<database, requests, rotates, issued, usable, time, history,
                                 faultsLeft>>
    BY <1>0, <1>3, TypeParts DEF Age, AgeTypes
  <2> QED
    BY <1>0, <2>1, RestStep, TypeParts, TypesKept DEF Tracked, Inv
<1> QED
  BY <1>1, <1>2, <1>3

LEMMA deleteCredentialStep ==
  ASSUME Inv, deleteCredential
  PROVE  Inv'
<1>0. TypeOK
  BY DEF Inv
<1>1. UNCHANGED <<posts, open, callbacks, publishers, platform, time, history>>
  BY DEF deleteCredential
<1>2. OtherTypes'
  BY <1>0, TypeParts DEF deleteCredential, OtherTypes
<1>3. rows' = rows \/ rows' = [rows EXCEPT ![deleting].status = "deleted"]
  BY DEF deleteCredential
<1>4. RowTypes' /\ RowsKeepTokens
  BY <1>0, <1>3, TypeParts DEF RowTypes, Rows, RowsKeepTokens, Stored
<1>5. CallbacksGoOn /\ PublishersGoOn
  BY <1>1 DEF CallbacksGoOn, PublishersGoOn, GoesOn
<1>6. Tracked'
  BY <1>1, <1>4, <1>5, CalmStep
<1> QED
  BY <1>0, <1>1, <1>2, <1>4, <1>6, TypeParts, TypesKept DEF Tracked, Inv

LEMMA getCredentialStep ==
  ASSUME Inv, NEW u \in Publishers, NEW p \in Posts, getCredential(u, p)
  PROVE  Inv'
<1>0. TypeOK
  BY DEF Inv
<1>1. UNCHANGED <<database, callbacks, deleting, platform, time, history, faultsLeft>>
  BY DEF getCredential
<1>2. PublisherTypes'
  <2>1. posts[p].cred \in Ids /\ rows[posts[p].cred] \in Rows
    BY <1>0, TypeParts DEF getCredential, Stored, RowTypes
  <2>2. /\ IdlePublisher.pair \in Tokens /\ IdlePublisher.target = NoId
        /\ rows[posts[p].cred].access \in Tokens /\ rows[posts[p].cred].refresh \in Tokens
    BY <2>1, IdleTypes DEF Rows, IdlePublisher
  <2> QED
    BY <1>0, <2>1, <2>2, TypeParts DEF getCredential, PublisherTypes, IdlePublisher
<1>3. Tracked'
  BY ReadStep
<1> QED
  BY <1>0, <1>1, <1>2, <1>3, TypeParts, TypesKept DEF Tracked, Inv

LEMMA SkipRefreshStep ==
  ASSUME Inv, NEW u \in Publishers, SkipRefresh(u)
  PROVE  Inv'
<1>0. TypeOK
  BY DEF Inv
<1>1. /\ publishers[u].pc = "check" /\ Goto(u, "publish")
      /\ UNCHANGED <<database, callbacks, deleting, platform, time, history, faultsLeft>>
  BY DEF SkipRefresh
<1>2. PublisherTypes' /\ PublishersGoOn
  BY <1>0, <1>1, GotoEffect, OneGoesOn DEF HasPair
<1> QED
  BY <1>0, <1>1, <1>2, PublicationStep, TypeParts, TypesKept DEF Tracked, Inv

LEMMA refreshXTokenStep ==
  ASSUME Inv, NEW u \in Publishers, refreshXToken(u)
  PROVE  Inv'
<1>0. TypeOK /\ TokensIssued /\ publishers[u].pc = "check"
  BY DEF Inv, refreshXToken
<1>1. UNCHANGED <<database, callbacks, deleting, time, uses>>
  BY DEF refreshXToken
<1>2. CASE /\ Grant(publishers[u].refresh)
           /\ publishers' = [publishers EXCEPT ![u].pc = "lookup", ![u].pair = issued + 1]
           /\ UNCHANGED <<lost, faultsLeft>>
  <2>1. TokenTypes' /\ AgeTypes' /\ issued + 1 \in Tokens
    BY <1>0, <1>2, AuthorizeTypes, TypeParts, TypesKept DEF TokenTypes
  <2>2. /\ PublisherTypes' /\ HasPair(publishers'[u]) /\ publishers'[u].pair = issued + 1
        /\ publishers'[u].refresh = publishers[u].refresh
        /\ publishers'[u].row = publishers[u].row
        /\ \A v \in Publishers \ {u} : publishers'[v] = publishers[v]
    BY ZenonT(40), <1>0, <1>2, <2>1, TypeParts DEF PublisherTypes, HasPair
  <2>3. Tracked'
    BY <1>0, <1>1, <1>2, <2>2, GrantStep
  <2> QED
    BY <1>0, <1>1, <1>2, <2>1, <2>2, <2>3, TypeParts, TypesKept DEF Tracked, Inv
<1>3. CASE Grant(publishers[u].refresh) /\ Fault /\ Goto(u, "publish") /\ Lose(u)
  <2>1. TokenTypes' /\ AgeTypes'
    BY <1>0, <1>3, AuthorizeTypes, LoseTypes, TypeParts, TypesKept DEF TokenTypes
  <2>2. OtherTypes'
    BY <1>0, <1>1, <1>3, FaultTypes, TypeParts DEF OtherTypes
  <2>3. PublisherTypes'
    BY <1>0, <1>3, GotoEffect
  <2>4. Tracked'
    BY <1>0, <1>1, <1>3, GotoEffect, LoseTypes, GrantStep
  <2> QED
    BY <1>0, <1>1, <2>1, <2>2, <2>3, <2>4, TypeParts, TypesKept DEF Tracked, Inv
<1>4. CASE Goto(u, "publish") /\ UNCHANGED <<platform, lost, faultsLeft>>
  <2>1. PublisherTypes' /\ PublishersGoOn
    BY <1>0, <1>4, GotoEffect, OneGoesOn DEF HasPair
  <2> QED
    BY <1>0, <1>1, <1>4, <2>1, PublicationStep, TypeParts, TypesKept DEF Tracked, Inv
<1> QED
  BY <1>2, <1>3, <1>4 DEF refreshXToken

\* The replacement is lost: a failed statement of maybeRefreshXCredential.
LEMMA LosingStep ==
  ASSUME Inv, NEW u \in Publishers, HasPair(publishers[u]), Fault, Goto(u, "publish"), Lose(u),
         UNCHANGED <<rows, posts, open, callbacks, deleting, rotates, issued, usable, expiry, time,
                     uses>>
  PROVE  Inv'
<1>0. TypeOK /\ TokensIssued /\ publishers[u].pc # "idle"
  BY DEF Inv, HasPair
<1>1. /\ lost' \subseteq 1..MaxTokens /\ lost \subseteq lost'
      /\ rotates => publishers[u].refresh \in lost'
  BY <1>0, LoseTypes
<1>2. PublisherTypes' /\ PublishersGoOn
  BY <1>0, <1>1, GotoEffect, OneGoesOn DEF HasPair
<1>3. TokenTypes' /\ OtherTypes'
  BY <1>0, <1>1, FaultTypes, TypeParts DEF TokenTypes, OtherTypes
<1> QED
  BY <1>0, <1>1, <1>2, <1>3, PublicationStep, TypeParts, TypesKept DEF Tracked, Inv

LEMMA PublisherLookupStep ==
  ASSUME Inv, NEW u \in Publishers, PublisherLookup(u)
  PROVE  Inv'
<1>0. TypeOK /\ HasPair(publishers[u]) /\ publishers[u].pc # "idle"
  BY DEF Inv, PublisherLookup, HasPair
<1>1. UNCHANGED <<database, callbacks, deleting, platform, time, uses>>
  BY DEF PublisherLookup
<1>2. CASE Fault /\ Goto(u, "publish") /\ Lose(u)
  BY <1>0, <1>1, <1>2, LosingStep
<1>3. ASSUME NEW i \in Ids \cup {NoId}, NoFault, UNCHANGED lost,
             publishers' = [publishers EXCEPT ![u].pc = "write", ![u].target = i]
      PROVE  Inv'
  <2>1. /\ PublisherTypes' /\ HasPair(publishers'[u])
        /\ publishers'[u].pair = publishers[u].pair
        /\ publishers'[u].refresh = publishers[u].refresh
        /\ publishers'[u].row = publishers[u].row
        /\ \A v \in Publishers \ {u} : publishers'[v] = publishers[v]
    BY ZenonT(40), <1>0, <1>3, TypeParts DEF PublisherTypes, HasPair
  <2>2. PublishersGoOn
    BY <1>0, <2>1, OneGoesOn
  <2> QED
    BY <1>0, <1>1, <1>3, <2>1, <2>2, PublicationStep, TypeParts, TypesKept
    DEF Tracked, Inv, NoFault
<1> QED
  BY <1>2, <1>3 DEF PublisherLookup

LEMMA PublisherWriteStep ==
  ASSUME Inv, NEW u \in Publishers, PublisherWrite(u)
  PROVE  Inv'
<1>0. TypeOK /\ TokensIssued /\ HasPair(publishers[u]) /\ publishers[u].pc # "idle"
  BY DEF Inv, PublisherWrite, HasPair
<1>1. UNCHANGED <<posts, open, callbacks, deleting, platform, time, uses>>
  BY DEF PublisherWrite
<1>2. CASE Fault /\ Goto(u, "publish") /\ Lose(u) /\ UNCHANGED rows
  BY <1>0, <1>1, <1>2, LosingStep
<1>3. ASSUME NEW into \in Ids, NoFault,
             Upsert(publishers[u].target, publishers[u].pair, RefreshToken(u), into),
             publishers' = [publishers EXCEPT ![u].pc = "publish",
                                              ![u].access = publishers[u].pair],
             IF publishers[u].target = publishers[u].row THEN UNCHANGED lost ELSE Lose(u)
      PROVE  Inv'
  <2>1. /\ publishers[u].pair \in Tokens /\ RefreshToken(u) \in Tokens
        /\ publishers[u].row \in Ids \cup {NoId}
    BY <1>0, TypeParts DEF PublisherTypes, RefreshToken
  <2>2. /\ PublisherTypes' /\ publishers'[u].pc = "publish"
        /\ publishers'[u].refresh = publishers[u].refresh
        /\ publishers'[u].row = publishers[u].row
        /\ \A v \in Publishers \ {u} : publishers'[v] = publishers[v]
    BY ZenonT(40), <1>0, <1>3, <2>1, TypeParts DEF PublisherTypes
  <2>3. RowTypes'
    BY <1>0, <1>3, <2>1, UpsertTypes
  <2>4. /\ RowTakes(into, RefreshToken(u))
        /\ publishers[u].target # NoId =>
             /\ into = publishers[u].target
             /\ Stored(into) => rows'[into].refresh = RefreshToken(u)
    BY <1>3, UpsertWrites
  <2>5. lost' \subseteq 1..MaxTokens /\ lost \subseteq lost'
    BY <1>0, <1>3, LoseTypes, TypeParts DEF TokenTypes
  <2>6. TokenTypes' /\ OtherTypes'
    BY <1>0, <1>1, <1>3, <2>5, TypeParts DEF TokenTypes, OtherTypes, NoFault
  <2>7. publishers[u].row # NoId
    BY <1>0, NoIdAssumption DEF TokensIssued
  <2>8. \/ /\ into = publishers[u].row
           /\ Stored(into) => rows'[into].refresh = RefreshToken(u)
        \/ rotates => publishers[u].refresh \in lost'
    BY <1>0, <1>3, <2>4, <2>7, LoseTypes
  <2>9. Tracked'
    BY <1>0, <1>1, <2>2, <2>4, <2>5, <2>8, StoreStep
  <2> QED
    BY <1>0, <1>1, <2>2, <2>3, <2>6, <2>9, TypeParts, TypesKept DEF Tracked, Inv
<1> QED
  BY <1>2, <1>3 DEF PublisherWrite

LEMMA PublishStep ==
  ASSUME Inv, NEW u \in Publishers, Publish(u)
  PROVE  Inv'
<1>0. TypeOK
  BY DEF Inv
<1>1. /\ UNCHANGED <<rows, open, callbacks, deleting, platform, time, history, faultsLeft>>
      /\ publishers[u].pc = "publish" /\ publishers' = [publishers EXCEPT ![u] = IdlePublisher]
  BY DEF Publish
<1>2. PublisherTypes'
  BY <1>0, <1>1, TypeParts, IdleTypes DEF PublisherTypes
<1>3. PublishersGoOn
  <2>1. /\ Ends(u) /\ ~HasPair(publishers[u]) /\ ~HasPair(publishers'[u])
        /\ \A v \in Publishers \ {u} : publishers'[v] = publishers[v]
    BY <1>0, <1>1, TypeParts DEF PublisherTypes, Ends, HasPair, IdlePublisher
  <2> QED
    BY <2>1 DEF PublishersGoOn, GoesOn
<1>4. PostTypes'
  BY <1>0, TypeParts DEF Publish, markPostFailed, PostTypes
<1> QED
  BY <1>0, <1>1, <1>2, <1>3, <1>4, PublicationStep, TypeParts, TypesKept DEF Tracked, Inv

LEMMA CrashStep ==
  ASSUME Inv, Crash
  PROVE  Inv'
<1>0. TypeOK /\ TokensIssued
  BY DEF Inv
<1>1. /\ UNCHANGED <<database, platform, time, uses>>
      /\ callbacks' = [b \in Callbacks |-> IdleCallback]
      /\ publishers' = [u \in Publishers |-> IdlePublisher]
      /\ deleting' = NoId /\ Fault
  BY DEF Crash
<1>2. CallbackTypes' /\ CallbacksGoOn
  BY <1>1, IdleTypes DEF CallbackTypes, CallbacksGoOn, HasPair, IdleCallback
<1>3. PublisherTypes'
  BY <1>1, IdleTypes DEF PublisherTypes
<1>4. OtherTypes'
  BY <1>0, <1>1, FaultTypes DEF OtherTypes
<1>5. lost \subseteq lost'
  BY DEF Crash
<1>6. PublishersGoOn
  BY <1>1 DEF Crash, PublishersGoOn, Ends, HasPair, IdlePublisher
<1>7. TokenTypes'
  <2>1. \A u \in Publishers : publishers[u].pc # "idle" => publishers[u].refresh \in 1..MaxTokens
    BY <1>0, Fields, Bounds DEF TokensIssued
  <2>2. lost' \subseteq 1..MaxTokens
    BY <1>0, <2>1, TypeParts DEF Crash, TokenTypes
  <2> QED
    BY <1>0, <1>1, <2>2, TypeParts DEF TokenTypes
<1>8. RowsKeepTokens
  BY <1>1 DEF RowsKeepTokens, Stored
<1>9. Tracked'
  BY <1>1, <1>2, <1>5, <1>6, <1>8, CalmStep
<1> QED
  BY <1>0, <1>1, <1>2, <1>3, <1>4, <1>7, <1>9, TypeParts, TypesKept DEF Tracked, Inv

LEMMA InvAlways == Spec => []Inv
<1>1. Inv /\ [Next]_vars => Inv'
  <2> SUFFICES ASSUME Inv, [Next]_vars PROVE Inv'
    OBVIOUS
  <2>1. CASE UNCHANGED vars
    BY <2>1, RestStep, TypeParts, TypesKept DEF Inv, Tracked
  <2>2. ASSUME NEW s \in States, MCPCreate(s) \/ StateExpires(s) PROVE Inv'
    BY <2>2, ConnectingSteps
  <2>3. CASE purgeExpiredOAuthStates
    <3>1. PICK s \in States : s \in open
      BY <2>3, TypeParts DEF purgeExpiredOAuthStates, Inv, StateTypes
    <3> QED
      BY <2>3, <3>1, ConnectingSteps
  <2>4. ASSUME NEW b \in Callbacks,
               \/ \E s \in States : handleXCallback(b, s)
               \/ consumeOAuthState(b) \/ exchangeCode(b) \/ CallbackLookup(b) \/ CallbackWrite(b)
        PROVE  Inv'
    BY <2>4, ConnectingSteps, ConsumeStep, exchangeCodeStep, CallbackLookupStep, CallbackWriteStep
  <2>5. ASSUME NEW p \in Posts, NEW i \in Ids, CreatePost(p, i) PROVE Inv'
    BY <2>5, PostSteps
  <2>6. ASSUME NEW u \in Publishers,
               \/ \E p \in Posts : getCredential(u, p)
               \/ SkipRefresh(u) \/ refreshXToken(u) \/ PublisherLookup(u) \/ PublisherWrite(u)
               \/ Publish(u)
        PROVE  Inv'
    BY <2>6, getCredentialStep, SkipRefreshStep, refreshXTokenStep, PublisherLookupStep,
       PublisherWriteStep, PublishStep
  <2>7. ASSUME NEW i \in Ids, CountPosts(i) PROVE Inv'
    BY <2>7, PostSteps
  <2>8. ASSUME NEW t \in 1..MaxTokens, Age(t) PROVE Inv'
    BY <2>8, PostSteps
  <2> QED
    BY <2>1, <2>2, <2>3, <2>4, <2>5, <2>6, <2>7, <2>8, deleteCredentialStep, CrashStep DEF Next
<1> QED
  BY InitInv, <1>1, PTL DEF Spec

-----------------------------------------------------------------------------
(***************************************************************************)
(* The theorems.                                                           *)
(***************************************************************************)

\* The fields of requests, rows and states always hold what the tables and the
\* code allow.
THEOREM TypeCorrect == Spec => []TypeOK
<1>1. Inv => TypeOK
  BY DEF Inv
<1> QED
  BY <1>1, InvAlways, PTL

\* Racing refreshes, reconnections, deletions and failures never leave a
\* stored credential with a refresh token that X has spent, unless X rotates
\* them and the answer, the statement or the process that carried its
\* replacement was lost.  (maybeRefreshXCredential and
\* upsertCredentialByInstance.)
THEOREM CredentialsStayUsable == Spec => []StoredTokenUsable
<1>1. Inv => StoredTokenUsable
  BY DEF Inv
<1> QED
  BY <1>1, InvAlways, PTL

=============================================================================
