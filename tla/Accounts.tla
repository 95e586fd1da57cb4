------------------------------- MODULE Accounts -------------------------------
(***************************************************************************)
(* Who may use the console: the credential file an operator rewrites with  *)
(* scripts/set_console_credential.py, the copy of it the API keeps         *)
(* (ReloadingCredentialStore), the sessions it issues, and the requests    *)
(* that consult them.  The API's routes run on a threadpool, so a refresh  *)
(* of the copy - stat, read, assign the store, assign the stamp - is four  *)
(* steps that other requests and the operator's writes fall between.       *)
(*                                                                         *)
(* A stamp (mtime and size) is the number of the write that left it, 0 for *)
(* an absent file; the hash of a secret is the secret.  Roles, which only  *)
(* later guards read, are left out, and the clock is the event that a      *)
(* session's term ends.                                                    *)
(***************************************************************************)
EXTENDS Integers

CONSTANTS
    Account,    \* ids that may hold a credential
    Personas,   \* those the persona roster knows
    Secret,     \* secrets an operator may set and a user may try
    NoSecret,   \* the account has no credential
    NoAccount,  \* a token that was never issued has no holder
    Token,      \* tokens the API may issue
    Worker,     \* threads that serve requests
    Operator,   \* operators who may run the tool at once
    MaxWrites   \* bound: writes of the credential file

ASSUME AccountAssumption == Personas \subseteq Account /\ NoAccount \notin Account
ASSUME SecretAssumption  == NoSecret \notin Secret
ASSUME TokenAssumption   == Token # {}
ASSUME WritesAssumption  == MaxWrites \in Nat \ {0}

VARIABLES
    file,       \* the credential file
    copy,       \* the API's store and the stamp it is filed under
    sessions,   \* token -> who holds it and how it stands
    request,    \* worker -> the request it serves
    tool,       \* operator -> what the tool is about to save
    overlapped  \* history: see Overlap

accountVars == <<file, copy, sessions, request, tool, overlapped>>

----------------------------------------------------------------------------
(* The file and the copy. *)

KeyTable == [Account -> Secret \union {NoSecret}]

Empty == [a \in Account |-> NoSecret]

\* The file: its contents, whether a reader can parse it, and how many writes made it.
File == [there: BOOLEAN, readable: BOOLEAN, keys: KeyTable, write: 0 .. MaxWrites]

Stamp(f) == IF f.there THEN f.write ELSE 0

Copy == [keys: KeyTable, stamp: 0 .. MaxWrites]

\* What a request may lawfully be answered from, given the file as it stands:
\* its contents, or, while it cannot be read, the last good copy.
Lawful(f) == IF f.there /\ ~f.readable THEN copy.keys ELSE f.keys

----------------------------------------------------------------------------
(* Requests.  op is what was asked, who and secret what a login presents,  *)
(* token what a call presents; seen and loaded are a refresh's locals,     *)
(* forgotten once used, and asks is the member of CredentialChecker it is  *)
(* for.  History: of is the write that loaded comes from, and lawful what  *)
(* the file has held since the refresh began.                              *)

Request ==
    [op: {"login", "call", "logout"},
     at: {"idle", "stat", "load", "assign", "stamp", "check", "issue", "serve"},
     asks: {"bootstrapped", "verify", "identity"},
     who: Account \union {NoAccount}, secret: Secret \union {NoSecret}, token: Token,
     seen: 0 .. MaxWrites, loaded: KeyTable, of: 0 .. MaxWrites, lawful: SUBSET KeyTable]

Idle ==
    [op |-> "call", at |-> "idle", asks |-> "identity", who |-> NoAccount,
     secret |-> NoSecret, token |-> CHOOSE t \in Token : TRUE,
     seen |-> 0, loaded |-> Empty, of |-> 0, lawful |-> {}]

\* A refresh that has read a file since replaced and is still to finish.
Behind(w) == request[w].at \in {"assign", "stamp"} /\ request[w].of # file.write

\* So will one that took the stamp before the file was replaced.
Late(w) == Behind(w) \/ (request[w].at = "load" /\ request[w].seen # Stamp(file))

\* A second request consults the copy while such a refresh is under way.
Overlap(w) == \E v \in Worker \ {w} : Late(v)

Proceed(w, r) == request' = [request EXCEPT ![w] = r]

Respond(w) == Proceed(w, Idle)

\* What is left of a request when its refresh is over.
Past(w, step) == [request[w] EXCEPT !.at = step, !.lawful = {}]

Consult(w, question) == [Past(w, "stat") EXCEPT !.asks = question]

----------------------------------------------------------------------------
(* The operator, and time. *)

\* Every write of the file is seen by the requests under way.
Write(f) ==
    /\ file.write < MaxWrites
    /\ file' = [f EXCEPT !.write = file.write + 1]
    /\ request' =
           [w \in Worker |->
               IF request[w].at \in {"load", "assign", "stamp", "check"}
               THEN [request[w] EXCEPT !.lawful = @ \union {Lawful(f)}]
               ELSE request[w]]

\* The tool loads the file (an unreadable one ends it) and is told what to do:
\* remove an id that is stored, or set an id's secret once it has been prompted for.
ToolLoad(o) ==
    /\ tool[o].at = "idle"
    /\ file.readable
    /\ \E a \in Account, s \in Secret \union {NoSecret} :
          /\ s = NoSecret => file.keys[a] # NoSecret
          /\ tool' = [tool EXCEPT ![o] =
                         [at |-> "save", keys |-> [file.keys EXCEPT ![a] = s]]]
    /\ UNCHANGED <<file, copy, sessions, request, overlapped>>

\* os.replace: the old file or the new one, never a torn one.
ToolSave(o) ==
    /\ tool[o].at = "save"
    /\ Write([file EXCEPT !.there = TRUE, !.readable = TRUE, !.keys = tool[o].keys])
    /\ tool' = [tool EXCEPT ![o] = [at |-> "idle", keys |-> Empty]]
    /\ UNCHANGED <<copy, sessions, overlapped>>

\* Someone deletes the file, or leaves it broken while editing it by hand.
HandEdit ==
    /\ file.there
    /\ \/ Write([file EXCEPT !.there = FALSE, !.readable = TRUE, !.keys = Empty])
       \/ Write([file EXCEPT !.readable = FALSE])
    /\ UNCHANGED <<copy, sessions, tool, overlapped>>

\* A session's eight hours are over.
TermEnds(t) ==
    /\ sessions[t].state = "live"
    /\ sessions' = [sessions EXCEPT ![t].state = "expired"]
    /\ UNCHANGED <<file, copy, request, tool, overlapped>>

----------------------------------------------------------------------------
(* A request arrives. *)

LoginArrives(w) ==
    /\ request[w].at = "idle"
    /\ \E a \in Account, s \in Secret :
          Proceed(w, [Idle EXCEPT !.op = "login", !.at = "stat", !.asks = "bootstrapped",
                               !.who = a, !.secret = s])
    /\ UNCHANGED <<file, copy, sessions, tool, overlapped>>

SessionGone(t) == [sessions EXCEPT ![t].state = "gone"]

\* InMemorySessionStore.resolve: an expired session is dropped where it is found.
\* A token that was never issued is unknown, and answered like a dropped one.
CallArrives(w, t) ==
    /\ request[w].at = "idle"
    /\ sessions[t].state # "unused"
    /\ IF sessions[t].state = "live"
       THEN \E op \in {"call", "logout"} :
               /\ Proceed(w, [Idle EXCEPT !.op = op, !.at = "stat", !.token = t,
                                       !.who = sessions[t].who])
               /\ UNCHANGED sessions
       ELSE sessions' = SessionGone(t) /\ UNCHANGED request
    /\ UNCHANGED <<file, copy, tool, overlapped>>

----------------------------------------------------------------------------
(* _refresh. *)

\* The stat decides whether anything is to be done.
Stat(w) ==
    /\ request[w].at = "stat"
    /\ LET seen == Stamp(file)
           r == [request[w] EXCEPT !.seen = seen, !.lawful = {Lawful(file)}]
       IN  Proceed(w, CASE seen = copy.stamp -> [r EXCEPT !.at = "check", !.seen = 0]
                     [] seen # copy.stamp /\ seen = 0 ->
                            [r EXCEPT !.at = "assign", !.loaded = Empty, !.of = file.write]
                     [] OTHER -> [r EXCEPT !.at = "load"])
    /\ overlapped' = (overlapped \/ Overlap(w))
    /\ UNCHANGED <<file, copy, sessions, tool>>

\* CredentialStore.load: whatever is there by now; an unreadable file changes nothing.
Load(w) ==
    /\ request[w].at = "load"
    /\ IF file.readable
       THEN Proceed(w, [request[w] EXCEPT !.at = "assign", !.loaded = file.keys, !.of = file.write])
       ELSE Proceed(w, [request[w] EXCEPT !.at = "check", !.seen = 0])
    /\ UNCHANGED <<file, copy, sessions, tool, overlapped>>

AssignStore(w) ==
    /\ request[w].at = "assign"
    /\ copy' = [copy EXCEPT !.keys = request[w].loaded]
    /\ Proceed(w, [request[w] EXCEPT !.at = "stamp", !.loaded = Empty])
    /\ UNCHANGED <<file, sessions, tool, overlapped>>

\* Mutant: the file is looked at again once it has been read.
StampAfterRead(w) == Stamp(file)

\* The stamp of the stat, taken before the read.
RecordedStamp(w) == request[w].seen

AssignStamp(w) ==
    /\ request[w].at = "stamp"
    /\ copy' = [copy EXCEPT !.stamp = RecordedStamp(w)]
    /\ Proceed(w, [request[w] EXCEPT !.at = "check", !.seen = 0, !.of = 0])
    /\ UNCHANGED <<file, sessions, tool, overlapped>>

----------------------------------------------------------------------------
(* login and authenticate read the copy. *)

\* Mutant: any account that has a credential may log in.
HasCredential(w) == copy.keys[request[w].who] # NoSecret

Verified(w) == copy.keys[request[w].who] = request[w].secret

\* Mutant: a session is good for its term, whatever becomes of the account.
SessionSuffices(w) == sessions[request[w].token].state = "live"

HasIdentity(w) == copy.keys[request[w].who] # NoSecret

Check(w) ==
    /\ request[w].at = "check"
    /\ LET r == request[w] IN
          \/ /\ r.asks = "bootstrapped"
             /\ IF copy.keys # Empty THEN Proceed(w, Consult(w, "verify")) ELSE Respond(w)
             /\ UNCHANGED sessions
          \/ /\ r.asks = "verify"
             /\ IF Verified(w) THEN Proceed(w, Past(w, "issue")) ELSE Respond(w)
             /\ UNCHANGED sessions
          \/ /\ r.asks = "identity"
             /\ IF HasIdentity(w)
                THEN Proceed(w, Past(w, "serve")) /\ UNCHANGED sessions
                ELSE Respond(w) /\ sessions' = SessionGone(r.token)
    /\ UNCHANGED <<file, copy, tool, overlapped>>

\* issue: an id the roster does not know has no session, whatever its secret.
Issue(w) ==
    /\ request[w].at = "issue"
    /\ IF request[w].who \in Personas
       THEN \E t \in Token :
               /\ sessions[t].state = "unused"
               /\ sessions' = [sessions EXCEPT ![t] = [who |-> request[w].who, state |-> "live"]]
       ELSE UNCHANGED sessions
    /\ Respond(w)
    /\ UNCHANGED <<file, copy, tool, overlapped>>

\* The handler resolves the token again, without the credentials; logout revokes it.
Serve(w) ==
    /\ request[w].at = "serve"
    /\ LET t == request[w].token IN
          IF request[w].op = "logout" \/ sessions[t].state # "live"
          THEN sessions' = SessionGone(t)
          ELSE UNCHANGED sessions
    /\ Respond(w)
    /\ UNCHANGED <<file, copy, tool, overlapped>>

----------------------------------------------------------------------------
(* The API starts on a file it can read, or on none: its constructor refreshes. *)

AccountsInit ==
    /\ \E keys \in {Empty} \union {[a \in Account |-> s] : s \in Secret} :
          /\ file = [there |-> keys # Empty, readable |-> TRUE, keys |-> keys,
                     write |-> IF keys = Empty THEN 0 ELSE 1]
          /\ copy = [keys |-> keys, stamp |-> Stamp(file)]
    /\ sessions = [t \in Token |-> [who |-> NoAccount, state |-> "unused"]]
    /\ request = [w \in Worker |-> Idle]
    /\ tool = [o \in Operator |-> [at |-> "idle", keys |-> Empty]]
    /\ overlapped = FALSE

AccountsNext ==
    \/ \E o \in Operator : ToolLoad(o) \/ ToolSave(o)
    \/ HandEdit
    \/ \E t \in Token : TermEnds(t)
    \/ \E w \in Worker :
          \/ LoginArrives(w)
          \/ \E t \in Token : CallArrives(w, t)
          \/ Stat(w) \/ Load(w) \/ AssignStore(w) \/ AssignStamp(w)
          \/ Check(w) \/ Issue(w) \/ Serve(w)

AccountsSpec == AccountsInit /\ [][AccountsNext]_accountVars

----------------------------------------------------------------------------
(* Properties. *)

AccountsTypeOK ==
    /\ file \in File
    /\ copy \in Copy
    /\ sessions \in [Token -> [who: Account \union {NoAccount},
                               state: {"unused", "live", "expired", "gone"}]]
    /\ request \in [Worker -> Request]
    /\ tool \in [Operator -> [at: {"idle", "save"}, keys: KeyTable]]
    /\ overlapped \in BOOLEAN

(***************************************************************************)
(* A copy filed under the file's stamp is a copy of the file: no write is  *)
(* mistaken for one already read, however it falls into a refresh.  Two    *)
(* refreshes that overlap across a write can break this (_refresh assigns  *)
(* store and stamp separately), and nothing else does.                     *)
(***************************************************************************)
StampMatchesStore ==
    \/ overlapped
    \/ \E w \in Worker : Behind(w)
    \/ copy.stamp = Stamp(file) /\ file.readable => copy.keys = file.keys

(***************************************************************************)
(* authenticate: a session of an account the operator has withdrawn is     *)
(* refused by its next request.  A request that got past the check belongs *)
(* to an account the file held at some moment since its refresh began.     *)
(***************************************************************************)
WithdrawnAccountIsRefused ==
    [][\A w \in Worker :
          request[w].at = "check" /\ request'[w].at = "serve" /\ ~overlapped =>
              \E keys \in request[w].lawful : keys[request[w].who] # NoSecret]_accountVars

(***************************************************************************)
(* login: a secret that has been rotated away or removed opens no session, *)
(* although the request compares it with a copy read at another moment.    *)
(***************************************************************************)
LoginNeedsCurrentSecret ==
    [][\A w \in Worker :
          request[w].at = "check" /\ request'[w].at = "issue" /\ ~overlapped =>
              \E keys \in request[w].lawful :
                  keys[request[w].who] = request[w].secret]_accountVars
=============================================================================
