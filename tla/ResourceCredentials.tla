------------------------- MODULE ResourceCredentials -------------------------
(***************************************************************************)
(* Credentials of caches and SQL databases                                 *)
(* (packages/cache/src/{credentials,config}.ts,                            *)
(* packages/sql-database/src/{credentials,config}.ts): read key by key     *)
(* from the configuration, which may be refreshed between two reads, and   *)
(* used by the clients and pools made from them.  Under IAM a connection's *)
(* password is a token that a provider signs for one host and keeps for    *)
(* CacheFor of its Validity (cache/.../elasticache-token.ts,               *)
(* sql-database/src/rds-token-provider.ts).  The provider reads the clock  *)
(* before it awaits the signer, and calls of it overlap.                   *)
(*                                                                         *)
(* Ports and intervals are left out of what is read: nothing depends on    *)
(* them but the numbers handed to the driver.                              *)
(***************************************************************************)
EXTENDS Integers, Sequences, SequencesExt, TLC

CONSTANTS
    Engine,         \* "cache" or "sql"
    Platform,
    Caller,         \* the connections that may be opened, each once
    Pool,           \* caller -> "writer" or "reader" (a cache has writers only)
    Settings,       \* the configurations: functions from keys to values
    Absent,
    CacheFor, Validity,
    Latency,        \* bound: how long signing may take
    MaxTime, MaxChanges

VARIABLES
    now,
    served,     \* key -> what the configuration serves
    reader,     \* the resolution of the credentials: the keys read so far
    info,       \* <<connection info>> once resolved, <<>> before or after an error
    cached,     \* the writer's and the reader's provider -> its token and expiry
    conn,       \* caller -> its connection
    changes

vars == <<now, served, reader, info, cached, conn, changes>>

-----------------------------------------------------------------------------
(* Reading the keys. *)

CacheKeys == <<"host", "authMode", "tls", "clusterMode", "user", "keyPrefix">>
SqlKeys == <<"host", "user", "engine", "database", "authMode", "ssl", "readHost">>
Shared == IF Engine = "cache" THEN CacheKeys ELSE SqlKeys
Mode(got) == IF got.authMode = "iam" THEN "iam" ELSE "password"

\* The key read after those that are common to both modes.
Extra(got) ==
    CASE Mode(got) = "password" -> IF Engine = "cache" THEN <<"authToken">> ELSE <<"password">>
      [] OTHER -> IF Engine = "cache" THEN <<"region">> ELSE <<>>

ReadKeys(got) ==
    IF \A i \in DOMAIN Shared : Shared[i] \in DOMAIN got THEN Shared \o Extra(got) ELSE Shared

\* A factory of token providers comes with the platform (resolveTokenProviderFactory).
HasFactory == Platform = "aws"

\* The error the keys read so far lead to before the next one is read.
Refused(got) ==
    \/ "host" \in DOMAIN got /\ got.host = Absent
    \/ Engine = "sql" /\ "user" \in DOMAIN got /\ got.user = Absent
    \/ /\ \A i \in DOMAIN Shared : Shared[i] \in DOMAIN got
       /\ \/ Mode(got) = "iam" /\ (~HasFactory \/ got.user = Absent)
          \/ "region" \in DOMAIN got /\ got.region = Absent
          \/ Engine = "sql" /\ "password" \in DOMAIN got /\ got.password = Absent

\* IAM forces TLS; without it only "false" turns it off.
Secure(got) == Mode(got) = "iam" \/ got[IF Engine = "cache" THEN "tls" ELSE "ssl"] # "false"

ConnectionInfo(got) ==
    [host |-> got.host, authMode |-> Mode(got), secure |-> Secure(got),
     readHost |-> IF Engine = "sql" THEN got.readHost ELSE Absent,
     user |-> got.user,
     password |-> IF Mode(got) = "iam" THEN Absent
                  ELSE got[IF Engine = "cache" THEN "authToken" ELSE "password"]]

-----------------------------------------------------------------------------
NoToken == [host |-> Absent, signed |-> 0]
Idle == [st |-> "none", stage |-> "writer", since |-> 0, token |-> NoToken,
         main |-> NoToken, host |-> Absent]
Stage == {"writer", "reader"}

Init ==
    /\ now = 0
    /\ served \in Settings
    /\ reader = [st |-> "reading", got |-> <<>>]
    /\ info = <<>>
    /\ cached = [g \in Stage |-> [token |-> NoToken, expiresAt |-> 0]]
    /\ conn = [c \in Caller |-> Idle]
    /\ changes = 0

\* The namespace has fetched other values.
Refresh(values) ==
    /\ changes < MaxChanges
    /\ values # served
    /\ served' = values
    /\ changes' = changes + 1
    /\ UNCHANGED <<now, reader, info, cached, conn>>

\* resolveCacheCredentials and resolveDatabaseCredentials: one key at a time.
ReadKey ==
    /\ reader.st = "reading"
    /\ ~Refused(reader.got)
    /\ \E i \in DOMAIN ReadKeys(reader.got) :
        LET key == ReadKeys(reader.got)[i] IN
        /\ key \notin DOMAIN reader.got
        /\ \A j \in 1 .. (i - 1) : ReadKeys(reader.got)[j] \in DOMAIN reader.got
        /\ reader' = [reader EXCEPT !.got = (key :> served[key]) @@ @]
    /\ UNCHANGED <<now, served, info, cached, conn, changes>>

Refuse ==
    /\ reader.st = "reading"
    /\ Refused(reader.got)
    /\ reader' = [reader EXCEPT !.st = "error"]
    /\ UNCHANGED <<now, served, info, cached, conn, changes>>

Resolve ==
    /\ reader.st = "reading"
    /\ ~Refused(reader.got)
    /\ ToSet(ReadKeys(reader.got)) \subseteq DOMAIN reader.got
    /\ reader' = [reader EXCEPT !.st = "done"]
    /\ info' = <<ConnectionInfo(reader.got)>>
    /\ UNCHANGED <<now, served, cached, conn, changes>>

-----------------------------------------------------------------------------
(* Connections and their tokens. *)

Target(c) ==
    IF Pool[c] = "reader" /\ info[1].readHost # Absent THEN info[1].readHost ELSE info[1].host
StageHost(stage) == IF stage = "writer" THEN info[1].host ELSE info[1].readHost

Answered(c, stage, token, main) ==
    conn' = [conn EXCEPT ![c] =
        [st |-> "answered", stage |-> stage, since |-> now, token |-> token, main |-> main,
         host |-> Target(c)]]

\* getToken: the token that is kept, while it lasts, or a signer is asked.
GetToken(c, stage, main) ==
    IF now < cached[stage].expiresAt
    THEN Answered(c, stage, cached[stage].token, main)
    ELSE conn' = [conn EXCEPT ![c] =
            [st |-> "signing", stage |-> stage, since |-> now, token |-> NoToken, main |-> main,
             host |-> Target(c)]]

\* A pool or client connects: with the password, or with getIamAuth.
ConnectByPassword(c) ==
    /\ info # <<>> /\ info[1].authMode = "password"
    /\ conn[c].st = "none"
    /\ conn' = [conn EXCEPT ![c] = [Idle EXCEPT !.st = "open", !.host = Target(c)]]
    /\ UNCHANGED <<now, served, reader, info, cached, changes>>

ConnectByToken(c) ==
    /\ info # <<>> /\ info[1].authMode = "iam"
    /\ conn[c].st = "none"
    /\ GetToken(c, "writer", NoToken)
    /\ UNCHANGED <<now, served, reader, info, cached, changes>>

Sign(c) ==
    /\ conn[c].st = "signing"
    /\ conn' = [conn EXCEPT ![c].st = "signed",
                            ![c].token = [host |-> StageHost(conn[c].stage), signed |-> now]]
    /\ UNCHANGED <<now, served, reader, info, cached, changes>>

SignFails(c) ==
    /\ conn[c].st = "signing"
    /\ conn' = [conn EXCEPT ![c].st = "error"]
    /\ UNCHANGED <<now, served, reader, info, cached, changes>>

\* Seeded fault: the clock is read when the signer has answered.
KeepLate(c) ==
    /\ conn[c].st = "signed"
    /\ cached' = [cached EXCEPT ![conn[c].stage] =
                    [token |-> conn[c].token, expiresAt |-> now + CacheFor]]
    /\ conn' = [conn EXCEPT ![c].st = "answered"]
    /\ UNCHANGED <<now, served, reader, info, changes>>

\* An older call's token may replace a newer one; it keeps its own expiry.
Keep(c) ==
    /\ conn[c].st = "signed"
    /\ cached' = [cached EXCEPT ![conn[c].stage] =
                    [token |-> conn[c].token, expiresAt |-> conn[c].since + CacheFor]]
    /\ conn' = [conn EXCEPT ![c].st = "answered"]
    /\ UNCHANGED <<now, served, reader, info, changes>>

\* getIamAuth has the writer's token, and then one of the reader's host for the
\* reader's URL, which a pool does not use: it connects with the first.
AskForReader(c) ==
    /\ conn[c].st = "answered" /\ conn[c].stage = "writer"
    /\ info[1].readHost # Absent
    /\ GetToken(c, "reader", conn[c].token)
    /\ UNCHANGED <<now, served, reader, info, cached, changes>>

Open(c) ==
    /\ conn[c].st = "answered"
    /\ conn[c].stage = "reader" \/ info[1].readHost = Absent
    /\ conn' = [conn EXCEPT ![c].st = "open", ![c].since = now,
                            ![c].main = IF conn[c].stage = "reader" THEN @ ELSE conn[c].token]
    /\ UNCHANGED <<now, served, reader, info, cached, changes>>

\* Time passes while signers work, for one call at most Latency; what follows
\* an answer runs at once.
Tick ==
    /\ now < MaxTime
    /\ \A c \in Caller :
        /\ conn[c].st # "answered"
        /\ conn[c].st \in {"signing", "signed"} => now < conn[c].since + Latency
    /\ now' = now + 1
    /\ UNCHANGED <<served, reader, info, cached, conn, changes>>

Next ==
    \/ ReadKey \/ Refuse \/ Resolve \/ Tick
    \/ \E f \in Settings : Refresh(f)
    \/ \E c \in Caller :
        \/ ConnectByPassword(c) \/ ConnectByToken(c) \/ Sign(c) \/ SignFails(c)
        \/ Keep(c) \/ AskForReader(c) \/ Open(c)

Spec == Init /\ [][Next]_vars

-----------------------------------------------------------------------------
(* Properties. *)

\* A connection opened under IAM is over TLS, and its password is a token that was
\* signed for the writer's host less than Validity before it was opened, however
\* calls of a provider overlap (getIamAuth, getToken).
TokensUsable ==
    \A c \in Caller : conn[c].st = "open" /\ info[1].authMode = "iam" =>
        /\ info[1].secure
        /\ conn[c].main.host = info[1].host
        /\ conn[c].since < conn[c].main.signed + Validity
=============================================================================
