------------------------------ MODULE RedisLock ------------------------------
(***************************************************************************)
(* RedisLockManager (src/adapters/outbound/locking): acquire(keys), as an  *)
(* async context manager, over SET NX EX and DEL.  The value of a key is   *)
(* the string "1" whoever sets it, so the server does not know an owner:   *)
(* its state is the set of keys present.  A client only remembers, in its  *)
(* list `acquired', what it has set and not yet deleted.                   *)
(***************************************************************************)
EXTENDS Naturals, Sequences

CONSTANTS
    Client,           \* the calls of acquire()
    Name,             \* the lock names
    MayLapse          \* whether a key can vanish under a live holder

VARIABLES
    redis,            \* the keys present on the server
    acquired          \* each client's list of keys it believes it holds

Held(c) == {acquired[c][i] : i \in 1 .. Len(acquired[c])}

LockTypeOK ==
    /\ redis \subseteq Name
    /\ acquired \in [Client -> Seq(Name)]

LockInit ==
    /\ redis = {}
    /\ acquired = [c \in Client |-> << >>]

-----------------------------------------------------------------------------
(* Mutant of SetKey: a plain SET, without NX.                              *)
SetKeyAlways(c, k) ==
    /\ redis' = redis \cup {k}
    /\ acquired' = [acquired EXCEPT ![c] = Append(@, k)]

(* _acquire_single: SET NX EX succeeds, acquire() notes the key.           *)
SetKey(c, k) ==
    /\ k \notin redis
    /\ redis' = redis \cup {k}
    /\ acquired' = [acquired EXCEPT ![c] = Append(@, k)]

(* The SET raises: it may or may not have reached the server, and the key  *)
(* is not noted.                                                           *)
SetKeyFails(c, k) ==
    /\ redis' \in {redis, redis \cup {k}}
    /\ UNCHANGED acquired

(* The last SET before the deadline found the key present.                 *)
Contended(k) == k \in redis /\ UNCHANGED <<redis, acquired>>

LastAcquired(c) == acquired[c][Len(acquired[c])]

DropLast(c) ==
    acquired' = [acquired EXCEPT ![c] = SubSeq(@, 1, Len(@) - 1)]

(* _safe_release, in the reverse order of acquisition: DEL of the key,     *)
(* whoever set it.                                                         *)
DeleteKey(c) ==
    /\ acquired[c] # << >>
    /\ redis' = redis \ {LastAcquired(c)}
    /\ DropLast(c)

(* _safe_release when the DEL does not reach the server: the error is      *)
(* swallowed and the key stays.                                            *)
DeleteKeyFails(c) ==
    /\ acquired[c] # << >>
    /\ DropLast(c)
    /\ UNCHANGED redis

(* The client's process is gone, its keys are not.                         *)
Forget(c) ==
    /\ acquired' = [acquired EXCEPT ![c] = << >>]
    /\ UNCHANGED redis

(* Mutant of Expire: SET NX without EX.                                    *)
NoExpiry(k) == FALSE

(* A key's TTL runs out, or the server loses it.  Where locks do not       *)
(* lapse, every holder is done with its keys within the TTL and only the   *)
(* keys nobody holds any more get that old.                                *)
Expire(k) ==
    /\ k \in redis
    /\ MayLapse \/ \A c \in Client : k \notin Held(c)
    /\ redis' = redis \ {k}
    /\ UNCHANGED acquired
=============================================================================
