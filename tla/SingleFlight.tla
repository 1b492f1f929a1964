---------------------------- MODULE SingleFlight ----------------------------
(***************************************************************************)
(* ElectedSingleFlight and the TMDB client on top of it: concurrent calls  *)
(* for one key in one process share one request, and read its result from  *)
(* the Redis cache that other processes write as well.                     *)
(*                                                                         *)
(* The coroutines of a process run between two suspension points without   *)
(* interruption.  The asyncio lock is never held across one, so taking it  *)
(* does not suspend; keys do not interact, so there is one.  A cache entry *)
(* is named for the call, here or in another process, that wrote it.  With *)
(* MaxRounds no less than the number of callers the model is the unlimited *)
(* flight of the LLM client, whose results may be uncacheable.             *)
(***************************************************************************)
EXTENDS Naturals

CONSTANTS
  Callers,      \* the calls of this process for the key
  Bypassing,    \* the calls with bypass_cache
  Foreign,      \* the entries other processes write
  MaxRounds,    \* owners elected per batch
  MaxTroubles,  \* bound: cancelled calls and failed operations of the cache
  NoCaller      \* no owner

ASSUME FlightConstants ==
  /\ Bypassing \subseteq Callers
  /\ Foreign \cap Callers = {}
  /\ MaxRounds \in Nat /\ MaxTroubles \in Nat
  /\ NoCaller \notin Callers

VARIABLES
  pc,         \* the suspension point of a call, or how it ended
  inFlight,   \* the owner whose event _in_flight holds
  event,      \* the owner whose event a call waits for, or itself
  ended,      \* the owners whose event is set
  rounds,     \* _rounds[key], 0 when missing
  error,      \* the owner whose exception _errors holds, if any
  cache,      \* the entry in the cache, if any
  answer,     \* the entry or result a call returns, if any
  troubles,   \* how many calls were cancelled and cache operations failed
  published,  \* history: the entries that have been in the cache
  before,     \* history: those from before the flight a call joined or leads
  careless,   \* history: owners that neither wrote nor deleted the entry
  barren,     \* history: owners in a row that ended without a result
  last        \* history: the owner that ended last

flightVars == <<inFlight, event, ended, rounds, error>>
cacheVars == <<cache, published>>
endVars == <<careless, barren, last>>
callVars == <<pc, flightVars, cacheVars, answer, troubles, before, endVars>>

CacheEntries == Callers \cup Foreign
OwnerPoints == {"checking", "fetching", "published", "returning", "cleaning", "cleaned"}
WaiterPoints == {"reading", "missed", "waiting", "unserved"}
Outcomes == {"answered", "failed", "capped", "cancelled"}

GoTo(c, point) == pc' = [pc EXCEPT ![c] = point]

FlightInit ==
  /\ pc = [c \in Callers |-> "idle"]
  /\ inFlight = NoCaller
  /\ event = [c \in Callers |-> NoCaller]
  /\ ended = {} /\ rounds = 0 /\ error = {}
  /\ cache \in {{}} \cup {{x} : x \in Foreign}
  /\ answer = [c \in Callers |-> {}]
  /\ troubles = 0
  /\ published = cache
  /\ before = [c \in Callers |-> {}]
  /\ careless = {} /\ barren = 0 /\ last = NoCaller
-----------------------------------------------------------------------------
(***************************************************************************)
(* Owners.                                                                 *)
(***************************************************************************)
\* c becomes the owner, and produce() runs up to its first suspension.
Own(c, round) ==
  /\ inFlight' = c
  /\ event' = [event EXCEPT ![c] = c]
  /\ rounds' = round
  /\ before' = [before EXCEPT ![c] = published]
  /\ GoTo(c, IF c \in Bypassing THEN "fetching" ELSE "checking")

\* An owner wrote the entry its waiters will find, or deleted what was there.
Tidy(c) == pc[c] \in {"published", "cleaned"}

\* Mutant: a cancelled owner wakes nobody up.
EndWithoutEvent(c, outcome) ==
  /\ inFlight' = NoCaller
  /\ ended' = IF outcome = "cancelled" THEN ended ELSE ended \cup {c}
  /\ GoTo(c, outcome)
  /\ careless' = IF Tidy(c) THEN careless ELSE careless \cup {c}
  /\ barren' = IF outcome = "answered" THEN 0 ELSE barren + 1
  /\ last' = c

\* Mutant: a cancelled owner leaves its event in the table.
EndInFlight(c, outcome) ==
  /\ inFlight' = IF outcome = "cancelled" THEN c ELSE NoCaller
  /\ ended' = ended \cup {c}
  /\ GoTo(c, outcome)
  /\ careless' = IF Tidy(c) THEN careless ELSE careless \cup {c}
  /\ barren' = IF outcome = "answered" THEN 0 ELSE barren + 1
  /\ last' = c

\* The finally block: the key is free and every waiter wakes up.
End(c, outcome) ==
  /\ inFlight' = NoCaller
  /\ ended' = ended \cup {c}
  /\ GoTo(c, outcome)
  /\ careless' = IF Tidy(c) THEN careless ELSE careless \cup {c}
  /\ barren' = IF outcome = "answered" THEN 0 ELSE barren + 1
  /\ last' = c

\* The last look at the cache before the request finds an entry.
CheckHit(c) ==
  /\ pc[c] = "checking" /\ cache # {}
  /\ answer' = [answer EXCEPT ![c] = cache]
  /\ GoTo(c, "returning")
  /\ UNCHANGED <<flightVars, cacheVars, troubles, before, endVars>>

CheckMiss(c) ==
  /\ pc[c] = "checking" /\ cache = {}
  /\ GoTo(c, "fetching")
  /\ UNCHANGED <<flightVars, cacheVars, answer, troubles, before, endVars>>

\* The response arrives and is written to the cache.
Store(c) ==
  /\ pc[c] = "fetching"
  /\ cache' = {c}
  /\ published' = published \cup {c}
  /\ answer' = [answer EXCEPT ![c] = {c}]
  /\ GoTo(c, "published")
  /\ UNCHANGED <<flightVars, troubles, before, endVars>>

\* A result that is not cached: no completion, or a truncated one.
LeaveUncached(c) ==
  /\ pc[c] = "fetching"
  /\ answer' = [answer EXCEPT ![c] = {c}]
  /\ GoTo(c, "returning")
  /\ UNCHANGED <<flightVars, cacheVars, troubles, before, endVars>>

Succeed(c) ==
  /\ pc[c] \in {"published", "returning"}
  /\ End(c, "answered")
  /\ rounds' = 0 /\ error' = {}
  /\ UNCHANGED <<event, cacheVars, answer, troubles, before>>

\* produce() raises: the request fails, or the cache does, if only after the write.
ProduceFails(c) ==
  /\ \/ pc[c] = "fetching" /\ UNCHANGED troubles
     \/ /\ pc[c] \in {"checking", "published"}
        /\ troubles < MaxTroubles /\ troubles' = troubles + 1
  /\ error' = {c}
  /\ answer' = [answer EXCEPT ![c] = {}]
  /\ \/ /\ c \in Bypassing
        /\ GoTo(c, "cleaning")
        /\ UNCHANGED <<inFlight, ended, endVars>>
     \/ /\ c \notin Bypassing
        /\ End(c, "failed")
  /\ UNCHANGED <<event, rounds, cacheVars, before>>

\* Mutant: no on_owner_failure.
CleanNothing(c) ==
  /\ pc[c] = "cleaning"
  /\ GoTo(c, "cleaned")
  /\ UNCHANGED <<flightVars, cacheVars, answer, troubles, before, endVars>>

\* on_owner_failure of a bypassing owner deletes the entry it did not read.
Clean(c) ==
  /\ pc[c] = "cleaning"
  /\ cache' = {}
  /\ GoTo(c, "cleaned")
  /\ UNCHANGED <<flightVars, published, answer, troubles, before, endVars>>

\* The delete fails as well, and its exception is raised instead.
CleanFail(c) ==
  /\ pc[c] = "cleaning"
  /\ troubles < MaxTroubles /\ troubles' = troubles + 1
  /\ End(c, "failed")
  /\ UNCHANGED <<event, rounds, error, cacheVars, answer, before>>

Raise(c) ==
  /\ pc[c] = "cleaned"
  /\ End(c, "failed")
  /\ UNCHANGED <<event, rounds, error, cacheVars, answer, troubles, before>>
-----------------------------------------------------------------------------
(***************************************************************************)
(* Callers and waiters.                                                    *)
(***************************************************************************)
\* run(): the first caller starts a batch, the others join the flight.
Enter(c) ==
  \/ /\ inFlight = NoCaller
     /\ Own(c, 1)
     /\ UNCHANGED <<ended, error>>
  \/ /\ inFlight # NoCaller
     /\ event' = [event EXCEPT ![c] = inFlight]
     /\ before' = [before EXCEPT ![c] = before[inFlight]]
     /\ GoTo(c, "waiting")
     /\ UNCHANGED <<inFlight, ended, rounds, error>>

Call(c) ==
  /\ pc[c] = "idle"
  /\ \/ /\ c \in Bypassing
        /\ Enter(c)
     \/ /\ c \notin Bypassing
        /\ GoTo(c, "reading")
        /\ UNCHANGED <<flightVars, before>>
  /\ UNCHANGED <<cacheVars, answer, troubles, endVars>>

\* A read of the cache that finds an entry ends the call.
Found(c) ==
  /\ cache # {}
  /\ answer' = [answer EXCEPT ![c] = cache]
  /\ GoTo(c, "answered")

Read(c) ==
  /\ pc[c] = "reading"
  /\ \/ Found(c)
     \/ cache = {} /\ GoTo(c, "missed") /\ UNCHANGED answer
  /\ UNCHANGED <<flightVars, cacheVars, troubles, before, endVars>>

Join(c) ==
  /\ pc[c] = "missed"
  /\ Enter(c)
  /\ UNCHANGED <<cacheVars, answer, troubles, endVars>>

\* The event is set: the waiter wakes up and looks for the owner's result.
Look(c) ==
  /\ pc[c] = "waiting" /\ event[c] \in ended
  /\ \/ Found(c)
     \/ cache = {} /\ GoTo(c, "unserved") /\ UNCHANGED answer
  /\ UNCHANGED <<flightVars, cacheVars, troubles, before, endVars>>

\* A read of the cache raises.
ReadFail(c) ==
  /\ pc[c] = "reading" \/ (pc[c] = "waiting" /\ event[c] \in ended)
  /\ troubles < MaxTroubles /\ troubles' = troubles + 1
  /\ GoTo(c, "failed")
  /\ UNCHANGED <<flightVars, cacheVars, answer, before, endVars>>

\* Mutant: the cap is reached one round early.
ExceededEarly(round) == round >= MaxRounds

\* More owners than the batch may have.
Exceeded(round) == round > MaxRounds

\* Mutant: an unserved waiter does not see who was elected before it.
ElectUnseen(c) ==
  /\ pc[c] = "unserved"
  /\ \/ /\ Exceeded(rounds + 1)
        /\ GoTo(c, "capped")
        /\ UNCHANGED <<inFlight, event, rounds, before>>
     \/ /\ ~Exceeded(rounds + 1)
        /\ Own(c, rounds + 1)
  /\ UNCHANGED <<ended, error, cacheVars, answer, troubles, endVars>>

\* Another waiter was elected, or none will be, or this one is.
Elect(c) ==
  /\ pc[c] = "unserved"
  /\ \/ /\ inFlight # NoCaller
        /\ event' = [event EXCEPT ![c] = inFlight]
        /\ GoTo(c, "waiting")
        /\ UNCHANGED <<inFlight, rounds, before>>
     \/ /\ inFlight = NoCaller /\ Exceeded(rounds + 1)
        /\ GoTo(c, "capped")
        /\ UNCHANGED <<inFlight, event, rounds, before>>
     \/ /\ inFlight = NoCaller /\ ~Exceeded(rounds + 1)
        /\ Own(c, rounds + 1)
  /\ UNCHANGED <<ended, error, cacheVars, answer, troubles, endVars>>

\* The task that awaits the call is cancelled: an owner's finally block runs,
\* but neither its except clause nor on_owner_failure.
Cancel(c) ==
  /\ troubles < MaxTroubles /\ troubles' = troubles + 1
  /\ \/ /\ pc[c] \in OwnerPoints
        /\ End(c, "cancelled")
     \/ /\ pc[c] \in WaiterPoints
        /\ GoTo(c, "cancelled")
        /\ UNCHANGED <<inFlight, ended, endVars>>
  /\ answer' = [answer EXCEPT ![c] = {}]
  /\ UNCHANGED <<event, rounds, error, cacheVars, before>>
-----------------------------------------------------------------------------
(***************************************************************************)
(* The cache.                                                              *)
(***************************************************************************)
\* Another process writes the entry.
WriteElsewhere(x) ==
  /\ x \notin published
  /\ cache' = {x}
  /\ published' = published \cup {x}
  /\ UNCHANGED <<pc, flightVars, answer, troubles, before, endVars>>

\* The entry expires, or is evicted, flushed or deleted by another process.
Expire ==
  /\ cache # {} /\ cache' = {}
  /\ UNCHANGED <<pc, flightVars, published, answer, troubles, before, endVars>>
-----------------------------------------------------------------------------
OwnerStep(c) ==
  \/ CheckHit(c) \/ CheckMiss(c) \/ Store(c) \/ LeaveUncached(c) \/ Succeed(c)
  \/ ProduceFails(c) \/ Clean(c) \/ Raise(c)

CallerStep(c) == Read(c) \/ Join(c) \/ Look(c) \/ Elect(c)

Trouble(c) == CleanFail(c) \/ ReadFail(c) \/ Cancel(c)

FlightNext ==
  \/ \E c \in Callers : Call(c) \/ OwnerStep(c) \/ CallerStep(c) \/ Trouble(c)
  \/ \E x \in Foreign : WriteElsewhere(x)
  \/ Expire

FlightSpec == FlightInit /\ [][FlightNext]_callVars

\* The event loop runs what is ready, and requests time out.
FairFlightSpec == FlightSpec /\ \A c \in Callers : WF_callVars(OwnerStep(c) \/ CallerStep(c))
-----------------------------------------------------------------------------
(***************************************************************************)
(* Properties.                                                             *)
(***************************************************************************)
\* The types of the variables.
FlightTypeOK ==
  /\ pc \in [Callers -> {"idle"} \cup OwnerPoints \cup WaiterPoints \cup Outcomes]
  /\ inFlight \in Callers \cup {NoCaller}
  /\ event \in [Callers -> Callers \cup {NoCaller}]
  /\ ended \subseteq Callers
  /\ rounds \in Nat /\ (rounds > MaxRounds => rounds = 1)
  /\ error \in {{}} \cup {{c} : c \in Callers}
  /\ cache \in {{}} \cup {{x} : x \in CacheEntries}
  /\ answer \in [Callers -> {{}} \cup {{x} : x \in CacheEntries}]
  /\ troubles \in 0 .. MaxTroubles
  /\ published \subseteq CacheEntries
  /\ before \in [Callers -> SUBSET CacheEntries]
  /\ careless \subseteq ended
  /\ barren \in Nat
  /\ last \in ended \cup {NoCaller}

\* However many waiters wake up together, and whoever calls meanwhile, at most
\* one call runs produce().
OneProducer ==
  \A c, d \in Callers : pc[c] \in OwnerPoints /\ pc[d] \in OwnerPoints => c = d

\* Nobody waits for an event that no one will set: every waiter's owner is at
\* work or has woken it up, also when owners fail or are cancelled.
WaitersAreServed ==
  \A c \in Callers : pc[c] = "waiting" => event[c] \in ended \cup {inFlight}

\* A waiter fails fast only after MaxRounds owners in a row ended without a
\* result, and with the error of the last one, if that one failed at all.
FailFastIsEarned ==
  [][\A c \in Callers : pc[c] = "unserved" /\ pc'[c] = "capped" =>
       /\ barren >= MaxRounds
       /\ pc[last] = "failed" => error = {last}]_callVars

\* What a call with bypass_cache returns was not in the cache before the flight
\* it leads or has joined.
BypassIsFresh ==
  \A c \in Bypassing : answer[c] \cap before[c] = {}

\* A call with bypass_cache returns an older entry only if the owner it waited
\* for last ended without writing the entry or deleting it: it was cancelled,
\* could not delete, or does not bypass and found the entry or failed.
BypassIsFreshUnlessCareless ==
  \A c \in Bypassing : answer[c] \cap before[c] # {} => event[c] \in careless

\* Every call ends: with a result, an error or its cancellation.
CallsEnd ==
  \A c \in Callers : pc[c] # "idle" ~> pc[c] \in Outcomes
=============================================================================
