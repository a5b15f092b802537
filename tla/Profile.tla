------------------------------ MODULE Profile ------------------------------
(***************************************************************************)
(* What a user's devices keep at the server besides positions: the App      *)
(* Store country (PUT /users/me/storefront, a column of users) and the last *)
(* time the app asked for a rating (POST /me/rate-us/attempt, a row of      *)
(* user_rate_prompt_state), both read by GET /me.  Each is written by one   *)
(* statement that overwrites, stamped with a time taken before the row is   *)
(* locked; the devices do not wait for each other.                          *)
(***************************************************************************)
EXTENDS Naturals, Sequences

CONSTANTS Phone,        \* devices of one user
          MaxWrites,    \* bound: writes ever begun
          MaxTime       \* bound: the last instant considered

ASSUME ProfileAssumption == {MaxWrites, MaxTime} \subseteq Nat

VARIABLES profile,      \* profile[f]: number of the write the row carries, 0: none
          call,         \* call[p]: the request of p
          writes,       \* history: the writes, in the order they began
          time

profileVars == <<profile, call, writes, time>>

-----------------------------------------------------------------------------
Field == {"storefront", "rateUs"}

\* after: writes that were complete when this one began.
Write == [field : Field, stamp : 0..MaxTime, after : SUBSET (1..MaxWrites),
          state : {"running", "applied", "complete", "failed"}]

\* shown: what GET /me has read; after: writes complete when it began.
Call == [at : {"idle"}] \cup [at : {"write", "reply"}, write : 1..MaxWrites]
          \cup [at : {"me", "answer"}, shown : [Field -> 0..MaxWrites],
                after : SUBSET (1..MaxWrites)]
NoCall == [at |-> "idle"]

ProfileTypeOK ==
    /\ profile \in [Field -> 0..MaxWrites]
    /\ call \in [Phone -> Call]
    /\ writes \in Seq(Write)
    /\ time \in 0..MaxTime

ProfileInit ==
    /\ profile = [f \in Field |-> 0]
    /\ call = [p \in Phone |-> NoCall]
    /\ writes = <<>>
    /\ time = 0

Complete == {n \in 1..Len(writes) : writes[n].state = "complete"}

-----------------------------------------------------------------------------
\* handleRateUsAttempt up to time.Now(), handlePutUserStorefront up to the
\* start of its statement, whose now() is then.
BeginWrite(p, f) ==
    /\ call[p].at = "idle" /\ Len(writes) < MaxWrites
    /\ writes' = Append(writes, [field |-> f, stamp |-> time, after |-> Complete,
                                 state |-> "running"])
    /\ call' = [call EXCEPT ![p] = [at |-> "write", write |-> Len(writes) + 1]]
    /\ UNCHANGED <<profile, time>>

\* Mutant: ON CONFLICT DO NOTHING.
ApplyFirst(p) ==
    LET n == call[p].write IN
    /\ call[p].at = "write"
    /\ profile' = [profile EXCEPT ![writes[n].field] = IF @ = 0 THEN n ELSE @]
    /\ writes' = [writes EXCEPT ![n].state = "applied"]
    /\ call' = [call EXCEPT ![p].at = "reply"]
    /\ UNCHANGED time

\* UpsertAttempt, UpdateAppStorefront: value and stamp, over whatever is there.
Apply(p) ==
    LET n == call[p].write IN
    /\ call[p].at = "write"
    /\ profile' = [profile EXCEPT ![writes[n].field] = n]
    /\ writes' = [writes EXCEPT ![n].state = "applied"]
    /\ call' = [call EXCEPT ![p].at = "reply"]
    /\ UNCHANGED time

ApplyFails(p) ==
    /\ call[p].at = "write"
    /\ writes' = [writes EXCEPT ![call[p].write].state = "failed"]
    /\ call' = [call EXCEPT ![p] = NoCall]
    /\ UNCHANGED <<profile, time>>

\* 200, or an error although the row was written: the device knows no better,
\* but the request is over.
Reply(p) ==
    /\ call[p].at = "reply"
    /\ writes' = [writes EXCEPT ![call[p].write].state = "complete"]
    /\ call' = [call EXCEPT ![p] = NoCall]
    /\ UNCHANGED <<profile, time>>

\* GET /me: bearerAuthHandler loads the user, the storefront with it.
LoadUser(p) ==
    /\ call[p].at = "idle"
    /\ call' = [call EXCEPT ![p] = [at |-> "me", after |-> Complete,
                                    shown |-> [profile EXCEPT !["rateUs"] = 0]]]
    /\ UNCHANGED <<profile, writes, time>>

\* handleAuthMe reads the attempt in a statement of its own.
GetRateUs(p) ==
    /\ call[p].at = "me"
    /\ call' = [call EXCEPT ![p] = [@ EXCEPT !.at = "answer", !.shown["rateUs"] = profile["rateUs"]]]
    /\ UNCHANGED <<profile, writes, time>>

EndMe(p) ==
    /\ call[p].at \in {"me", "answer"}
    /\ call' = [call EXCEPT ![p] = NoCall]
    /\ UNCHANGED <<profile, writes, time>>

ProfileTick == time < MaxTime /\ time' = time + 1 /\ UNCHANGED <<profile, call, writes>>

ProfileNext ==
    \/ \E p \in Phone : \/ \E f \in Field : BeginWrite(p, f)
                        \/ Apply(p) \/ ApplyFails(p) \/ Reply(p)
                        \/ LoadUser(p) \/ GetRateUs(p) \/ EndMe(p)
    \/ ProfileTick

-----------------------------------------------------------------------------
(* Properties *)

\* n is a value a reader may see when the writes in seen are complete: none of
\* them replaced it before they began.
Fresh(n, f, seen) ==
    \A m \in seen : writes[m].field = f => n # 0 /\ n \notin writes[m].after

\* What was complete before another write began does not come back after it,
\* neither in the tables nor in an answer of GET /me, which reads twice; and a
\* row's stamp is older than that of a complete write only if the two
\* overlapped (the rating prompt counts its pause from this stamp).
LastWriteSeen ==
    /\ \A f \in Field :
         /\ Fresh(profile[f], f, Complete)
         /\ \A m \in Complete : writes[m].field = f /\ writes[m].stamp > writes[profile[f]].stamp
                                  => m \notin writes[profile[f]].after
    /\ \A p \in Phone : call[p].at = "answer" =>
         \A f \in Field : Fresh(call[p].shown[f], f, call[p].after)
=============================================================================
