------------------------- MODULE MCReadingPosition -------------------------
(* TLC instance of what a user's devices keep at the server: ReadingPosition *)
(* and Profile, which share nothing, so a behaviour explores one of them.    *)
(* Devices are interchangeable.                                             *)
EXTENDS ReadingPosition, Profile, TLC

VARIABLE part

DevicesInit == Init /\ ProfileInit /\ part \in {"position", "profile"}

DevicesNext ==
    \/ part = "position" /\ Next /\ UNCHANGED <<profileVars, part>>
    \/ part = "profile" /\ ProfileNext /\ UNCHANGED <<vars, part>>

DevicesSpec == DevicesInit /\ [][DevicesNext]_<<vars, profileVars, part>>

DevicesTypeOK == TypeOK /\ ProfileTypeOK

DeviceSymmetry == Permutations(Device) \cup Permutations(Phone)
=============================================================================
