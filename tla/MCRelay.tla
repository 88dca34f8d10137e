------------------------------- MODULE MCRelay -------------------------------
(***************************************************************************)
(* RelayReservations for TLC, from two initial states, so that each        *)
(* question has the faults it needs: one reservation, 1, with everything   *)
(* that can happen to it (renewals, a lapse, two errors), after            *)
(* reservation 2 was settled without traffic; and two reservations of one  *)
(* account whose quota does not fit both holds, with less that goes wrong. *)
(***************************************************************************)
EXTENDS RelayReservations

Used(r) == [NoRow EXCEPT !.state = "settled", !.fact = Settlement("exact", 0, 0)]

RelayInit ==
    /\ usage = [committed |-> 0, recovery |-> 0, held |-> 0]
    /\ expired = [r \in Reservations |-> FALSE]
    /\ entitled = TRUE
    /\ record = [r \in Reservations |-> NoRecord]
    /\ group = [r \in Reservations |-> NoGroup]
    /\ moved = [r \in Reservations |-> 0]
    /\ op = [r \in Reservations |-> Idle]
    /\ replay = NoPass
    /\ link = "up"
    /\ toController = << >>
    /\ toEdge = << >>
    /\ \/ /\ row = [r \in Reservations |-> IF r = 1 THEN NoRow ELSE Used(r)]
          /\ client = [r \in Reservations |-> IF r = 1 THEN "new" ELSE "gone"]
          /\ faults = [errors |-> 0, breaks |-> 0, crashes |-> 0,
                       lapses |-> 0, renewals |-> 0]
       \/ /\ row = [r \in Reservations |-> NoRow]
          /\ client = [r \in Reservations |-> "new"]
          /\ faults = [errors |-> MaxErrors - 1, breaks |-> 0, crashes |-> 0,
                       lapses |-> MaxLapses, renewals |-> MaxRenew]

RelaySpec == RelayInit /\ [][Next]_vars
=============================================================================
