---------------------------- MODULE MCDriverGPS -----------------------------
(* Small instances of DriverGPS. Bound explores two windows of one driver, and   *)
(* one window that two drivers use in turn; aborted requests that arrive late    *)
(* are explored with one window, or with one point, and the capture lock is      *)
(* asked for and granted while one point at most is captured, and that not old. *)
EXTENDS DriverGPS, TLC

Symmetry == Permutations(Members) \cup Permutations(Windows)

AtMostOne(S) == Cardinality(S \ {None}) <= 1

OnePointAtMost == \E i \in Points : points[i].by = None

Bound ==
  /\ \/ /\ late = {} \/ OnePointAtMost
        /\ AtMostOne({session} \cup {drivers[t] : t \in Trips}
                     \cup {points[i].member : i \in Points}
                     \cup {windows[w].member : w \in Windows})
     \/ AtMostOne({IF windows[w] = Blank THEN None ELSE w : w \in Windows}
                  \cup {points[i].by : i \in Points})
  /\ (\E w \in Windows : asks[w] # NoAsks \/ captureLock = Granted(w))
       => OnePointAtMost /\ late = {} /\ stale = {}
=============================================================================
