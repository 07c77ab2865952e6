--------------------------- MODULE MCQueryService ---------------------------
(* A small instance of QueryService: the daemon with two queries and its   *)
(* mutations, alone and beside CLI queries; with one query among foreign   *)
(* commits and CLI queries; and the Python connection with two threads and *)
(* with CLI queries.                                                       *)
EXTENDS QueryService, TLC

CONSTANTS p1, p2

Setting(service, procs, queries, asks, changes, foreign, cli) ==
    [service |-> service, procs |-> procs, queries |-> queries, asks |-> asks, changes |-> changes, commits |-> 2,
     foreign |-> foreign, cli |-> cli]

MCSymmetry == Permutations({p1, p2})

MCSettings ==
    {Setting("server", 2, {"all"}, 3, {"insert"}, FALSE, FALSE),
     [Setting("server", 2, {"all"}, 3, {"insert"}, FALSE, TRUE) EXCEPT !.commits = 1],
     Setting("server", 2, {"ids"}, 3, {"update"}, FALSE, FALSE),
     Setting("server", 1, {"all", "ids"}, 3, Changes, TRUE, FALSE),
     Setting("server", 1, {"all"}, 3, {"insert"}, TRUE, TRUE),
     Setting("python", 2, {"all", "ids"}, 3, {"delete", "update"}, TRUE, FALSE),
     Setting("python", 1, {"all"}, 3, {"delete"}, TRUE, TRUE)}
=============================================================================
