--------------------------- MODULE ReadersWriters ---------------------------
(***************************************************************************)
(* What a readers-writer lock on one key promises its clients.  A step may *)
(* move several clients at once (a release hands the lock on), each along  *)
(* the life of one request, and never into a state in which a writer       *)
(* shares the lock.  Writers must not starve; readers get no such promise. *)
(***************************************************************************)
CONSTANT Clients

VARIABLE mode

Modes == {"idle", "wantR", "wantW", "reading", "writing"}

\* The life of a request: ask, wait unless the lock is free, hold, release.
Moves == {<<"idle", "wantR">>, <<"idle", "reading">>, <<"wantR", "reading">>,
          <<"idle", "wantW">>, <<"idle", "writing">>, <<"wantW", "writing">>,
          <<"reading", "idle">>, <<"writing", "idle">>}

Exclusive(md) ==
    \A c, d \in Clients :
        c # d /\ md[c] = "writing" => md[d] \notin {"reading", "writing"}

Init == mode = [c \in Clients |-> "idle"]

Step ==
    /\ mode' \in [Clients -> Modes]
    /\ \A c \in Clients : mode'[c] = mode[c] \/ <<mode[c], mode'[c]>> \in Moves
    /\ Exclusive(mode')

Safety == Init /\ [][Step]_mode

WriterServed == \A c \in Clients : mode[c] = "wantW" ~> mode[c] = "writing"

Spec == Safety /\ WriterServed
=============================================================================
