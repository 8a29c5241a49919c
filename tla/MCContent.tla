------------------------------ MODULE MCContent ------------------------------
(***************************************************************************)
(* Instance of Content for TLC: two rows, two calls, one image.            *)
(***************************************************************************)
EXTENDS Content, TLC

CONSTANTS k1

Nothing == [title |-> Unsent, start |-> Unsent, end |-> Unsent, images |-> Unsent,
            point |-> Unsent, radius |-> Unsent]
Whole(start, end, images, radius) ==
  [title |-> 1, start |-> start, end |-> end, images |-> images, point |-> 1, radius |-> radius]

\* Whole rows and parts of one; some are never right, some only for some rows.
MCRequests ==
  [event |-> { Whole(0, 1, {k1}, Unsent), Whole(1, 2, {}, Unsent), Whole(2, 1, {}, Unsent),
               [Nothing EXCEPT !.start = 1], [Nothing EXCEPT !.end = 3] },
   announcement |-> { Whole(0, 1, {k1}, 1), Whole(1, None, {}, Unsent),
                      [Nothing EXCEPT !.start = 1], [Nothing EXCEPT !.point = None],
                      [Nothing EXCEPT !.radius = 1] },
   place |-> { Whole(0, 1, {}, Unsent), [Nothing EXCEPT !.title = 2], [Nothing EXCEPT !.point = 2] }]

Alike == Permutations(Rows) \cup Permutations(Calls) \cup Permutations(Users)
=============================================================================
