--------------------------- MODULE MCPermissions ---------------------------
(* Instances of Permissions for TLC. *)
EXTENDS Permissions, TLC

CONSTANTS d, e, f, g   \* two directories, two files or a file and a link

MCMembers == {d, e, f, g}
MCRows == 1..4

\* Row 1 is a directory with a directory in it, in which two entries lie.
Base ==
    [kind |-> <<"dir", "dir", "file", "file">>, member |-> <<d, e, f, g>>,
     above |-> <<{}, {1}, {1, 2}, {1, 2}>>, depth |-> <<1, 2, 3, 3>>,
     canon |-> <<1, 2, 3, 4>>, leads |-> <<0, 0, 0, 0>>,
     placed |-> {3, 4}, stored |-> {},
     source |-> (d :> NULL @@ e :> NULL @@ f :> f @@ g :> g),
     closed |-> {}, refuses |-> {}, crowded |-> {},
     options |-> {"root", "owner", "mode", "acls", "times", "dirs"}, sidecar |-> "always"]

With(c, more) == [c EXCEPT !.options = @ \cup more]
Without(c, less) == [c EXCEPT !.options = @ \ less]

\* The user is not root: a closed directory, a scaffold above it, refusals.
User == Without(Base, {"root", "owner"})
Restricted ==
    {[User EXCEPT !.closed = {e}, !.member = <<NULL, e, f, g>>],
     [User EXCEPT !.closed = {d}, !.sidecar = "onError", !.refuses = {f}],
     [With(User, {"changes"}) EXCEPT !.closed = {e}],
     [With(User, {"owner"}) EXCEPT !.sidecar = "onError"],
     [With(User, {"failFast"}) EXCEPT !.refuses = {g}],
     [With(User, {"noErrors"}) EXCEPT !.refuses = {g}, !.sidecar = "onError"],
     [User EXCEPT !.closed = {d}, !.kind[3] = "symlink", !.leads[3] = 1],
     [Without(User, {"dirs"}) EXCEPT !.member = <<NULL, e, f, g>>, !.crowded = {3}]}

\* Hard links, symlinks to a file, to its second name, to a directory and to
\* nothing.
Linked ==
    {[Base EXCEPT !.canon = <<1, 2, 3, 3>>],
     [Base EXCEPT !.kind = <<"dir", "file", "file", "symlink">>, !.above = <<{}, {1}, {1}, {1}>>,
                  !.depth = <<1, 2, 2, 2>>, !.canon = <<1, 2, 2, 4>>, !.leads[4] = 3,
                  !.placed = {2, 3, 4}],
     [Base EXCEPT !.kind[4] = "symlink", !.leads[4] = 3, !.sidecar = "never"],
     [Base EXCEPT !.kind[4] = "symlink", !.leads[4] = 1, !.refuses = {d}],
     [Base EXCEPT !.kind[4] = "symlink", !.sidecar = "onError"],
     [Without(With(Base, {"changes"}), {"acls"}) EXCEPT !.crowded = {4}]}

\* The payload f in the link source, with one name or with two.
LinkTree ==
    LET L == With([Base EXCEPT !.stored = {f}], {"linkTree"})
    IN {[L EXCEPT !.source[g] = f], [L EXCEPT !.stored = {f, g}, !.refuses = {f}],
        [L EXCEPT !.source[g] = f, !.crowded = {4}, !.member[1] = NULL],
        [Without(L, {"root", "owner"}) EXCEPT !.closed = {e}, !.source[g] = f],
        [With(L, {"failFast"}) EXCEPT !.refuses = {f}],
        [L EXCEPT !.sidecar = "onError", !.refuses = {f}]}

\* The root is a member, stored with a slash more, with a directory and a file
\* in it and its scaffold as row 4; then the directory has the smaller id.
RootFirst ==
    [Base EXCEPT !.kind[4] = "dir", !.member[4] = NULL, !.above = <<{}, {1}, {1}, {}>>,
                 !.depth = <<2, 2, 2, 1>>, !.placed = {3}]
RootLast ==
    [RootFirst EXCEPT !.above = <<{2}, {}, {2}, {}>>, !.member = <<e, d, f, NULL>>]
Homed ==
    UNION {{h, [Without(h, {"root", "owner"}) EXCEPT !.closed = {d}]} : h \in {RootFirst, RootLast}}
    \cup {[RootFirst EXCEPT !.sidecar = "never"],
          [RootFirst EXCEPT !.kind = Base.kind, !.member = Base.member, !.depth = <<2, 2, 3, 3>>,
                            !.above = Base.above, !.placed = Base.placed]}

MCCases == Restricted \cup Linked \cup LinkTree \cup Homed
MCModes == {With(Base, {"changes"})}
=============================================================================
