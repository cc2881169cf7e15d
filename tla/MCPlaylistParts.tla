---------------------------- MODULE MCPlaylistParts ----------------------------
(***************************************************************************)
(* Two bounds of PlaylistStore for TLC in one run: the names of playlists, *)
(* for several users, playlists and names; and the items of one playlist   *)
(* of one user.  No statement of an add or a removal touches the names,    *)
(* and none of a rename the items.                                         *)
(***************************************************************************)
EXTENDS MCPlaylistStore

VARIABLE part   \* what the requests are about

NamesPart == [users |-> Users, playlists |-> Playlists, names |-> Names,
              ops |-> {"create", "rename", "delete"}]
ItemsPart(u, p) == [users |-> {u}, playlists |-> {p}, names |-> {a},
                    ops |-> {"create", "delete", "add", "remove"}]

Within(q) ==
    /\ q.op \in part.ops /\ q.user \in part.users /\ q.pl \in part.playlists
    /\ q.op \in {"create", "rename"} => q.arg \in part.names

PartsInit ==
    /\ Init
    /\ part \in {NamesPart} \cup {ItemsPart(u, p) : u \in Users, p \in Playlists}

PartsNext ==
    /\ UNCHANGED part
    /\ Next
    /\ \A r \in Slots : req'[r] = Idle \/ Within(req'[r])

PartsSpec == PartsInit /\ [][PartsNext]_<<vars, part>>
================================================================================
