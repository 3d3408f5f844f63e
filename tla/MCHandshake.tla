---------------------------- MODULE MCHandshake -----------------------------
(***************************************************************************)
(* Instances of Handshake for TLC.  "a", "b" and "e" stand for letters,    *)
(* "A" for a character that is not allowed, <<"c">> and <<"d">> for the    *)
(* names control and data.  The files differ from one of two good ones, or *)
(* are put together from rows that may clash.                              *)
(***************************************************************************)
EXTENDS Handshake

ControlName == <<"c">>
DataName == <<"d">>
ReservedNames == {ControlName, DataName, <<"e", "e">>}

Web == <<"a">>
Ssh == <<"a", "-", "b">>
BadNames == {<<>>, <<"-", "a">>, <<"a", "-">>, <<"a", "-", "-", "b">>, <<"A">>,
             <<"a", "a", "a", "a", "a">>}

Row(name, secret) == [name |-> name, shared_secret |-> secret]
Dir(name, secret, root) == [name |-> name, shared_secret |-> secret, root_dir |-> root]
Id(form, id) == [form |-> form, id |-> id]
Override(form, id, bps) == [node_id |-> Id(form, id), bytes_per_sec |-> bps]
Group(name, token) == [name |-> name, group_token |-> token]

GoodClient ==
    [groups |-> <<>>, relay |-> None, server_node_id |-> "server", group_token |-> "t",
     expose |-> <<Row(Web, "s1")>>, static |-> <<>>, consume |-> <<>>, level |-> "info"]
GoodServer ==
    [groups |-> <<Group("g", "t")>>, relay |-> <<>>, server_node_id |-> None, group_token |-> None,
     expose |-> <<>>, static |-> <<>>, consume |-> <<>>, level |-> "info"]

(* Rows that clash with each other in every way. *)
ClashingClients ==
    {[GoodClient EXCEPT !.expose = e, !.static = s, !.consume = c] :
        e \in {<<>>, <<Row(Web, "s1")>>, <<Row(Web, "s2")>>, <<Row(Ssh, "s1"), Row(Web, "s1")>>,
               <<Row(Web, "s1"), Row(Web, "s2")>>},
        s \in {<<>>, <<Dir(Web, "s1", "directory")>>,
               <<Dir(Web, "s1", "directory"), Dir(Web, "s2", "directory")>>},
        c \in {<<>>, <<Row(Web, "s1")>>, <<Row(Ssh, "s1"), Row(Ssh, "s2")>>}}
OddClients ==
    {[GoodClient EXCEPT !.expose = <<Row(n, "s1")>>] : n \in BadNames \cup ReservedNames}
    \cup {[GoodClient EXCEPT !.static = <<Dir(Ssh, "s1", root)>>] : root \in {"missing", "file"}}
    \cup {[GoodClient EXCEPT !.expose = <<Row(Web, "")>>],
          [GoodClient EXCEPT !.consume = <<Row(Ssh, "")>>],
          [GoodClient EXCEPT !.level = "loud"],
          [GoodClient EXCEPT !.relay = <<>>],
          [GoodClient EXCEPT !.groups = <<Group("g", "t")>>]}
    \cup {[GoodClient EXCEPT !.server_node_id = x] : x \in {None, "", "garbage"}}
    \cup {[GoodClient EXCEPT !.group_token = x] : x \in {None, ""}}

Servers ==
    {GoodServer}
    \cup {[GoodServer EXCEPT !.groups = g] :
            g \in {<<Group("g", "")>>, <<Group("g", "t"), Group("g", "u")>>,
                   <<Group("g", "t"), Group("h", "u")>>, <<Group("g", "t"), Group("h", "t")>>}}
    \cup {[GoodServer EXCEPT !.relay = r] :
            r \in {<<Override("hex", "n", 1), Override("zbase32", "m", 2)>>,
                   <<Override("hex", "n", 1), Override("zbase32", "n", 2)>>,
                   <<Override("other", "n", 1)>>}}

Files == ClashingClients \cup OddClients \cup Servers
ConsumerRows == {Row(Web, "s1"), Row(Ssh, "s1")}
=============================================================================
