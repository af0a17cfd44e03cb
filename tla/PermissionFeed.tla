---------------------------- MODULE PermissionFeed ----------------------------
(***************************************************************************)
(* What the service promises to those who follow a channel instead of      *)
(* asking the API: every record is the content an entry has or has had,    *)
(* under the id of that entry, on a channel its topic was given.           *)
(*                                                                         *)
(* There are no requests, no retries, no failures and no restarts here:    *)
(* PermissionSync implements this, and they are its own.  What the service *)
(* does not promise is not here either: that the last record is the        *)
(* current content, that records come in the order of the writes, and that *)
(* a removal is announced at all.                                          *)
(***************************************************************************)
CONSTANTS Topics, Resources, Perms, Channels, NoEntry, NoRecord

VARIABLES
    content,   \* the stored permissions of each topic and resource
    ever,      \* all that have ever been stored there
    given,     \* the channels each topic has ever been given
    feed       \* the last record of each resource id of each channel

vars == <<content, ever, given, feed>>

Keys == Topics \X Resources

Init ==
    /\ content = [k \in Keys |-> NoEntry]
    /\ ever = [k \in Keys |-> {}]
    /\ given = [t \in Topics |-> {}]
    /\ feed = [p \in Channels \X Resources |-> NoRecord]

Write(k, p) ==
    /\ content' = [content EXCEPT ![k] = p]
    /\ ever' = [ever EXCEPT ![k] = @ \cup {p}]
    /\ UNCHANGED <<given, feed>>

Remove(k) ==
    /\ content' = [content EXCEPT ![k] = NoEntry]
    /\ UNCHANGED <<ever, given, feed>>

Give(t, c) ==
    /\ given' = [given EXCEPT ![t] = @ \cup {c}]
    /\ UNCHANGED <<content, ever, feed>>

\* The record does not name the topic.
Announce(k, c, p) ==
    /\ c \in given[k[1]]
    /\ p \in ever[k]
    /\ feed' = [feed EXCEPT ![<<c, k[2]>>] = p]
    /\ UNCHANGED <<content, ever, given>>

Next ==
    \/ \E k \in Keys, p \in Perms : Write(k, p)
    \/ \E k \in Keys : Remove(k)
    \/ \E t \in Topics, c \in Channels : Give(t, c)
    \/ \E k \in Keys, c \in Channels, p \in Perms : Announce(k, c, p)

Spec == Init /\ [][Next]_vars
===============================================================================
