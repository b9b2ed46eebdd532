------------------------------- MODULE Social --------------------------------
(****************************************************************************)
(* The social graph (profile/social, on its Postgres repository): follows   *)
(* and blocks, and what the other services ask of it.                       *)
(*                                                                          *)
(* A request that would put two accounts in touch carries them in pair.     *)
(* open is auxiliary: the pair has been without a block at some moment      *)
(* since the request began.                                                 *)
(****************************************************************************)
EXTENDS Calls

VARIABLES
    follows,    \* the rows of follows: <<follower, followee>>
    blocks      \* the rows of blocks: <<blocker, blocked>>

socialVars == <<follows, blocks>>

Pairs == {p \in SUBSET AccountIds : Cardinality(p) = 2}

(* main's isBlocked and isMutual, from profile/social's relationship *)
IsBlocked(p) == \E a, b \in p : <<a, b>> \in blocks
IsMutual(p) == \A a, b \in p : a # b => <<a, b>> \in follows

(* a request's local variables when it is about to put p in touch *)
Contact(op, pc, p, more) ==
    Joined([op |-> op, pc |-> pc, pair |-> p, open |-> ~IsBlocked(p)], more)

IsContact(k) == "pair" \in DOMAIN call[k]

SocialInit == follows = {} /\ blocks = {}

(* Follow looks for a block and inserts the row in two statements *)
Follow(k, a, b) ==
    /\ a # b
    /\ ~IsBlocked({a, b})
    /\ Begin("follow", k, [op |-> "follow", pc |-> "insert", pair |-> {a, b},
                           open |-> TRUE, by |-> a])
    /\ UNCHANGED socialVars

InsertFollow(k) ==
    /\ At(k, "follow", "insert")
    /\ \E b \in call[k].pair \ {call[k].by} : follows' = follows \cup {<<call[k].by, b>>}
    /\ Answer(k)
    /\ UNCHANGED blocks

Unfollow(a, b) ==
    /\ <<a, b>> \in follows
    /\ Serve("follow")
    /\ follows' = follows \ {<<a, b>>}
    /\ UNCHANGED <<call, blocks>>

(* a block leaves the follows of both as they are *)
Block(a, b) ==
    /\ a # b /\ <<a, b>> \notin blocks
    /\ Serve("block")
    /\ blocks' = blocks \cup {<<a, b>>}
    /\ UNCHANGED <<call, follows>>

Unblock(a, b) ==
    /\ <<a, b>> \in blocks
    /\ Serve("block")
    /\ blocks' = blocks \ {<<a, b>>}
    /\ call' = [k \in Slots |->
                    IF IsContact(k) /\ call[k].pair = {a, b} /\ ~IsBlocked({a, b})'
                    THEN [call[k] EXCEPT !.open = TRUE] ELSE call[k]]
    /\ UNCHANGED follows

SocialNext ==
    \/ \E a, b \in AccountIds : Unfollow(a, b) \/ Block(a, b) \/ Unblock(a, b)
    \/ \E k \in Slots, a, b \in AccountIds : Follow(k, a, b)
    \/ \E k \in Slots : InsertFollow(k)
=============================================================================
