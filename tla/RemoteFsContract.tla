-------------------------- MODULE RemoteFsContract --------------------------
(***************************************************************************)
(* What the caller of a client may rely on, without sessions, requests,    *)
(* answers or probes: a call acts on the server's tree at most once, in    *)
(* one step between its being made and its being answered, and does        *)
(* nothing but what it asks for.  When it is told "done" its promise has   *)
(* been kept, and it has acted if nobody else can have; when it is told    *)
(* "failed" it has not acted; when it is told "perhaps" it knows nothing.  *)
(***************************************************************************)
CONSTANTS
    Clients,
    Idle,           \* no call
    Effect(_, _, _),  \* what a call may make of a tree, in one step
    Promise(_, _, _), \* what it promises of such a step, its own or another's
    Binding(_),     \* whether done means that the promise was kept
    Deed(_)         \* whether done means that the call itself has acted

VARIABLES
    tree,   \* the server's file system
    asked,  \* the call in progress
    acted,  \* whether the last call has changed the tree
    kept,   \* whether its promise has been true
    told    \* what its caller was told: "nothing", "done", "failed", "perhaps"

vars == <<tree, asked, acted, kept, told>>

Init ==
    /\ asked = [c \in Clients |-> Idle]
    /\ acted = [c \in Clients |-> FALSE]
    /\ kept = [c \in Clients |-> FALSE]
    /\ told = [c \in Clients |-> "nothing"]

\* A call is made.
Ask(c) ==
    /\ asked[c] = Idle /\ asked'[c] # Idle
    /\ asked' = [asked EXCEPT ![c] = asked'[c]]
    /\ acted' = [acted EXCEPT ![c] = FALSE]
    /\ kept' = [kept EXCEPT ![c] = Promise(asked'[c], tree, tree)]
    /\ told' = [told EXCEPT ![c] = "nothing"]
    /\ UNCHANGED tree

\* A call is refused at once, or does not concern the tree.
Decline(c) ==
    /\ asked[c] = Idle
    /\ acted' = [acted EXCEPT ![c] = FALSE]
    /\ kept' = [kept EXCEPT ![c] = kept'[c]]
    /\ \E t \in {"nothing", "failed"} : told' = [told EXCEPT ![c] = t]
    /\ UNCHANGED <<tree, asked>>

\* A call acts, or only looks; all calls in progress may see their promise kept.
Act(c) ==
    /\ asked[c] # Idle
    /\ UNCHANGED <<asked, told>>
    /\ acted' = [acted EXCEPT ![c] = @ \/ tree' # tree]
    /\ tree' # tree => ~acted[c] /\ Effect(asked[c], tree, tree')
    /\ kept' = [d \in Clients |->
                  IF asked[d] = Idle THEN kept[d]
                  ELSE kept[d] \/ Promise(asked[d], tree, tree')]

\* A call is answered.
Tell(c) ==
    /\ asked[c] # Idle
    /\ asked' = [asked EXCEPT ![c] = Idle]
    /\ \/ /\ Binding(asked[c]) => kept[c]
          /\ Deed(asked[c]) => acted[c]
          /\ told' = [told EXCEPT ![c] = "done"]
       \/ /\ ~acted[c]
          /\ told' = [told EXCEPT ![c] = "failed"]
       \/ told' = [told EXCEPT ![c] = "perhaps"]
    /\ UNCHANGED <<tree, acted, kept>>

Next == \E c \in Clients : Ask(c) \/ Decline(c) \/ Act(c) \/ Tell(c)

Spec == Init /\ [][Next]_vars
=============================================================================
