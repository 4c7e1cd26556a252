------------------------------ MODULE MemoryMap ------------------------------
(***************************************************************************)
(* What the memory store promises to its users: a map from memories and    *)
(* tiers to contents.  A client asks for a set of effects; each of them    *)
(* happens at once and at most once, in any order, or not at all, and      *)
(* nothing else ever changes what a reader sees.                           *)
(***************************************************************************)
EXTENDS Naturals

CONSTANTS Clients, Memories, Tiers, Contents, None

Effects == [kind : {"put"}, memory : Memories, tier : Tiers, content : Contents]
             \cup [kind : {"drop"}, memory : Memories, tier : Tiers]
             \cup [kind : {"remove"}, memory : Memories]

VARIABLES
  known,     \* the memories there are
  content,   \* what a reader of a tier of a memory gets
  todo       \* the effects each client has asked for and not got yet

mapVars == <<known, content, todo>>

Empty == [t \in Tiers |-> None]

MapInit ==
  /\ known = {}
  /\ content = [m \in Memories |-> Empty]
  /\ todo = [c \in Clients |-> {}]

\* A client asks, and may add a memory by it.
Ask(c) ==
  /\ todo[c] = {}
  /\ todo'[c] \subseteq Effects
  /\ todo' = [todo EXCEPT ![c] = todo'[c]]
  /\ \E m \in Memories : known' \in {known, known \cup {m}}
  /\ UNCHANGED content

Apply(e) ==
  content' = [content EXCEPT ![e.memory] =
                CASE e.kind = "put"    -> [@ EXCEPT ![e.tier] = e.content]
                  [] e.kind = "drop"   -> [@ EXCEPT ![e.tier] = None]
                  [] e.kind = "remove" -> Empty]

\* One effect happens; its client will not see it happen again.
Happen(c) ==
  \E e \in todo[c] :
    /\ Apply(e)
    /\ todo' = [todo EXCEPT ![c] = @ \ {e}]
    /\ UNCHANGED known

\* Clients are given up on, in part or all together.
Forget ==
  /\ \A c \in Clients : todo'[c] \subseteq todo[c]
  /\ DOMAIN todo' = Clients
  /\ UNCHANGED <<known, content>>

\* The memory itself goes after what it held.
Disappear ==
  /\ \E m \in known : known' = known \ {m}
  /\ UNCHANGED <<content, todo>>

MapNext == (\E c \in Clients : Ask(c) \/ Happen(c)) \/ Forget \/ Disappear

MapSpec == MapInit /\ [][MapNext]_mapVars
=============================================================================
