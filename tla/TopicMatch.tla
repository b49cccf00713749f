----------------------------- MODULE TopicMatch -----------------------------
(***************************************************************************)
(* MatchTopic and matchWords of vhost/exchange.go: whether a routing key   *)
(* matches the pattern of a topic binding, against a definition of what    *)
(* the wildcards mean.                                                     *)
(*                                                                         *)
(* Keys are what strings.Split makes of them, sequences of words; a word   *)
(* may be empty.  The words of a routing key are never read as wildcards,  *)
(* though they may be the same characters.                                 *)
(***************************************************************************)
EXTENDS Integers, Sequences, Functions

CONSTANTS Words,     \* literal words
          Star,      \* the word *
          Hash,      \* the word #
          EmptyWord, \* the word between two dots
          MaxWords   \* bound on the words of a key

ASSUME WordsAssumption ==
    /\ Star # Hash /\ EmptyWord \notin {Star, Hash}
    /\ Words \cap {Star, Hash, EmptyWord} = {}
    /\ MaxWords \in Nat \ {0}

RoutingWords == Words \cup {EmptyWord, Star}
PatternWords == RoutingWords \cup {Hash}

-----------------------------------------------------------------------------
(* The rest of a pattern, from word p on, that matches the empty rest. *)
OnlyHashes(pat, p) == \A n \in p..Len(pat) : pat[n] = Hash

(* Mutant: # stands for at least one word. *)
MatchOneOrMore(r, pat) ==
    LET m[at \in (1..(Len(r) + 1)) \X (1..(Len(pat) + 1))] ==
            LET i == at[1]  p == at[2]
            IN  IF p > Len(pat) THEN i > Len(r)
                ELSE IF i > Len(r) THEN FALSE
                ELSE IF pat[p] = Hash THEN m[<<i + 1, p + 1>>] \/ m[<<i + 1, p>>]
                ELSE (pat[p] = Star \/ pat[p] = r[i]) /\ m[<<i + 1, p + 1>>]
    IN  m[<<1, 1>>]

(* matchWords: m[<<i, p>>] is the call with rIdx and pIdx at words i and p. *)
MatchWords(r, pat) ==
    LET m[at \in (1..(Len(r) + 1)) \X (1..(Len(pat) + 1))] ==
            LET i == at[1]  p == at[2]
            IN  IF p > Len(pat) THEN i > Len(r)
                ELSE IF i > Len(r) THEN OnlyHashes(pat, p)
                ELSE IF pat[p] = Hash THEN m[<<i, p + 1>>] \/ m[<<i + 1, p>>]
                ELSE (pat[p] = Star \/ pat[p] = r[i]) /\ m[<<i + 1, p + 1>>]
    IN  m[<<1, 1>>]

Malformed(key) == EmptyWord \in Range(key)

(* MatchTopic, with its shortcuts and its special case. *)
MatchTopic(r, pat) ==
    \/ pat = <<Hash>> \/ r = pat
    \/ /\ ~Malformed(r) /\ ~Malformed(pat)
       /\ IF pat = <<Star, Hash>> THEN Len(r) >= 2 ELSE MatchWords(r, pat)

-----------------------------------------------------------------------------
(***************************************************************************)
(* What a pattern means: the routing key can be cut into one piece for     *)
(* each word of the pattern, end[p] the end of the piece of word p.  A # is *)
(* any piece, a * is one word, and a literal is that word.                 *)
(***************************************************************************)
Means(r, pat) ==
    \E end \in [0..Len(pat) -> 0..Len(r)] :
        /\ end[0] = 0 /\ end[Len(pat)] = Len(r)
        /\ \A p \in 1..Len(pat) :
              IF pat[p] = Hash THEN end[p] >= end[p - 1]
              ELSE end[p] = end[p - 1] + 1 /\ (pat[p] = Star \/ pat[p] = r[end[p]])

KeysOf(words) == UNION {[1..n -> words] : n \in 1..MaxWords}

(***************************************************************************)
(* For keys without empty words MatchTopic decides what the wildcards      *)
(* mean, whatever the number and the places of the # in the pattern; the   *)
(* exception is the pattern *.#, which the code refuses to match with a    *)
(* single word.  A key with an empty word matches nothing but the pattern  *)
(* # and itself.                                                           *)
(***************************************************************************)
AsMeant ==
    \A r \in KeysOf(RoutingWords), pat \in KeysOf(PatternWords) :
        MatchTopic(r, pat) <=>
            IF Malformed(r) \/ Malformed(pat) THEN pat = <<Hash>> \/ r = pat
            ELSE Means(r, pat) /\ ~(pat = <<Star, Hash>> /\ Len(r) = 1)
=============================================================================
