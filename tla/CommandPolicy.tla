---------------------------- MODULE CommandPolicy ----------------------------
(***************************************************************************)
(* security.py: which commands a policy lets through.  A text is a         *)
(* sequence of fragments: a stem or an ending of a word, a piece of white  *)
(* space, the glob sign.  That is as fine as matching is, which looks at   *)
(* whole texts and at their beginnings only.                               *)
(***************************************************************************)
EXTENDS Naturals, Sequences, SequencesExt, Subsequences

CONSTANTS
    Fragments,        \* what texts are made of
    Spaces, Blank,    \* white space, and the space character
    Star,             \* "*"
    Unsafe,           \* fragments with a character outside ALLOWED_COMMAND_CHARS
    Lower,            \* the lower case of each fragment
    Shutdown, Clear   \* the words of BASELINE_CONFIG_DENIED_COMMANDS

ASSUME TextAssumption ==
    /\ Spaces \subseteq Fragments /\ Unsafe \subseteq Fragments
    /\ Blank \in Spaces \ Unsafe /\ Star \in Unsafe \ Spaces
    /\ {Shutdown, Clear} \subseteq Fragments \ (Unsafe \cup Spaces)
    /\ Lower \in [Fragments -> Fragments]
    /\ \A f \in {Shutdown, Clear, Star} \cup Spaces : Lower[f] = f
    /\ \A f \in Fragments : Lower[f] \in {Star} \cup Spaces => Lower[f] = f

Text   == Seq(Fragments)
Policy == [allowed : SUBSET Text, denied : SUBSET Text]

Baseline == { <<Shutdown>>, <<Shutdown, Star>>, <<Clear, Star>> }

LowerCase(t) == [i \in DOMAIN t |-> Lower[t[i]]]

\* Where a text is not white space.
Ink(t) == {i \in DOMAIN t : t[i] \notin Spaces}

\* str.strip()
Strip(t) == IF Ink(t) = {} THEN <<>> ELSE SubSeq(t, Min(Ink(t)), Max(Ink(t)))

\* Of white space, only the last piece before a word that is not the first stays.
Kept(t) == Ink(t) \cup {i \in DOMAIN t : i + 1 \in Ink(t) /\ \E j \in Ink(t) : j < i}

\* " ".join(t.split())
Normalize(t) ==
    Subsequence([i \in DOMAIN t |-> IF i \in Ink(t) THEN t[i] ELSE Blank], Kept(t))

-----------------------------------------------------------------------------
\* An entry of a list is a text that is not blank.
WellFormed(policy) ==
    \A e \in policy.allowed \cup policy.denied : Strip(e) # <<>>

InvalidGlobs(entries) ==
    {e \in entries :
        LET p     == Strip(e)
            stars == {i \in DOMAIN p : p[i] = Star}
        IN  stars # {} /\ (stars # {Len(p)} \/ p = <<Star>>)}

ValidateCommandLists(policy) ==
    InvalidGlobs(policy.allowed) \cup InvalidGlobs(policy.denied)

\* Mutant: the blank before the glob sign is matched like the sign itself.
MatchesBareWord(command, entry) ==
    LET p == LowerCase(Strip(entry))
        c == LowerCase(command)
    IN  IF Star \in Range(p) THEN IsPrefix(Strip(Front(p)), c) ELSE c = p

\* One entry of _matches_any: equal texts, or for an entry with its one '*' at
\* the end (InvalidGlobs has refused every other) a common beginning; case does
\* not count, and blanks inside the entry are matched as they stand.
Matches(command, entry) ==
    LET p == LowerCase(Strip(entry))
        c == LowerCase(command)
    IN  IF Star \in Range(p) THEN IsPrefix(Front(p), c) ELSE c = p

MatchesAny(command, entries) == \E e \in entries : Matches(command, e)

Reason(command, policy) ==
    IF Range(command) \cap Unsafe # {} THEN "UNSAFE_CHAR"
    ELSE IF MatchesAny(Normalize(command), policy.denied) THEN "DENY_MATCH"
    ELSE IF MatchesAny(Normalize(command), policy.allowed) THEN "ALLOWED"
    ELSE "NO_ALLOW_MATCH"

ValidateCommand(command, policy) ==
    [allowed    |-> Reason(command, policy) = "ALLOWED",
     reason     |-> Reason(command, policy),
     normalized |-> Normalize(command)]

\* Mutant: the baseline joins the lists only where the operator denies nothing.
ValidateConfigByDefault(command, policy) ==
    ValidateCommand(command,
        IF policy.denied = {} THEN [policy EXCEPT !.denied = Baseline] ELSE policy)

ValidateConfigCommand(command, policy) ==
    ValidateCommand(command, [policy EXCEPT !.denied = @ \cup Baseline])

-----------------------------------------------------------------------------
(* The meaning of an entry as security.py 7-10 and README.md 72-82 give it,  *)
(* word by word; the properties compare verdicts with it.                    *)

Starts(t) == {i \in Ink(t) : i = 1 \/ t[i - 1] \in Spaces}

WordEnd(t, i) == Max({j \in i..Len(t) : \A n \in i..j : t[n] \notin Spaces})

Words(t) ==
    [k \in 1..Cardinality(Starts(t)) |->
        SubSeq(t, Nth(Starts(t), k), WordEnd(t, Nth(Starts(t), k)))]

\* The entry denotes the command: all its words; or, with a glob sign at its end,
\* its words and then a word, or the rest of a word, of the client's choice.
Denotes(entry, command) ==
    LET e == Words(LowerCase(entry))
        c == Words(LowerCase(command))
        n == Len(e)
    IN  IF Star \notin Range(entry) THEN c = e
        ELSE Len(c) >= n /\ IsPrefix(Front(e), c) /\ IsPrefix(Front(e[n]), c[n])

\* An entry written with single blanks.
Tidy(entry) == Normalize(entry) = Strip(entry)
=============================================================================
