----------------------------- MODULE StorageKeys -----------------------------
(***************************************************************************)
(* The names storage/keys.py makes of what staff and clients typed, as     *)
(* functions on words.  A word is a sequence of characters; a run of       *)
(* letters and digits no rule tells apart is one character, named by what  *)
(* it spells.                                                              *)
(***************************************************************************)
EXTENDS Integers, Sequences, FiniteSets, FiniteSetsExt

\* The characters that are neither letters nor digits.
Blank == {" "}
Special == Blank \cup {"_", "-", ".", "/"}

\* str.strip: no character of `drop` at either end.
Strip(word, drop) ==
    LET kept == {i \in DOMAIN word : word[i] \notin drop}
    IN IF kept = {} THEN <<>>
       ELSE SubSeq(word, Min(kept), Max(kept))

\* Of a run of `other` characters its first one is kept, as a "_".
Kept(word, other) ==
    {i \in DOMAIN word : word[i] \in other => i = 1 \/ word[i - 1] \notin other}

\* The k-th of a set of positions.
Nth(positions, k) ==
    CHOOSE i \in positions : Cardinality({j \in positions : j <= i}) = k

\* re.sub of "[...]+" by "_".
Squeeze(word, other) ==
    [k \in 1..Cardinality(Kept(word, other)) |->
        LET char == word[Nth(Kept(word, other), k)]
        IN IF char \in other THEN "_" ELSE char]

OrElse(word, fallback) == IF word = <<>> THEN fallback ELSE word

\* Mutants: strip is left out; strip comes before the substitution.
SqueezeOnly(value) == OrElse(Squeeze(Strip(value, Blank), Special), <<"unknown">>)
StripFirst(name) ==
    OrElse(Squeeze(Strip(name, Blank \cup {".", "_"}), {" ", "/"}), <<"file">>)

\* slugify
Slug(value) ==
    OrElse(Strip(Squeeze(Strip(value, Blank), Special), {"_"}), <<"unknown">>)

\* sanitize_filename
Sanitize(name) ==
    OrElse(Strip(Squeeze(Strip(name, Blank), {" ", "/"}), {".", "_"}), <<"file">>)

CaseFolder(reference, client) == Slug(reference) \o <<"_", "_">> \o Slug(client)

\* rsplit(".", 1)[0]: up to the last dot.
Stem(stored) ==
    LET dots == {i \in DOMAIN stored : stored[i] = "."}
    IN IF dots = {} THEN stored
       ELSE SubSeq(stored, 1, Max(dots) - 1)

Sidecar(stored) == Stem(stored) \o <<".", "json">>
=============================================================================
