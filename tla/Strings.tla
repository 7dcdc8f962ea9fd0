------------------------------- MODULE Strings -------------------------------
(***************************************************************************)
(* The text helpers the readers and the log filters are built on           *)
(* (stl/strings.cpp).  A text is a sequence of characters, a character a   *)
(* model value; Space stands for every white space character.              *)
(***************************************************************************)
EXTENDS Naturals, Sequences, SequencesExt

CONSTANTS Space, Backslash, Quote, Apostrophe

Special == {Backslash, Quote, Apostrophe}

nospace(ch) == ch # Space

ltrim(str) ==
    LET front == SelectInSeq(str, nospace)
    IN IF front = 0 THEN <<>> ELSE SubSeq(str, front, Len(str))

rtrim(str) == SubSeq(str, 1, SelectLastInSeq(str, nospace))

trim(str) == rtrim(ltrim(str))

\* One backslash for every time the character is listed; chars is a
\* sequence, and the three special characters are listed after it.
escape(s, chars) ==
    LET listed(c) == SelectSeq(chars \o <<Backslash, Quote, Apostrophe>>,
                               LAMBDA esc : esc = c)
        Escaped(c) == [i \in 1 .. Len(listed(c)) |-> Backslash] \o <<c>>
    IN FlattenSeq([i \in 1 .. Len(s) |-> Escaped(s[i])])

\* At: the character at i is a backslash that stands for the next one.
EscapeAt(s, i, chars) ==
    /\ s[i] = Backslash
    /\ i < Len(s)
    /\ s[i + 1] \in ToSet(chars) \cup Special

unescape(s, chars) ==
    LET from[i \in 1 .. Len(s) + 2] ==
            IF i > Len(s) THEN <<>>
            ELSE IF EscapeAt(s, i, chars) THEN <<s[i + 1]>> \o from[i + 2]
            ELSE <<s[i]>> \o from[i + 1]
    IN from[1]

Flush(vec, buf) == IF buf = <<>> THEN vec ELSE Append(vec, buf)

\* Both overloads: separator says which characters end a word.  Either kind
\* of quote opens and closes a quoted part.
split(str, separator) ==
    LET word[i \in 1 .. Len(str) + 2, flag \in BOOLEAN, buf \in Seq(ToSet(str))] ==
            LET ch == str[i]
            IN IF i > Len(str) THEN Flush(<<>>, buf)
               ELSE IF ch \in {Quote, Apostrophe} THEN word[i + 1, ~flag, buf]
               ELSE IF ch = Backslash /\ i < Len(str)
                    THEN word[i + 2, flag, Append(buf, str[i + 1])]
               ELSE IF ch \in separator /\ ~flag
                    THEN Flush(<<>>, buf) \o word[i + 1, flag, <<>>]
               ELSE word[i + 1, flag, Append(buf, ch)]
    IN word[1, FALSE, <<>>]

\* The search goes on behind the replacement.  (An empty search text finds
\* itself everywhere and the loop of the code never ends.)
replace(str, search, repl) ==
    LET n == Len(search)
        from[i \in 1 .. Len(str) + n] ==
            IF i > Len(str) THEN [str |-> <<>>, count |-> 0]
            ELSE IF i + n - 1 <= Len(str) /\ SubSeq(str, i, i + n - 1) = search
                 THEN [str |-> repl \o from[i + n].str, count |-> from[i + n].count + 1]
                 ELSE [from[i + 1] EXCEPT !.str = <<str[i]>> \o @]
    IN from[1]

-----------------------------------------------------------------------------
Intersperse(words, between) ==
    FlattenSeq([i \in 1 .. Len(words) |->
                    IF i = 1 THEN words[i] ELSE between \o words[i]])

(* What escape writes is read back by unescape (strings.cpp:93, 106) and by *)
(* split (119): words that contain separators, quotes and backslashes      *)
(* survive being escaped, joined with separators and split again.  An      *)
(* apostrophe in a quoted word does not: it closes the quote.  Trimming    *)
(* removes white space at the ends only, and replacing a text by a fresh   *)
(* character and back is the identity.                                     *)
TextSurvives(words, search) ==
    LET escaped == [i \in 1 .. Len(words) |-> escape(words[i], <<Space>>)]
        nonempty == SelectSeq(words, LAMBDA w : w # <<>>)
        text == FlattenSeq(words)
        fresh == <<"fresh">>
    IN /\ \A i \in 1 .. Len(words) : unescape(escaped[i], <<Space>>) = words[i]
       /\ split(Intersperse(escaped, <<Space>>), {Space}) = nonempty
       /\ trim(<<Space>> \o text \o <<Space>>) = trim(text)
       /\ Len(trim(text)) > 0 =>
              /\ nospace(Head(trim(text)))
              /\ nospace(Last(trim(text)))
              /\ \E a, b \in 0 .. Len(text) :
                     /\ SubSeq(text, a + 1, b) = trim(text)
                     /\ \A i \in (1 .. Len(text)) \ ((a + 1) .. b) : text[i] = Space
       /\ search # <<>> =>
              LET there == replace(text, search, fresh)
                  back == replace(there.str, fresh, search)
              IN back = [str |-> text, count |-> there.count]
=============================================================================
