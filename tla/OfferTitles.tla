---------------------------- MODULE OfferTitles ----------------------------
(***************************************************************************)
(* How a store title is read: internal/model/offer.go decides whether a    *)
(* title answers a query, which card the title names and which prices may  *)
(* be compared.  A title is a sequence of marks: pieces of a word, pieces  *)
(* with a digit, and the separators that the code looks for, each of them  *)
(* with the spaces the code asks for around it.  Pieces that follow each   *)
(* other without a separator are one written word.                         *)
(***************************************************************************)
EXTENDS Integers, Sequences, FiniteSetsExt

Space == " "
Dash == " - "
EnDash == " -- "
Bracket == " ("
Opening == "<<"
Closing == ">>"
Straight == "quote"
Pieces == {"k", "l"}
Loud == "K"              \* the piece k in capitals or with an accent
Codes == {"9"}

editionBrackets == {Bracket}
editionDashes == {Dash, EnDash}
quotePairs == << <<Opening, Closing>>, <<Straight, Straight>> >>
Gaps == {Space} \union editionDashes
Marks == Pieces \union Codes \union Gaps \union editionBrackets
            \union {Loud, Opening, Closing, Straight}

(* What strings.Fields leaves: no gap at either end, none after another.   *)
WellSpaced(title) ==
    /\ title # <<>> => title[1] \notin Gaps \union editionBrackets
                       /\ title[Len(title)] \notin Gaps
    /\ \A i \in 2..Len(title) :
          title[i - 1] \in Gaps => title[i] \notin Gaps \union editionBrackets

-----------------------------------------------------------------------------
(* Reading text                                                            *)

At(piece, title, i) == SubSeq(title, i, i + Len(piece) - 1) = piece
Occurs(piece, title) == \E i \in 1..(Len(title) - Len(piece) + 1) : At(piece, title, i)
StartsWith(title, piece) == Len(piece) <= Len(title) /\ At(piece, title, 1)
After(title, i) == SubSeq(title, i + 1, Len(title))

(* The place of the first of marks in title, or 0.                         *)
FirstOf(marks, title) ==
    LET places == {i \in DOMAIN title : title[i] \in marks}
    IN IF places = {} THEN 0 ELSE Min(places)

(* The written words of a name: a dash between spaces is one of them.      *)
Words(name) ==
    {<<name[i]>> : i \in {j \in DOMAIN name : name[j] \in editionDashes}}
        \union {SubSeq(name, p[1], p[2]) : p \in
                   {p \in (DOMAIN name) \X (DOMAIN name) :
                       /\ p[1] <= p[2]
                       /\ \A n \in p[1]..p[2] : name[n] \notin Gaps
                       /\ p[1] = 1 \/ name[p[1] - 1] \in Gaps
                       /\ p[2] = Len(name) \/ name[p[2] + 1] \in Gaps}}

NormalizeCard(title) ==
    [i \in DOMAIN title |-> IF title[i] = Loud THEN "k" ELSE title[i]]

plainDashes(title) ==
    [i \in DOMAIN title |-> IF title[i] = EnDash THEN Dash ELSE title[i]]

(* The first written word of a tail holds a digit.                         *)
OpensWithCode(tail) ==
    \E i \in DOMAIN tail :
        tail[i] \in Codes
            /\ \A j \in 1..i : tail[j] \notin Gaps \union editionBrackets

-----------------------------------------------------------------------------
(* Which titles a query accepts                                            *)

followsCode(title, name) ==
    \E dash \in editionDashes :
        /\ StartsWith(title, Append(name, dash))
        /\ OpensWithCode(After(title, Len(name) + 1))

quotesCardName(title, name) ==
    \E n \in DOMAIN quotePairs :
        Occurs(<<quotePairs[n][1]>> \o name \o <<quotePairs[n][2]>>, title)

(* A mutant: any dash opens a printing.                                    *)
MatchesAnyTail(title, name) ==
    LET t == NormalizeCard(title)
        n == NormalizeCard(name)
    IN /\ n # <<>>
       /\ \/ t = n
          \/ \E mark \in editionBrackets \union editionDashes : StartsWith(t, Append(n, mark))
          \/ quotesCardName(t, n)

MatchesCard(title, name) ==
    LET t == NormalizeCard(title)
        n == NormalizeCard(name)
    IN /\ n # <<>>
       /\ \/ t = n
          \/ \E bracket \in editionBrackets : StartsWith(t, Append(n, bracket))
          \/ followsCode(t, n)
          \/ quotesCardName(t, n)

ContainsCard(title, name) ==
    NormalizeCard(name) # <<>> /\ Occurs(NormalizeCard(name), NormalizeCard(title))

(* A mutant: the words are looked for among the words of the title.        *)
CoversWholeWords(title, name) ==
    /\ Words(NormalizeCard(name)) # {}
    /\ Words(NormalizeCard(name)) \subseteq Words(NormalizeCard(title))

CoversCard(title, name) ==
    /\ Words(NormalizeCard(name)) # {}
    /\ \A word \in Words(NormalizeCard(name)) : Occurs(word, NormalizeCard(title))

(* A query is a record with the name, the match mode and the kind.         *)
Sealed(query) == query.kind = "sealed"

AcceptsTitle(query, title) ==
    \/ Sealed(query) /\ CoversCard(title, query.name)
    \/ ~Sealed(query) /\ query.match = "includes" /\ ContainsCard(title, query.name)
    \/ ~Sealed(query) /\ query.match = "exact" /\ MatchesCard(title, query.name)

-----------------------------------------------------------------------------
(* Which card a title names                                                *)

(* The text between the first pair that is found around any, or <<>>.      *)
readQuotedName(title) ==
    LET from(n) == FirstOf({quotePairs[n][1]}, title)
        to(n) == FirstOf({quotePairs[n][2]}, After(title, from(n)))
        found == {n \in DOMAIN quotePairs : from(n) > 0 /\ to(n) > 1}
    IN IF found = {} THEN <<>>
       ELSE LET n == Min(found) IN SubSeq(title, from(n) + 1, from(n) + to(n) - 1)

(* A mutant: a dash is never the start of a printing.                      *)
trimBracketsOnly(title) ==
    LET bracket == FirstOf(editionBrackets, title)
    IN IF bracket > 1 THEN SubSeq(title, 1, bracket - 1) ELSE title

(* Of each separator only the first one is looked at, and the earliest cut  *)
(* wins; a dash cuts when a code follows it.                                *)
trimPrintingTail(title) ==
    LET brackets == {FirstOf({b}, title) : b \in editionBrackets}
        dashes == {i \in {FirstOf({d}, title) : d \in editionDashes} :
                      OpensWithCode(After(title, i))}
        cuts == {i \in brackets \union dashes : i > 1}
    IN IF cuts = {} THEN title ELSE SubSeq(title, 1, Min(cuts) - 1)

ReadCardKey(title) ==
    LET plain == NormalizeCard(plainDashes(title))
        quoted == readQuotedName(plain)
    IN IF quoted # <<>> THEN quoted ELSE trimPrintingTail(plain)

(* A box keeps its whole title, with the edition that its source named.    *)
ReadSealedKey(item) ==
    LET name == NormalizeCard(plainDashes(item.title))
    IN IF item.edition = <<>> THEN name ELSE NormalizeCard(item.edition) \o <<"|">> \o name

(* A mutant: a printing without a known function is its card.              *)
keyOfCard(item) ==
    LET card == ReadCardKey(item.title)
    IN CASE item.kind = "sealed" -> ReadSealedKey(item)
         [] item.kind # "sealed" /\ item.function # "" -> card \o <<"|", item.function>>
         [] OTHER -> card

readOfferKey(item) ==
    LET card == ReadCardKey(item.title)
    IN CASE item.kind = "sealed" -> ReadSealedKey(item)
         [] item.kind # "sealed" /\ item.game = "pokemon" /\ item.function # "" ->
                card \o <<"|", item.function>>
         [] item.kind # "sealed" /\ item.game = "pokemon" /\ item.function = ""
                /\ item.product # "" -> card \o <<"|", "printing", item.product>>
         [] OTHER -> card

NameCards(items) == [i \in DOMAIN items |-> [items[i] EXCEPT !.key = readOfferKey(items[i])]]

PriceGroupOf(query, item) ==
    IF query.match = "includes" \/ Sealed(query) THEN item.key ELSE NormalizeCard(query.name)

(* A set is named when it stands on its own words inside the title.        *)
wordsContain(title, phrase) ==
    \E i \in 1..(Len(title) - Len(phrase) + 1) :
        /\ At(phrase, title, i)
        /\ i = 1 \/ title[i - 1] \notin Pieces \union Codes
        /\ i + Len(phrase) = Len(title) + 1
              \/ title[i + Len(phrase)] \notin Pieces \union Codes

NamesSet(title, sets) ==
    \E set \in sets :
        NormalizeCard(set) # <<>> /\ wordsContain(NormalizeCard(title), NormalizeCard(set))

-----------------------------------------------------------------------------
(* Properties of one title and one name                                    *)

(* A wider question keeps what a narrower one keeps: a title that names the *)
(* card carries its name, and one that carries the name has all its words   *)
(* (AcceptsTitle), glued to others or not.                                  *)
WiderKeepsNarrower(title, name) ==
    /\ MatchesCard(title, name) => ContainsCard(title, name)
    /\ ContainsCard(title, name) => CoversCard(title, name)

(* The quotes of the title, if any, are around the name.                    *)
QuotesOnlyTheName(title, name) ==
    LET quotes == {i \in DOMAIN title : title[i] \in {Opening, Closing, Straight}}
    IN quotes = {} \/ (Cardinality(quotes) = 2 /\ quotesCardName(title, name))

(* Two titles that an exact question accepts are two printings of one card: *)
(* both are given the key of the name that was asked for, so their prices   *)
(* and their offers meet.  It is stated of titles that quote at most one    *)
(* name and of names without a dash, the only ones the code gets right.     *)
OneKeyPerCard(title, name) ==
    MatchesCard(title, name)
        /\ QuotesOnlyTheName(NormalizeCard(title), NormalizeCard(name))
        /\ (\A i \in DOMAIN name : name[i] \notin editionDashes)
            => ReadCardKey(title) = ReadCardKey(name)

=============================================================================
