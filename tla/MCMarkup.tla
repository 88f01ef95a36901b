------------------------------- MODULE MCMarkup -------------------------------
(* Documents made of a few pieces, which may cut tags, values and entities short. *)
EXTENDS Markup

Opening(name) == <<"<", name, ">">>
Closing(name) == <<"<", "/", name, ">">>

Tags == {Opening(n) : n \in {"p", "div", "tr", "td", "svg", "desc", "title", "script", "br", "menuitem"}}
        \cup {Closing(n) : n \in {"p", "div", "tr", "svg", "desc", "title", "script", "br"}}
Cut == {<<"<", "p", " ">>, <<"<", "p", " ", "y", "=">>, <<"<", "p", " ", "y", "=", "\"">>,
        <<"<", "p", " ", "y", "=", "'">>, <<"<", "/", "y">>, <<"<", "!">>, <<"<", "?">>}
Rest == {<<"y">>, <<" ", "id">>, <<"\"">>, <<"'">>, <<"/", ">">>, <<">">>, <<"lt", ";">>,
         <<"$">>, <<"grave">>}
Entity == {<<"&", "lt">>, <<"&", "amp", ";">>, <<"&", "quot", ";">>, <<"&", "#", "60">>}
Sections == {<<"<", "!", "-", "-">>, <<"-", "-", ">">>,
            <<"<", "!", "[", "CDATA[">>, <<"]", "]", ">">>}
Pieces == Tags \cup Cut \cup Rest \cup Entity \cup Sections
MCDocuments == {<<>>} \cup Pieces \cup {a \o b : a \in Pieces, b \in Pieces}
               \cup {a \o b \o c : a \in Pieces, b \in Pieces, c \in Pieces}
=============================================================================
