-------------------------- MODULE MCWireContract --------------------------
EXTENDS WireContract

Said(kind, has) ==
    [kind |-> kind, has |-> has, over |-> {}, wrong |-> {}, private |-> {}, reason |-> "plain"]
Bare(a) == [action |-> a, envelope |-> None]
Envelope(kind, a) ==
    [kind |-> kind, reason |-> "plain", answer |-> "none", question |-> "none",
     missing |-> FALSE, action |-> a]
In(e) == [action |-> None, envelope |-> e]

Click == Said("click", {"target"})
MCCompletions ==
    {Bare(None), Bare(Click), Bare(Said("type", {"target", "text"})),
     Bare(Said("scroll", {"direction", "amount"})), Bare(Said("scroll", {"target"})),
     Bare([Said("pressKey", {"key"}) EXCEPT !.reason = "wide"]),
     Bare([Said("navigate", {"url"}) EXCEPT !.over = {"url"}]),
     Bare([Said("navigate", {"url"}) EXCEPT !.wrong = {"url"}]),
     Bare([Said("select", {"target", "option"}) EXCEPT !.private = {"option"}]),
     Bare([Said("scroll", {"direction", "amount"}) EXCEPT !.wrong = {"amount"}]),
     Bare([Click EXCEPT !.wrong = {"target"}]), Bare(Said("dig", {})),
     Bare([Click EXCEPT !.reason = "long"]), Bare([Click EXCEPT !.reason = "late"]),
     In(Envelope("ACTION", Click)), In(Envelope("ACTION", [Click EXCEPT !.reason = "late"])),
     In(Envelope("ACTION", [Click EXCEPT !.reason = "none"])), In(Envelope("ACTION", None)),
     [In(Envelope("ANSWER", None)) EXCEPT !.action = Click],
     In(Envelope("ANSWER", None)), In([Envelope("ANSWER", None) EXCEPT !.answer = "plain"]),
     In([Envelope("ANSWER", Click) EXCEPT !.answer = "plain"]),
     In([Envelope("ANSWER", None) EXCEPT !.answer = "titled"]),
     In(Envelope("PARTIAL", None)), In(Envelope("NEEDS_INFORMATION", None)),
     In([Envelope("NEEDS_INFORMATION", None) EXCEPT !.missing = TRUE]),
     In([Envelope("CANNOT_VERIFY", None) EXCEPT !.reason = "long"]),
     In([Envelope("CANNOT_VERIFY", None) EXCEPT !.reason = "none"]), In(Envelope("DONE", None))}

Declares(urls) ==
    [provenance |-> "USER", urls |-> urls, role |-> FALSE, rolesKnown |-> TRUE,
     extra |-> FALSE, stray |-> FALSE]
MCDeclarations ==
    {Declares({}), Declares({"a"}), Declares({"a", "b"}), [Declares({}) EXCEPT !.role = TRUE],
     [Declares({}) EXCEPT !.rolesKnown = FALSE],
     [Declares({"b"}) EXCEPT !.provenance = "PAGE"], [Declares({"a"}) EXCEPT !.stray = TRUE],
     [Declares({"a"}) EXCEPT !.extra = TRUE]}
=============================================================================
