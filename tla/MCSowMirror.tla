----------------------------- MODULE MCSowMirror ----------------------------
(***************************************************************************)
(* A client system on one topic and a router system on another, with three *)
(* levels: client orders, routed orders and the street orders below them.  *)
(* The books hold a client order, a routed order and a street order that   *)
(* names it or itself; the changes amend, remove and bring back the client *)
(* order.  A book of its own is for a trader at the page.                  *)
(***************************************************************************)
EXTENDS SowMirror, TreeDesk, TLC

CONSTANTS Raptor, Or, R, O, K1, K2, K3, K4, ClId, Amended, Acme, AcmeX, Ac, ACME, Cat

Level(name, system, parents, street) ==
    [name |-> name, system |-> system, parents |-> parents, street |-> street]
Rule(level, when, link) == [level |-> level, when |-> when, link |-> link]

Levels == <<Level("CLIENT", Raptor, <<>>, FALSE), Level("OR_PARENT", Or, <<Raptor>>, FALSE),
            Level("OR_CHILD", Or, <<Or, Raptor>>, TRUE)>>
Rules  == Raptor :> <<Rule("CLIENT", Nothing, Nothing)>>
          @@ Or :> <<Rule("OR_CHILD", "child", "child"), Rule("OR_PARENT", Nothing, "alt")>>
Good   == [levels |-> Levels, rules |-> Rules, topics |-> << <<Raptor, R>>, <<Or, O>> >>]

MCConfigs ==
    {Good,
     [Good EXCEPT !.levels[1].parents = <<Or>>], [Good EXCEPT !.levels[1].street = TRUE],
     [Good EXCEPT !.rules[Or] = <<Rule("OR_PARENT", Nothing, "alt"),
                                  Rule("OR_CHILD", "child", "child")>>],
     [Good EXCEPT !.rules[Or] = <<Rule("OR_PARENT", Nothing, "alt")>>],
     [Good EXCEPT !.topics = << <<Raptor, R>>, <<Or, R>> >>]}

\* An order whose id is its SOW key.
Order(id, alt, child, cum, leaves) ==
    [id |-> id, alt |-> alt, orig |-> Nothing, child |-> child,
     moniker |-> IF id = K1 THEN Acme ELSE Nothing, sym |-> Cat,
     qty |-> 2, cum |-> cum, leaves |-> leaves]

Client == Order(K1, ClId, Nothing, 0, 2)
Routed == Order(K2, ClId, Nothing, 0, 2)
Street(parent) == Order(K3, Nothing, parent, 1, 1)

\* For the page: two clients whose names begin alike, one of whose orders is routed and has a
\* fill it does not know of, and a street order whose parent is unknown.
DeskBook ==
    <<R, K1>> :> Client @@ <<R, K4>> :> [Order(K4, Nothing, Nothing, 0, 2) EXCEPT !.moniker = AcmeX]
    @@ <<O, K2>> :> [Routed EXCEPT !.cum = 1, !.leaves = 1] @@ <<O, K3>> :> Street(Amended)

MCBooks ==
    { <<R, K1>> :> Client @@ <<O, K2>> :> Routed @@ <<O, K3>> :> Street(parent) :
        parent \in {K2, K3} }
    \cup {DeskBook}

Update(topic, body) == [topic |-> topic, key |-> body.id, body |-> body]
MCChanges ==
    { Update(R, [Client EXCEPT !.alt = Amended]),
      [topic |-> R, key |-> K1, body |-> Nothing] }
MCStarts == {Acme, AcmeX} \X {Ac, ACME, Acme} \cup {<<AcmeX, AcmeX>>, <<Cat, Cat>>}
MCUpper  == [text \in {Nothing, Ac, ACME, Acme, AcmeX, Cat} |-> IF text = Acme THEN ACME ELSE text]

-----------------------------------------------------------------------------
\* The mirror with changes and faults, or a trader at the page of a mirror that is loaded and
\* then sees one change.
Trader == <<R, K4>> \in DOMAIN sow
Loaded == session = "up" /\ wire = <<>> /\ \A s \in Systems : buffer[s] = <<>>

MCInit == Init /\ DeskInit(Trader)

MirrorNext ==
    /\ Next
    /\ Trader => /\ faults' = 0 /\ stopping' = FALSE
                 /\ changes' # changes => Loaded /\ changes = 0

MCNext ==
    \/ MirrorNext /\ UNCHANGED deskVars
    \/ Trader /\ (Loaded \/ presses > 0) /\ DeskNext
       /\ UNCHANGED <<sow, wire, session, placed, stopping, epoch, arrival, buffer, changes,
                      faults, torn>>

MCSpec == MCInit /\ [][MCNext]_<<mirrorVars, deskVars>> /\ MirrorFairness
=============================================================================
