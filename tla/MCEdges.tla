------------------------------- MODULE MCEdges ------------------------------
(* Who reaches what, and the command line, on small instances: requests of *)
(* the API, addresses on the services network, requests that are counted,  *)
(* the webhook; a deployment of several applications, an image sent, a log *)
(* followed, releases, the servers a laptop knows.  They share no state: a *)
(* behaviour is one of a single part.                                      *)
EXTENDS Access, Addresses, Traffic, Webhook,
        DeployMany, SendImage, FollowedLog, Release, Servers, TLC

CONSTANT Parts    \* the parts of a run
VARIABLE part

MCNameOf == [email |-> "ada@x.io", sub |-> "u1"]
MCDomainOf == "ada@x.io" :> "x.io" @@ "u1" :> ""
Rule(k, s, r, a) == [kind |-> k, subject |-> s, role |-> r, apps |-> a]
MCRules == {Rule("group", "ops", "deploy", {"web"}), Rule("group", "dev", "deploy", {"api"}),
            Rule("email", "ada@x.io", "read", {}), Rule("domain", "x.io", "deploy", {})}
Conf(c, ts) == [claim |-> c, tenants |-> ts]
ID(iss, tid, aud, azp, age) == [iss |-> iss, tid |-> tid, aud |-> aud, azp |-> azp, age |-> age, life |-> 2, nonce |-> TRUE]
MCIDTokens == {ID("T1", "T1", {"client"}, "", 0), ID("T2", "T2", {"client", "other"}, "client", 0),
               ID("T1", "T2", {"client"}, "", 0)}
MCTokens == {[role |-> "deploy", apps |-> {"web"}], [role |-> "deploy", apps |-> {"api"}]}
B(ticks, rot, si, rq, ad, rs, strict, rl, cs) ==
    [ticks |-> ticks, rotations |-> rot, signins |-> si, requests |-> rq, admin |-> ad,
     restarts |-> rs, strict |-> strict, rules |-> rl, confs |-> cs]
MCAccessBudgets ==
    {B(0, 0, 1, 1, 2, 0, {TRUE}, <<Rule("group", "ops", "deploy", {"web"})>>, {Conf("email", {"T1"})}),
     B(0, 0, 1, 2, 1, 0, {TRUE}, <<Rule("group", "ops", "deploy", {"web"})>>, {Conf("email", {"T1"})}),
     B(0, 0, 1, 1, 1, 1, {TRUE}, <<Rule("domain", "x.io", "deploy", {}), Rule("name", "u1", "read", {})>>,
       {Conf("email", {"T1"}), Conf("sub", {"T1"}), Conf("email", {"T2"})}),
     B(4, 1, 2, 0, 0, 1, BOOLEAN, <<Rule("domain", "x.io", "deploy", {})>>, {Conf("email", {"T1"})}),
     B(4, 0, 2, 1, 0, 0, {TRUE}, <<Rule("domain", "x.io", "deploy", {}), Rule("group", "ops", "read", {})>>, {Conf("email", {"*"})})}

AddrB(st, sa, rn, d, rs, rq, si, mu) ==
    [stops |-> st, starts |-> sa, renames |-> rn, deaths |-> d, restarts |-> rs, requests |-> rq, silences |-> si, mute |-> mu]
MCAddressBudgets == {AddrB(1, 1, 0, 0, 0, 1, 0, 0), AddrB(0, 1, 0, 1, 0, 1, 1, 0), AddrB(0, 1, 0, 1, 0, 1, 0, 1),
                     AddrB(0, 1, 0, 1, 1, 1, 0, 0), AddrB(0, 1, 1, 1, 0, 1, 0, 0)}

TB(t, c, f, s, d, v, fl) ==
    [ticks |-> t, cuts |-> c, faults |-> f, stops |-> s, deletes |-> d, views |-> v, flushes |-> fl]
MCTrafficBudgets == {TB(1, 1, 1, 0, 0, 1, 2), TB(1, 0, 0, 1, 0, 1, 1), TB(1, 0, 0, 0, 1, 1, 0),
                     TB(1, 0, 0, 0, 1, 0, 1), TB(0, 0, 0, 0, 1, 1, 1)}

One(S) == CHOOSE x \in S : TRUE

(* Applications 1 to 3 in files whose `after` is a chain, a fork, a join,  *)
(* a ring, and a name nobody has.                                          *)
InLine == (1 :> {2}) @@ (2 :> {3}) @@ (3 :> {})
Fork == (1 :> {}) @@ (2 :> {1}) @@ (3 :> {1})
Join == (1 :> {}) @@ (2 :> {}) @@ (3 :> {1, 2})
Ring == (1 :> {2}) @@ (2 :> {3}) @@ (3 :> {1})
Unknown == (1 :> {4}) @@ (2 :> {}) @@ (3 :> {})
MCAfters == {InLine, Fork, Join, Ring, Unknown}
MCSelections == {{}, {1, 3}}

(* Images by their layers; e appears twice in one of them.                 *)
V1 == <<"a", "b">>
V2 == <<"a", "b", "c">>
V3 == <<"a", "e", "e">>
V4 == <<"a", "e">>
MCStocks == [OtherTags -> {Nothing, V1, V4, <<"x", "b">>}]
MCBuilt == {V2, V3}
MCArchives == {{OwnTag}, OtherTags, {OwnTag} \union OtherTags}

(* Two replicas that say the same, and one alone.                          *)
Same == [r \in Replicas |-> {"x"}]
Alone == [r \in Replicas |-> IF r = 1 THEN {"x", "y"} ELSE {}]
MCFollowBudgets ==
    {[cuts |-> 2, beats |-> 0, lines |-> 2, says |-> Same], [cuts |-> 2, beats |-> 1, lines |-> 3, says |-> Alone]}

(* Releases: 1.0.0 from before signatures, 2.0.0-1 and 2.0.0.              *)
V(c, p) == [core |-> c, pre |-> p]
MCReleases == {V(1, 0), V(2, 1), V(2, 0)}
MCDev == V(0, 0)
MCFirst == V(2, 1)
All == {"arm64", "amd64", "compose", "installer", "digests"}
Listing(sig, lists) == [signature |-> sig, lists |-> lists]
Site(api, latest, redirect, sig) ==
    [latest |-> latest, api |-> api, redirect |-> redirect,
     rel |-> V(1, 0) :> Listing("none", All \ {"digests", "arm64"}) @@ V(2, 1) :> Listing("own", All)
             @@ V(2, 0) :> Listing(sig, All)]
Machine(w, b, c, n, v) ==
    [windows |-> w, brew |-> b, cosign |-> c, native |-> n, built |-> "amd64", version |-> v]
Setting(s, m) == [site |-> s, machine |-> m]
MCSettings ==
    {Setting(Site("ok", V(2, 0), V(2, 0), "own"), Machine(TRUE, FALSE, TRUE, "arm64", V(1, 0))),
     Setting(Site("limited", V(2, 0), V(2, 0), "none"), Machine(FALSE, FALSE, TRUE, "amd64", MCDev)),
     Setting(Site("ok", V(2, 1), V(1, 0), "foreign"), Machine(FALSE, FALSE, TRUE, "amd64", V(2, 1))),
     Setting(Site("ok", V(2, 0), V(2, 0), "foreign"), Machine(FALSE, FALSE, FALSE, "amd64", V(2, 1))),
     Setting(Site("down", V(2, 0), V(2, 0), "own"), Machine(FALSE, TRUE, TRUE, "amd64", V(1, 0)))}

(* Saved images: as the containerd store saves one (Z: its compressed      *)
(* layers), as the classic one does (U unpacked, D docker's manifest), and *)
(* others a bundle must refuse.                                            *)
Archive(has, mj, ij) == [has |-> has, manifestJson |-> mj, indexJson |-> ij]
MCImageArchives == [
    containerd |-> Archive({"C", "M", "Z"}, {"C"}, {"M"}),
    list       |-> Archive({"C", "M", "Z", "I"}, {}, {"I"}),
    classic    |-> Archive({"C", "D", "U"}, {"C"}, {"D"}),
    lacking    |-> Archive({"C", "M", "D"}, {"C"}, {"M"}),
    listAlone  |-> Archive({"C", "D", "U", "I"}, {"C"}, {"I"}),
    other      |-> Archive({"C", "M", "Z", "K", "X", "V"}, {"C"}, {"X"}),
    others     |-> Archive({"C", "M", "Z", "K", "X", "V"}, {"K"}, {"M"}),
    extra      |-> Archive({"C", "D", "U", "W", "V"}, {"C"}, {"W"}),
    unnamed    |-> Archive({"C", "M", "Z"}, {}, {})]
MCOwn == [index |-> "I", manifest |-> "M", config |-> "C"]
MCManifestConfig == [M |-> "C", D |-> "C", X |-> "K", W |-> "C"]
MCManifestLayers == [M |-> <<"Z">>, D |-> <<"U">>, X |-> <<"V">>, W |-> <<"V">>]
MCDiffIDs == [C |-> <<"U">>, K |-> <<"V">>]
MCReleaseBudgets == {[starts |-> 2, bad |-> 1, kills |-> 1]}

MCRoot == [h |-> "root"]
SavedEarlier == [url |-> "a", token |-> "old"]
MCServerBudgets == {[starts |-> 3, cuts |-> 0, old |-> NoContext], [starts |-> 2, cuts |-> 1, old |-> NoContext],
                    [starts |-> 2, cuts |-> 1, old |-> SavedEarlier]}

(* Only the part that is run begins in any of its initial states.          *)
EdgesInit ==
    /\ part \in Parts
    /\ AccessInit /\ (part # "access" => budget = One(Budgets) /\ conf = One(budget.confs) /\ provider.strict)
    /\ AddressInit /\ (part # "addresses" => chances = One(AddressBudgets))
    /\ TrafficInit /\ (part # "traffic" => left = One(TrafficBudgets))
    /\ WebhookInit
    /\ ManyInit /\ (part # "deploy" => /\ command.after = One(Afters) /\ command.names = One(Selections)
                                      /\ command.limit = One(Limits) /\ command.noWait)
    /\ SendInit /\ (part # "send" => named = One(Stocks) /\ sender.image = One(Built) /\ ~sender.byHand)
    /\ FollowInit /\ (part # "logs" => limits = One(FollowBudgets))
    /\ ReleaseInit /\ (part # "release" => LET s == One(Settings) IN site = s.site /\ machine = s.machine)
    /\ ServersInit /\ (part # "servers" => serverLeft = One(ServerBudgets))

edgeVars == <<accessVars, addressVars, trafficVars, webhookVars>>
clientVars == <<manyVars, sendVars, followVars, releaseVars, serverVars>>

(* Bound: the addresses end with the last request, which is what they are  *)
(* looked at for.                                                          *)
Asked == chances.requests > 0 \/ request # NoRequest

EdgesNext ==
    /\ UNCHANGED part
    /\ \/ part = "access" /\ AccessNext /\ UNCHANGED <<addressVars, trafficVars, webhookVars, clientVars>>
       \/ part = "addresses" /\ Asked /\ AddressNext /\ UNCHANGED <<accessVars, trafficVars, webhookVars, clientVars>>
       \/ part = "traffic" /\ TrafficNext /\ UNCHANGED <<accessVars, addressVars, webhookVars, clientVars>>
       \/ part = "webhook" /\ WebhookNext /\ UNCHANGED <<accessVars, addressVars, trafficVars, clientVars>>
       \/ part = "deploy" /\ ManyNext /\ UNCHANGED <<edgeVars, sendVars, followVars, releaseVars, serverVars>>
       \/ part = "send" /\ SendNext /\ UNCHANGED <<edgeVars, manyVars, followVars, releaseVars, serverVars>>
       \/ part = "logs" /\ FollowNext /\ UNCHANGED <<edgeVars, manyVars, sendVars, releaseVars, serverVars>>
       \/ part = "release" /\ ReleaseNext /\ UNCHANGED <<edgeVars, manyVars, sendVars, followVars, serverVars>>
       \/ part = "servers" /\ ServersNext /\ UNCHANGED <<edgeVars, manyVars, sendVars, followVars, releaseVars>>

(* The command does as it was asked, and prints a log's lines once and in  *)
(* order (deploy, logs -f).                                                *)
CommandsKeepTo == DeploysAsAsked /\ PrintedInOrder
=============================================================================
