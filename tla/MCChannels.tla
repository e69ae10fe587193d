----------------------------- MODULE MCChannels -----------------------------
(* Instance of Channels for TLC. *)
EXTENDS Channels, TLC
CONSTANTS u1, u2, http
MCUrls == {u1, u2}
MCBadUrls == {http}
MCSettings == {[url |-> u1, auto |-> FALSE, relay |-> FALSE],
               [url |-> u2, auto |-> TRUE, relay |-> FALSE],
               [url |-> u2, auto |-> FALSE, relay |-> TRUE],
               [url |-> u1, auto |-> FALSE, relay |-> TRUE],
               [url |-> http, auto |-> FALSE, relay |-> FALSE]}

\* Files of the first version, one with a URL to skip, one with a channel too many.
Old(id, url, grid) == [id |-> id, cfg |-> [url |-> url, auto |-> FALSE, relay |-> FALSE,
                                           grid |-> grid, list |-> Missing]]
MCFirstFiles == {[kind |-> "missing"], [kind |-> "damaged"], [kind |-> "future"],
                 [kind |-> "channels",
                  channels |-> <<Old(2, u1, 0), Old(1, http, 1), Old(3, u2, 2)>>],
                 [kind |-> "channels",
                  channels |-> <<Old(1, u2, 0), Old(3, u1, 1), Old(2, u1, 2)>>]}
=============================================================================
