\* Three calls, of two commands at a time.
SPECIFICATION Spec
CONSTANTS
    MaxCalls = 3
    Mixes = {
        {"set_fee_rate_increase_per_guess_per_mille", "set_game_inactive"},
        {"set_agent_address", "set_starting_fee"},
        {"set_update_fee_every_n_guesses", "set_protocol_fee_per_mille"}}
INVARIANTS
    TypeOK
    LastOkHolds
    ErrMeansUntouched
PROPERTIES
    CallsEnd
