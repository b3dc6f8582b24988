CONSTANT Zid = {1, 2}
SPECIFICATION ScoutSpec
PROPERTY GreetedIsNotRefused
CHECK_DEADLOCK FALSE
