SPECIFICATION Spec
CONSTANT None = None
INVARIANTS TrueOrKnows WorkIsKept FeedIsWhole DeviceIsAsShown SelectedWereShown PlanHolds
PROPERTIES BoardIsKept WritesKeepTheRest FiltersAsComposed DeletionAsShown
CHECK_DEADLOCK FALSE
