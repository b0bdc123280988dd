SPECIFICATION Spec
CONSTANT Restart = 2
PROPERTY SyncPressExits
